--------------------------- MODULE MonoXPsProofs ---------------------------
(***************************************************************************)
(* Theorems about MonoXPs, for every number of features, every finite or   *)
(* infinite set of values, every monotone classifier and every instance.   *)
(* First types and the two loops (TypeOK, LoopInv, SoundReport), then the  *)
(* enumeration (EnumInv and what follows from it, the steps of XpEnum),    *)
(* and last what the digest says and the number of calls.                  *)
(***************************************************************************)
EXTENDS MonoXPsProperties, FeatureSpaceProofs, FiniteSetTheorems

-----------------------------------------------------------------------------
(* Type correctness. *)

\* A set of features is finite and has at most NF members (update_stats counts
\* them, write_xp numbers them).
LEMMA FeatureSets ==
  ASSUME NEW X \in SUBSET Feature
  PROVE  IsFiniteSet(X) /\ Cardinality(X) \in 0..NF
<1>1. IsFiniteSet(Feature) /\ Cardinality(Feature) = NF
  BY SpaceAssumption, FS_Interval DEF Feature
<1>2. IsFiniteSet(X) /\ Cardinality(X) <= Cardinality(Feature)
  BY <1>1, FS_Subset
<1>3. Cardinality(X) \in Nat
  BY <1>2, FS_CardinalityType
<1> QED  BY <1>1, <1>2, <1>3, SpaceAssumption

\* The box of any set of universal features lies within the bounds.
LEMMA BoxTyped ==
  ASSUME vect \in Space, NEW U \in SUBSET Feature
  PROVE  Box(U) \in BoxType
BY EndsInSpace DEF Box, BoxType, LowEnd, HighEnd

LEMMA SpaceExcept ==
  ASSUME NEW x \in Space, NEW i \in Feature, NEW a \in Value,
         LBs[i] <= a, a <= UBs[i]
  PROVE  [x EXCEPT ![i] = a] \in Space
BY DEF Space, Point

LEMMA MakeTyped ==
  ASSUME vect \in Space, NEW m \in BoxType, NEW i \in Feature
  PROVE  /\ MakeFeatureUniversal(m, i) \in BoxType
         /\ MakeFeatureFixed(m, i) \in BoxType
<1>1. /\ LBs[i] \in Value /\ UBs[i] \in Value /\ vect[i] \in Value
      /\ LBs[i] <= LBs[i] /\ UBs[i] <= UBs[i] /\ LBs[i] <= UBs[i]
      /\ LBs[i] <= vect[i] /\ vect[i] <= UBs[i]
  <2>1. LBs[i] \in Value /\ UBs[i] \in Value /\ LBs[i] <= UBs[i]
    BY SpaceAssumption
  <2>2. vect[i] \in Value /\ LBs[i] <= vect[i] /\ vect[i] <= UBs[i]
    BY DEF Space, Point
  <2>3. LBs[i] \in Int /\ UBs[i] \in Int
    BY <2>1, SpaceAssumption
  <2> QED  BY <2>1, <2>2, <2>3
<1>2. m.vLB \in Space /\ m.vUB \in Space
  BY DEF BoxType
<1>3. /\ [m.vLB EXCEPT ![i] = LBs[i]] \in Space
      /\ [m.vUB EXCEPT ![i] = UBs[i]] \in Space
      /\ [m.vLB EXCEPT ![i] = vect[i]] \in Space
      /\ [m.vUB EXCEPT ![i] = vect[i]] \in Space
  BY <1>1, <1>2, SpaceExcept
<1> QED  BY <1>3 DEF BoxType, MakeFeatureUniversal, MakeFeatureFixed

\* The clauses block_axp and block_cxp add mention features only.
LEMMA BlockTyped ==
  ASSUME NEW X \in SUBSET Feature
  PROVE  BlockAxp(X) \in SUBSET Literal /\ BlockCxp(X) \in SUBSET Literal
BY SpaceAssumption DEF BlockAxp, BlockCxp, Literal, Feature

LEMMA CnfFileTyped ==
  ASSUME NEW cnf \in [NC : Nat, Cls : Clauses]
  PROVE  CnfFile(cnf) \in Clauses
<1>1. \A i \in Feature : {-i} \in SUBSET Literal
  BY SpaceAssumption DEF Literal, Feature
<1>2. {{-i} : i \in Feature} \in SUBSET SUBSET Literal
  BY <1>1
<1> QED  BY <1>2 DEF CnfFile, Clauses

\* Whatever the solver answers, the answer fits the features.
LEMMA AnswersTyped ==
  ASSUME NEW file, NEW a \in Answers(file)
  PROVE  a \in [status : {"SATISFIABLE", "UNSATISFIABLE", "INDETERMINATE"},
                model : UNION {[1..n -> BOOLEAN] : n \in 0..NF}]
<1>1. Models(file) \subseteq UNION {[1..n -> BOOLEAN] : n \in 0..NF}
  BY DEF Models
<1>2. NoModel \in UNION {[1..n -> BOOLEAN] : n \in 0..NF}
  <2>1. NoModel \in [1..0 -> BOOLEAN]
    BY DEF NoModel
  <2>2. 0 \in 0..NF
    BY SpaceAssumption
  <2> QED  BY <2>1, <2>2
<1> QED  BY <1>1, <1>2 DEF Answers

\* Counting keeps the statistics natural numbers.
LEMMA AddXpTyped ==
  ASSUME NEW st \in Counts, NEW X \in SUBSET Feature, NEW t \in XpType
  PROVE  AddXp(st, X, t) \in Counts
<1> DEFINE c == Cardinality(X)
<1>1. c \in Nat
  BY FeatureSets, SpaceAssumption
<1> HIDE DEF c
<1>2. /\ st.AXpNum + 1 \in Nat /\ st.AXpLits + c \in Nat
      /\ st.CXpNum + 1 \in Nat /\ st.CXpLits + c \in Nat
  BY <1>1 DEF Counts
<1>3. [st EXCEPT !.AXpNum = @ + 1, !.AXpLits = @ + c] \in Counts
  BY <1>2 DEF Counts
<1>4. [st EXCEPT !.CXpNum = @ + 1, !.CXpLits = @ + c] \in Counts
  BY <1>2 DEF Counts
<1> QED  BY <1>3, <1>4 DEF AddXp, c

LEMMA CountSimTyped ==
  ASSUME stats \in Counts, CountSim
  PROVE  stats' \in Counts
BY DEF CountSim, Counts

LEMMA PrintedTyped ==
  ASSUME NEW X \in SUBSET Feature
  PROVE  Printed(X) \in SUBSET Feature
<1>1. Cardinality(X) \in 0..NF
  BY FeatureSets
<1> QED  BY <1>1, SpaceAssumption DEF Printed, Feature

\* Type correctness of every run (TypeOK of MonoXPsProperties).
THEOREM TypeCorrect == Spec => []TypeOK
<1> USE DEF input, cnfVars, outVars
<1>1. Init => TypeOK
  <2> SUFFICES ASSUME Init PROVE TypeOK
    OBVIOUS
  <2>1. vect \in Space
    BY RunAssumption DEF Init
  <2>2. mxp \in BoxType
    BY <2>1 DEF Init, BoxType
  <2>3. idx \in 1..(NF + 1)
    BY SpaceAssumption DEF Init
  <2>4. CNF \in [NC : Nat, Cls : Clauses] /\ fcnf \in Clauses
    BY DEF Init, Clauses
  <2>5. fout \in [status : {"SATISFIABLE", "UNSATISFIABLE", "INDETERMINATE"},
                  model : UNION {[1..n -> BOOLEAN] : n \in 0..NF}]
    <3>1. NoModel \in [1..0 -> BOOLEAN]
      BY DEF NoModel
    <3>2. 0 \in 0..NF
      BY SpaceAssumption
    <3> QED  BY <3>1, <3>2 DEF Init
  <2>6. stats \in Counts
    BY DEF Init, InitStats, Counts
  <2> QED
    BY <2>2, <2>3, <2>4, <2>5, <2>6 DEF Init, TypeOK, PC, XpType
<1>2. TypeOK /\ [Next]_vars => TypeOK'
  <2> SUFFICES ASSUME TypeOK, [Next]_vars PROVE TypeOK'
    OBVIOUS
  <2>0. vect \in Space /\ mxp \in BoxType /\ NF \in Nat
    BY RunAssumption, SpaceAssumption DEF TypeOK
  <2>1. CASE StartAxp
    <3>1. mxp' \in BoxType
      BY <2>0, <2>1, BoxTyped DEF StartAxp, SetAxpVect, BoxType
    <3> QED  BY <2>0, <2>1, <3>1 DEF StartAxp, TypeOK, PC
  <2>2. CASE StartCxp
    <3>1. Feature \ mxp.Fixes \in SUBSET Feature /\ mxp.Univs \in SUBSET Feature
      BY <2>0 DEF BoxType
    <3>2. mxp' \in BoxType
      BY <2>0, <2>2, <3>1, BoxTyped DEF StartCxp, SetCxpVect, BoxType
    <3> QED  BY <2>0, <2>2, <3>2 DEF StartCxp, TypeOK, PC
  <2>3. CASE StartEnum
    BY <2>3 DEF StartEnum, TypeOK, PC, Clauses
  <2>4. CASE WriteCnf
    <3>1. fcnf' \in Clauses
      BY <2>4, CnfFileTyped DEF WriteCnf, TypeOK
    <3> QED  BY <2>4, <3>1 DEF WriteCnf, TypeOK, PC
  <2>5. CASE LeaveLoop
    BY <2>5 DEF LeaveLoop, TypeOK, PC
  <2>6. CASE RunSolver
    <3>1. fout' \in [status : {"SATISFIABLE", "UNSATISFIABLE", "INDETERMINATE"},
                     model : UNION {[1..n -> BOOLEAN] : n \in 0..NF}]
      BY <2>6, AnswersTyped DEF RunSolver
    <3>2. stats' \in Counts
      BY <2>6 DEF RunSolver, TypeOK, Counts
    <3> QED  BY <2>6, <3>1, <3>2 DEF RunSolver, TypeOK, PC
  <2>7. CASE NoMoreModels
    BY <2>7 DEF NoMoreModels, TypeOK, PC
  <2>8. CASE ReadModel
    <3>1. mxp' \in BoxType
      BY <2>0, <2>8, BoxTyped DEF ReadModel, MkRefVlbVub
    <3> QED  BY <2>8, <3>1 DEF ReadModel, TypeOK, PC
  <2>9. CASE TestRef
    <3>1. stats' \in Counts
      BY <2>9, CountSimTyped DEF TestRef, TypeOK
    <3> QED  BY <2>0, <2>9, <3>1 DEF TestRef, TypeOK, PC
  <2>10. CASE SkipUniversal
    BY <2>0, <2>10 DEF SkipUniversal, TypeOK
  <2>11. CASE TryUniversal
    <3>1. idx \in Feature /\ idx' \in 1..(NF + 1)
      BY <2>0, <2>11 DEF TryUniversal, TypeOK, Feature
    <3>2. mxp' \in BoxType
      <4>1. MakeFeatureUniversal(mxp, idx) \in BoxType
        BY <2>0, <3>1, MakeTyped
      <4>2. MakeFeatureFixed(MakeFeatureUniversal(mxp, idx), idx) \in BoxType
        BY <2>0, <3>1, <4>1, MakeTyped
      <4>3. \/ mxp' = MakeFeatureUniversal(mxp, idx)
            \/ mxp' = MakeFeatureFixed(MakeFeatureUniversal(mxp, idx), idx)
        BY <2>11, Zenon DEF TryUniversal
      <4> QED  BY <4>1, <4>2, <4>3
    <3>3. stats' \in Counts
      BY <2>11, CountSimTyped DEF TryUniversal, TypeOK
    <3> QED  BY <2>11, <3>1, <3>2, <3>3 DEF TryUniversal, TypeOK
  <2>12. CASE SkipFixed
    BY <2>0, <2>12 DEF SkipFixed, TypeOK
  <2>13. CASE TryFixed
    <3>1. idx \in Feature /\ idx' \in 1..(NF + 1)
      BY <2>0, <2>13 DEF TryFixed, TypeOK, Feature
    <3>2. mxp' \in BoxType
      <4>1. MakeFeatureFixed(mxp, idx) \in BoxType
        BY <2>0, <3>1, MakeTyped
      <4>2. MakeFeatureUniversal(MakeFeatureFixed(mxp, idx), idx) \in BoxType
        BY <2>0, <3>1, <4>1, MakeTyped
      <4>3. \/ mxp' = MakeFeatureFixed(mxp, idx)
            \/ mxp' = MakeFeatureUniversal(MakeFeatureFixed(mxp, idx), idx)
        BY <2>13, Zenon DEF TryFixed
      <4> QED  BY <4>1, <4>2, <4>3
    <3>3. stats' \in Counts
      BY <2>13, CountSimTyped DEF TryFixed, TypeOK
    <3> QED  BY <2>13, <3>1, <3>2, <3>3 DEF TryFixed, TypeOK
  <2>14. CASE ReturnXp
    BY <2>0, <2>14 DEF ReturnXp, TypeOK, PC, BoxType, XpType
  <2>15. CASE BlockXp
    <3>1. CNF' \in [NC : Nat, Cls : Clauses]
      BY <2>15, BlockTyped DEF BlockXp, TypeOK, Clauses
    <3> QED  BY <2>15, <3>1 DEF BlockXp, IsEmpty, TypeOK, PC
  <2>16. CASE WriteXp
    <3>1. report' \in SUBSET (XpType \X SUBSET Feature) /\ lines' \in Nat
      BY <2>16, PrintedTyped DEF WriteXp, TypeOK
    <3> QED  BY <2>16, <3>1 DEF WriteXp, TypeOK, PC
  <2>17. CASE UpdateStats
    <3>1. stats' \in Counts
      BY <2>17, AddXpTyped DEF UpdateStats, TypeOK
    <3> QED  BY <2>17, <3>1 DEF UpdateStats, TypeOK, PC
  <2>18. CASE CountXp
    BY <2>18 DEF CountXp, TypeOK, PC
  <2>19. CASE Exit
    BY <2>19 DEF Exit, TypeOK, PC
  <2>20. CASE Interrupt
    BY <2>20 DEF Interrupt, TypeOK, PC
  <2>21. CASE Terminated \/ UNCHANGED vars
    BY <2>21 DEF Terminated, vars, TypeOK
  <2> QED
    BY <2>1, <2>2, <2>3, <2>4, <2>5, <2>6, <2>7, <2>8, <2>9, <2>10, <2>11,
       <2>12, <2>13, <2>14, <2>15, <2>16, <2>17, <2>18, <2>19, <2>20, <2>21
    DEF Next, Step
<1> QED  BY <1>1, <1>2, PTL DEF Spec

-----------------------------------------------------------------------------
(* Soundness: what the loops return is an explanation. *)

\* Making a feature universal or fixed moves from box to box, so that the
\* undo of each loop restores the box it started from.
LEMMA BoxMake ==
  ASSUME vect \in Space, NEW U \in SUBSET Feature, NEW i \in Feature
  PROVE  /\ MakeFeatureUniversal(Box(U), i) = Box(U \cup {i})
         /\ MakeFeatureFixed(Box(U), i) = Box(U \ {i})
<1> DEFINE lo(W) == [j \in Feature |-> IF j \in W THEN LBs[j] ELSE vect[j]]
           hi(W) == [j \in Feature |-> IF j \in W THEN UBs[j] ELSE vect[j]]
<1>1. /\ [lo(U) EXCEPT ![i] = LBs[i]] = lo(U \cup {i})
      /\ [hi(U) EXCEPT ![i] = UBs[i]] = hi(U \cup {i})
  OBVIOUS
<1>2. /\ [lo(U) EXCEPT ![i] = vect[i]] = lo(U \ {i})
      /\ [hi(U) EXCEPT ![i] = vect[i]] = hi(U \ {i})
  OBVIOUS
<1>3. /\ (Feature \ U) \ {i} = Feature \ (U \cup {i})
      /\ (Feature \ U) \cup {i} = Feature \ (U \ {i})
  OBVIOUS
<1>4. \A W : Box(W) = [Univs |-> W, Fixes |-> Feature \ W,
                       vLB |-> lo(W), vUB |-> hi(W)]
  BY DEF Box
<1> HIDE DEF lo, hi
<1> QED  BY <1>1, <1>2, <1>3, <1>4 DEF MakeFeatureUniversal, MakeFeatureFixed

\* On a box the test of the loops decides whether the fixed features force the
\* prediction.
LEMMA BoxTest ==
  ASSUME vect \in Space, kappa \in MonotoneClassifier, NEW U \in SUBSET Feature
  PROVE  /\ SameClass(Box(U)) <=> WeakAXp(kappa, vect, Feature \ U)
         /\ SameClass(Box(U)) <=> ~WeakCXp(kappa, vect, U)
<1>1. SameClass(Box(U)) <=> WeakAXp(kappa, vect, Feature \ U)
  BY TestIsExact DEF SameClass, Box, LowEnd, HighEnd
<1> QED  BY <1>1, WeakDual

\* One pass of the loop of compute_one_axp.
LEMMA TryUniversalStep ==
  ASSUME TypeOK, LoopInv, TryUniversal
  PROVE  LoopInv'
<1> DEFINE U == mxp.Univs
           W == U \cup {idx}
<1>1. /\ pc = "axp" /\ pc' = "axp" /\ idx \in Feature /\ idx \notin U
      /\ kappa' = kappa /\ vect' = vect /\ opts' = opts /\ idx' = idx + 1
  BY SpaceAssumption DEF TryUniversal, TypeOK, Feature, input
<1>2. U \in SUBSET Feature /\ mxp = Box(U) /\ mxp.Fixes = Feature \ U
  BY <1>1 DEF TypeOK, BoxType, LoopInv, Box
<1>3. vect \in Space /\ kappa \in MonotoneClassifier
  BY RunAssumption DEF TypeOK
<1>4. /\ MakeFeatureUniversal(mxp, idx) = Box(W)
      /\ MakeFeatureFixed(Box(W), idx) = Box(U)
  <2>1. W \ {idx} = U /\ W \in SUBSET Feature
    BY <1>1, <1>2
  <2> QED  BY <1>1, <1>2, <1>3, <2>1, BoxMake
<1>5. mxp' = IF SameClass(Box(W)) THEN Box(W) ELSE Box(U)
  BY <1>4 DEF TryUniversal
<1>6. SameClass(Box(W)) <=> WeakAXp(kappa, vect, Feature \ W)
  BY <1>1, <1>2, <1>3, BoxTest
<1>7. /\ WeakAXp(kappa, vect, Feature \ U)
      /\ \A j \in Feature \ U :
           j < idx => ~WeakAXp(kappa, vect, (Feature \ U) \ {j})
  BY <1>1, <1>2 DEF LoopInv
<1>8. \A V : Box(V).Univs = V /\ Box(V).Fixes = Feature \ V
  BY DEF Box
<1>9. \A j \in Feature : j < idx + 1 <=> (j < idx \/ j = idx)
  BY <1>1, SpaceAssumption DEF Feature
<1> SUFFICES
      /\ mxp' = Box(mxp'.Univs)
      /\ WeakAXp(kappa, vect, mxp'.Fixes)
      /\ \A j \in mxp'.Fixes :
           j < idx + 1 => ~WeakAXp(kappa, vect, mxp'.Fixes \ {j})
  BY <1>1 DEF LoopInv, Box
<1> HIDE DEF U, W
<1>10. CASE SameClass(Box(W))
  <2>1. mxp' = Box(W) /\ mxp'.Univs = W /\ mxp'.Fixes = Feature \ W
    BY <1>5, <1>8, <1>10
  <2>2. ASSUME NEW j \in Feature \ W, j < idx + 1
        PROVE  ~WeakAXp(kappa, vect, (Feature \ W) \ {j})
    <3>1. j \in Feature \ U /\ j # idx /\ j < idx
      BY <1>9, <2>2 DEF W
    <3>2. ~WeakAXp(kappa, vect, (Feature \ U) \ {j})
      BY <1>7, <3>1
    <3>3. (Feature \ W) \ {j} \subseteq (Feature \ U) \ {j}
      BY DEF W
    <3> QED  BY <3>2, <3>3, WeakAXpGrows
  <2> QED  BY <1>6, <1>10, <2>1, <2>2
<1>11. CASE ~SameClass(Box(W))
  <2>1. mxp' = Box(U) /\ mxp'.Univs = U /\ mxp'.Fixes = Feature \ U
    BY <1>5, <1>8, <1>11
  <2>2. ~WeakAXp(kappa, vect, (Feature \ U) \ {idx})
    <3>1. (Feature \ U) \ {idx} = Feature \ W
      BY DEF W
    <3> QED  BY <1>6, <1>11, <3>1
  <2> QED  BY <1>7, <1>9, <2>1, <2>2
<1> QED  BY <1>10, <1>11

\* One pass of the loop of compute_one_cxp.
LEMMA TryFixedStep ==
  ASSUME TypeOK, LoopInv, TryFixed
  PROVE  LoopInv'
<1> DEFINE U == mxp.Univs
           W == U \ {idx}
           const == opts.mode = "C" /\ ConstantClassifier(kappa)
<1>1. /\ pc = "cxp" /\ pc' = "cxp" /\ idx \in Feature /\ idx \notin mxp.Fixes
      /\ kappa' = kappa /\ vect' = vect /\ opts' = opts /\ idx' = idx + 1
  BY SpaceAssumption DEF TryFixed, TypeOK, Feature, input
<1>2. /\ U \in SUBSET Feature /\ mxp = Box(U) /\ mxp.Fixes = Feature \ U
      /\ idx \in U
  BY <1>1 DEF TypeOK, BoxType, LoopInv, Box
<1>3. vect \in Space /\ kappa \in MonotoneClassifier
  BY RunAssumption DEF TypeOK
<1>4. /\ MakeFeatureFixed(mxp, idx) = Box(W)
      /\ MakeFeatureUniversal(Box(W), idx) = Box(U)
  <2>1. W \cup {idx} = U /\ W \in SUBSET Feature
    BY <1>1, <1>2
  <2> QED  BY <1>1, <1>2, <1>3, <2>1, BoxMake
<1>5. mxp' = IF SameClass(Box(W)) THEN Box(U) ELSE Box(W)
  BY <1>4 DEF TryFixed
<1>6. SameClass(Box(W)) <=> ~WeakCXp(kappa, vect, W)
  BY <1>2, <1>3, BoxTest
<1>7. /\ WeakCXp(kappa, vect, U) \/ const
      /\ \A j \in U : j < idx => ~WeakCXp(kappa, vect, U \ {j})
  BY <1>1 DEF LoopInv
<1>8. \A V : Box(V).Univs = V /\ Box(V).Fixes = Feature \ V
  BY DEF Box
<1>9. \A j \in Feature : j < idx + 1 <=> (j < idx \/ j = idx)
  BY <1>1, SpaceAssumption DEF Feature
<1> SUFFICES
      /\ mxp' = Box(mxp'.Univs)
      /\ WeakCXp(kappa, vect, mxp'.Univs) \/ const
      /\ \A j \in mxp'.Univs :
           j < idx + 1 => ~WeakCXp(kappa, vect, mxp'.Univs \ {j})
  BY <1>1 DEF LoopInv, Box
<1>10. W \in SUBSET Feature /\ W \subseteq U /\ U \in SUBSET Feature
  BY <1>2
<1>11. \A j \in W : j \in U /\ j # idx
  OBVIOUS
<1> HIDE DEF U, W, const
<1>12. CASE ~SameClass(Box(W))
  <2>1. mxp' = Box(W) /\ mxp'.Univs = W
    BY <1>5, <1>8, <1>12
  <2>2. ASSUME NEW j \in W, j < idx + 1
        PROVE  ~WeakCXp(kappa, vect, W \ {j})
    <3>1. j \in U /\ j < idx
      BY <1>9, <1>10, <1>11, <2>2
    <3>2. ~WeakCXp(kappa, vect, U \ {j})
      BY <1>7, <3>1
    <3>3. /\ W \ {j} \subseteq U \ {j}
          /\ W \ {j} \in SUBSET Feature /\ U \ {j} \in SUBSET Feature
      BY <1>10
    <3> QED  BY <3>2, <3>3, WeakCXpGrows
  <2> QED  BY <1>6, <1>12, <2>1, <2>2
<1>13. CASE SameClass(Box(W))
  <2>1. mxp' = Box(U) /\ mxp'.Univs = U
    BY <1>5, <1>8, <1>13
  <2>2. ~WeakCXp(kappa, vect, U \ {idx})
    BY <1>6, <1>13 DEF W
  <2> QED  BY <1>2, <1>7, <1>9, <1>10, <2>1, <2>2
<1> QED  BY <1>12, <1>13

\* No feature has been passed when a loop starts, every feature when it ends.
LEMMA LoopEnds ==
  ASSUME idx \in 1..(NF + 1)
  PROVE  /\ \A j \in Feature : ~(j < 1)
         /\ idx > NF => \A j \in Feature : j < idx
         /\ \A j \in Feature : j < idx + 1 <=> (j < idx \/ j = idx)
BY SpaceAssumption DEF Feature

\* Every step of a run preserves LoopInv and SoundReport.
LEMMA SoundStep ==
  ASSUME TypeOK, LoopInv, SoundReport, [Next]_vars
  PROVE  LoopInv' /\ SoundReport'
<1> USE DEF input, cnfVars, outVars
<1>1. /\ vect \in Space /\ kappa \in MonotoneClassifier
      /\ mxp.Univs \in SUBSET Feature /\ mxp.Fixes \in SUBSET Feature
      /\ idx \in 1..(NF + 1) /\ xp \in SUBSET Feature
  BY RunAssumption DEF TypeOK, BoxType
<1>2. \A U : Box(U).Univs = U /\ Box(U).Fixes = Feature \ U
  BY DEF Box
<1>3. kappa' = kappa /\ vect' = vect /\ opts' = opts
  BY DEF Next, Step, StartAxp, StartCxp, StartEnum, WriteCnf, LeaveLoop,
     RunSolver, NoMoreModels, ReadModel, TestRef, SkipUniversal, TryUniversal,
     SkipFixed, TryFixed, ReturnXp, BlockXp, WriteXp, UpdateStats, CountXp,
     Exit, Interrupt, Terminated, vars
<1>4. \A t, X : ValidXp(t, X)' <=> ValidXp(t, X)
  BY <1>3 DEF ValidXp
<1>5. report' = report => SoundReport'
  BY <1>3, <1>4 DEF SoundReport
<1>6. CASE StartAxp
  <2>1. mxp' = Box({})
    BY <1>6, <1>1 DEF StartAxp, SetAxpVect, LoopInv, Box
  <2>2. mxp'.Univs = {} /\ mxp'.Fixes = Feature
    BY <1>2, <2>1
  <2>3. WeakAXp(kappa, vect, Feature)
    BY <1>1, AllFixed
  <2> QED
    BY <1>1, <1>3, <1>5, <1>6, <2>1, <2>2, <2>3, LoopEnds
    DEF StartAxp, LoopInv, Box
<1>7. CASE StartCxp
  <2>1. mxp' = Box(Feature)
    BY <1>7, <1>1 DEF StartCxp, SetCxpVect, LoopInv, Box
  <2>2. mxp'.Univs = Feature
    BY <1>2, <2>1
  <2>3. WeakCXp(kappa, vect, Feature) \/ ConstantClassifier(kappa)
    BY <1>1, AllFree
  <2> QED
    BY <1>1, <1>3, <1>5, <1>7, <2>1, <2>2, <2>3, LoopEnds
    DEF StartCxp, LoopInv, Box
<1>8. CASE ReadModel
  <2>1. PICK U : mxp' = Box(U)
    BY <1>8 DEF ReadModel, MkRefVlbVub
  <2>2. mxp'.Univs = U
    BY <1>2, <2>1
  <2> QED  BY <1>3, <1>5, <1>8, <2>1, <2>2 DEF ReadModel, LoopInv, Box
<1>9. CASE TestRef
  <2>1. mxp = Box(mxp.Univs) /\ mxp' = mxp /\ mxp.Fixes = Feature \ mxp.Univs
    BY <1>2, <1>9 DEF TestRef, LoopInv
  <2>2. /\ SameClass(mxp) => WeakAXp(kappa, vect, mxp.Fixes)
        /\ ~SameClass(mxp) => WeakCXp(kappa, vect, mxp.Univs)
    BY <1>1, <2>1, BoxTest
  <2> QED
    BY <1>1, <1>3, <1>5, <1>9, <2>1, <2>2, LoopEnds DEF TestRef, LoopInv, Box
<1>10. CASE SkipUniversal
  <2>1. mxp = Box(mxp.Univs) /\ mxp.Fixes = Feature \ mxp.Univs
    BY <1>2, <1>10 DEF SkipUniversal, LoopInv
  <2> QED
    BY <1>1, <1>3, <1>5, <1>10, <2>1, LoopEnds DEF SkipUniversal, LoopInv, Box
<1>11. CASE SkipFixed
  <2>1. mxp = Box(mxp.Univs) /\ mxp.Fixes = Feature \ mxp.Univs
    BY <1>2, <1>11 DEF SkipFixed, LoopInv
  <2> QED
    BY <1>1, <1>3, <1>5, <1>11, <2>1, LoopEnds DEF SkipFixed, LoopInv, Box
<1>12. CASE TryUniversal
  BY <1>5, <1>12, TryUniversalStep DEF TryUniversal
<1>13. CASE TryFixed
  BY <1>5, <1>13, TryFixedStep DEF TryFixed
<1>14. CASE ReturnXp
  <2>1. \A j \in Feature : j < idx
    BY <1>1, <1>14, LoopEnds DEF ReturnXp
  <2>2. CASE pc = "axp"
    <3>1. IsAXp(kappa, vect, mxp.Fixes)
      BY <1>1, <2>1, <2>2, OneAtATime DEF LoopInv
    <3>2. ValidXp(xtype', xp')
      BY <1>14, <2>2, <3>1 DEF ReturnXp, ValidXp, IsXp
    <3> QED  BY <1>4, <1>5, <1>14, <2>2, <3>2 DEF ReturnXp, LoopInv
  <2>3. CASE pc = "cxp"
    <3>1. \/ IsCXp(kappa, vect, mxp.Univs)
          \/ opts.mode = "C" /\ ConstantClassifier(kappa)
      BY <1>1, <2>1, <2>3, OneAtATime DEF LoopInv
    <3>2. ValidXp(xtype', xp')
      BY <1>14, <2>3, <3>1 DEF ReturnXp, ValidXp, IsXp
    <3> QED  BY <1>4, <1>5, <1>14, <2>3, <3>2 DEF ReturnXp, LoopInv
  <2> QED  BY <1>14, <2>2, <2>3 DEF ReturnXp
<1>15. CASE BlockXp
  BY <1>4, <1>5, <1>15 DEF BlockXp, LoopInv
<1>16. CASE WriteXp
  <2>1. ValidXp(xtype, xp)
    BY <1>16 DEF WriteXp, LoopInv
  <2>2. SoundReport'
    BY <1>3, <1>4, <1>16, <2>1 DEF WriteXp, SoundReport, Printed
  <2> QED  BY <1>16, <2>2 DEF WriteXp, LoopInv
<1>17. CASE \/ StartEnum \/ WriteCnf \/ LeaveLoop \/ RunSolver \/ NoMoreModels
            \/ UpdateStats \/ CountXp \/ Exit \/ Interrupt
  BY <1>5, <1>17 DEF StartEnum, WriteCnf, LeaveLoop, RunSolver, NoMoreModels,
     UpdateStats, CountXp, Exit, Interrupt, LoopInv
<1>18. CASE Terminated \/ UNCHANGED vars
  BY <1>5, <1>18 DEF Terminated, vars, LoopInv, Box, ValidXp
<1> QED
  BY <1>6, <1>7, <1>8, <1>9, <1>10, <1>11, <1>12, <1>13, <1>14, <1>15, <1>16,
     <1>17, <1>18 DEF Next, Step

\* In every run the loops of compute_one_axp and compute_one_cxp keep their
\* invariant, from any starting box (LoopInv of MonoXPsProperties).
THEOREM LoopsCorrect == Spec => []LoopInv
<1>1. Init => LoopInv /\ SoundReport
  BY DEF Init, LoopInv, SoundReport
<1>2. TypeOK /\ LoopInv /\ SoundReport /\ [Next]_vars => LoopInv' /\ SoundReport'
  BY SoundStep
<1> QED  BY <1>1, <1>2, TypeCorrect, PTL DEF Spec

\* Every explanation printed under -w is one (SoundReport of
\* MonoXPsProperties), whichever models the solver returns and wherever a
\* signal or a failing solver ends the run.
THEOREM ReportIsSound == Spec => []SoundReport
<1>1. Init => LoopInv /\ SoundReport
  BY DEF Init, LoopInv, SoundReport
<1>2. TypeOK /\ LoopInv /\ SoundReport /\ [Next]_vars => LoopInv' /\ SoundReport'
  BY SoundStep
<1> QED  BY <1>1, <1>2, TypeCorrect, PTL DEF Spec

-----------------------------------------------------------------------------
(* The formula and the box. *)

\* The box mk_ref_vlb_vub builds from a model of the file, completed by
\* run_sat_solver, contains no explanation that a clause of the file blocks.
LEMMA FreshModel ==
  ASSUME NEW file, NEW model \in Models(file), NEW X \in SUBSET Feature
  PROVE  LET m == MkRefVlbVub(PadModel(model))
         IN  /\ BlockAxp(X) \in file => ~(X \subseteq m.Fixes)
             /\ BlockCxp(X) \in file => ~(X \subseteq m.Univs)
<1> DEFINE m == MkRefVlbVub(PadModel(model))
<1>1. PICK n \in 0..NF : /\ IsNumVars(file, n)
                         /\ model \in [1..n -> BOOLEAN]
                         /\ \A c \in file : Satisfies(model, c)
  BY DEF Models
<1>2. n \in Nat /\ Len(model) = n
  BY <1>1
<1>3. /\ m.Univs = {i \in Feature : PadModel(model)[i]}
      /\ m.Fixes = Feature \ m.Univs
  BY DEF MkRefVlbVub, Box
<1>4. \A i \in Feature : i \in Int /\ i > 0 /\ -i < 0 /\ -(-i) = i
  BY SpaceAssumption DEF Feature
<1>5. \A i \in Feature : i <= n => (i \in m.Univs <=> model[i])
  BY <1>2, <1>3 DEF PadModel
<1> HIDE DEF m
<1>6. ASSUME BlockAxp(X) \in file PROVE ~(X \subseteq m.Fixes)
  <2>1. PICK i \in X : model[i]
    BY <1>1, <1>4, <1>6 DEF BlockAxp, Satisfies
  <2>2. i <= n
    BY <1>1, <1>6, <2>1 DEF BlockAxp, IsNumVars
  <2> QED  BY <1>3, <1>5, <2>1, <2>2
<1>7. ASSUME BlockCxp(X) \in file PROVE ~(X \subseteq m.Univs)
  <2>1. PICK l \in BlockCxp(X) : (l > 0 /\ model[l]) \/ (l < 0 /\ ~model[-l])
    BY <1>1, <1>7 DEF Satisfies
  <2>2. PICK i \in X : l = -i
    BY DEF BlockCxp
  <2>3. ~model[i]
    BY <1>4, <2>1, <2>2
  <2>4. i <= n
    BY <1>1, <1>4, <1>7, <2>2 DEF IsNumVars
  <2> QED  BY <1>5, <2>3, <2>4
<1> QED  BY <1>6, <1>7 DEF m

\* The loops take features out of the sets they minimise and put none in.
LEMMA BoxShrinks ==
  ASSUME TypeOK, LoopInv
  PROVE  /\ TryUniversal => mxp'.Fixes \subseteq mxp.Fixes
         /\ TryFixed => mxp'.Univs \subseteq mxp.Univs
<1>1. ASSUME TryUniversal PROVE mxp'.Fixes \subseteq mxp.Fixes
  <2>1. idx \in mxp.Fixes
    BY <1>1, SpaceAssumption DEF TryUniversal, LoopInv, Box, TypeOK, Feature
  <2> QED
    BY <1>1, <2>1 DEF TryUniversal, MakeFeatureUniversal, MakeFeatureFixed
<1>2. ASSUME TryFixed PROVE mxp'.Univs \subseteq mxp.Univs
  <2>1. idx \in mxp.Univs
    BY <1>2, SpaceAssumption DEF TryFixed, LoopInv, Box, TypeOK, Feature
  <2> QED
    BY <1>2, <2>1 DEF TryFixed, MakeFeatureUniversal, MakeFeatureFixed
<1> QED  BY <1>1, <1>2

\* Every clause of the formula is read back as what it was written for.
LEMMA ReadModelFresh ==
  ASSUME TypeOK, FormulaInv, Enumerating, ReadModel
  PROVE  /\ \A X \in Reported("AXp") : ~(X \subseteq mxp'.Fixes)
         /\ \A Y \in Reported("CXp") : ~(Y \subseteq mxp'.Univs)
<1>1. /\ fout.model \in Models(fcnf) /\ fcnf = CnfFile(CNF)
      /\ mxp' = MkRefVlbVub(PadModel(fout.model))
      /\ CNF.Cls = {Clause(e) : e \in report}
  BY DEF ReadModel, FormulaInv, Answers, Excluded
<1>2. report # {} => fcnf = CNF.Cls
  BY <1>1 DEF FormulaInv, CnfFile
<1>3. ASSUME NEW X \in Reported("AXp") PROVE ~(X \subseteq mxp'.Fixes)
  <2>1. PICK e \in report : e[1] = "AXp" /\ X = e[2]
    BY <1>3 DEF Reported
  <2>2. BlockAxp(X) \in fcnf /\ X \in SUBSET Feature
    BY <1>1, <1>2, <2>1 DEF Clause, TypeOK
  <2> QED  BY <1>1, <2>2, FreshModel
<1>4. ASSUME NEW Y \in Reported("CXp") PROVE ~(Y \subseteq mxp'.Univs)
  <2>1. PICK e \in report : e[1] = "CXp" /\ Y = e[2]
    BY <1>4 DEF Reported
  <2>2. BlockCxp(Y) \in fcnf /\ Y \in SUBSET Feature
    BY <1>1, <1>2, <2>1 DEF Clause, TypeOK
  <2> QED  BY <1>1, <2>2, FreshModel
<1> QED  BY <1>3, <1>4

\* The command line does not change; what is printed changes in WriteXp alone.
LEMMA Frame ==
  ASSUME [Next]_vars
  PROVE  /\ kappa' = kappa /\ vect' = vect /\ opts' = opts
         /\ WriteXp \/ (report' = report /\ lines' = lines)
BY DEF Next, Step, StartAxp, StartCxp, StartEnum, WriteCnf, LeaveLoop,
   RunSolver, NoMoreModels, ReadModel, TestRef, SkipUniversal, TryUniversal,
   SkipFixed, TryFixed, ReturnXp, BlockXp, WriteXp, UpdateStats, CountXp,
   Exit, Interrupt, Terminated, vars, input, outVars

LEMMA OneXpStep ==
  ASSUME OneXp, [Next]_vars
  PROVE  OneXp'
<1> SUFFICES ASSUME opts.mode # "enum" PROVE OneXp'
  BY Frame DEF OneXp
<1>1. CASE \/ StartAxp \/ StartCxp \/ StartEnum \/ WriteCnf \/ LeaveLoop
           \/ RunSolver \/ NoMoreModels \/ ReadModel \/ TestRef
  BY <1>1, Frame DEF StartAxp, StartCxp, StartEnum, WriteCnf, LeaveLoop,
     RunSolver, NoMoreModels, ReadModel, TestRef, OneXp, outVars
<1>2. CASE SkipUniversal \/ TryUniversal \/ SkipFixed \/ TryFixed \/ ReturnXp
  BY <1>2, Frame DEF SkipUniversal, TryUniversal, SkipFixed, TryFixed,
     ReturnXp, OneXp, outVars
<1>3. CASE \/ BlockXp \/ WriteXp \/ UpdateStats \/ CountXp \/ Exit
           \/ Interrupt
  BY <1>3, Frame DEF BlockXp, WriteXp, UpdateStats, CountXp, Exit,
     Interrupt, OneXp, outVars
<1>4. CASE Terminated \/ UNCHANGED vars
  BY <1>4 DEF Terminated, vars, OneXp, input, outVars
<1> QED  BY <1>1, <1>2, <1>3, <1>4 DEF Next, Step

\* Control passes through a step that leaves formula and output alone.
LEMMA FormulaFrame ==
  ASSUME FormulaInv, opts' = opts, CNF' = CNF, report' = report,
         pc \notin {"write", "killed"}, pc' # "write",
         pc' \in {"solve", "parse"} => fcnf' = CnfFile(CNF),
         pc' = "parse" => fout' \in Answers(fcnf')
  PROVE  FormulaInv'
<1>1. Excluded = report /\ Excluded' = report
  BY DEF Excluded
<1> QED  BY <1>1 DEF FormulaInv, Enumerating

LEMMA FormulaStep ==
  ASSUME TypeOK, FormulaInv, FreshInv, [Next]_vars
  PROVE  FormulaInv'
<1> SUFFICES ASSUME Enumerating PROVE FormulaInv'
  BY Frame DEF FormulaInv, Enumerating
<1> USE DEF cnfVars, outVars
<1>1. CASE StartAxp \/ StartCxp
  BY <1>1 DEF StartAxp, StartCxp, Enumerating
<1>2. CASE StartEnum
  <2>1. Excluded' = {} /\ CNF' = [NC |-> 0, Cls |-> {}] /\ pc' = "while"
    BY <1>2 DEF StartEnum, Excluded, FreshInv
  <2> QED  BY <2>1 DEF FormulaInv
<1>3. CASE WriteCnf \/ LeaveLoop \/ NoMoreModels \/ ReadModel
  BY <1>3, Frame, FormulaFrame DEF WriteCnf, LeaveLoop, NoMoreModels, ReadModel
<1>4. CASE RunSolver
  <2>1. fcnf' = CnfFile(CNF)
    BY <1>4 DEF RunSolver, FormulaInv
  <2> QED  BY <1>4, <2>1, Frame, FormulaFrame DEF RunSolver
<1>5. CASE TestRef \/ SkipUniversal \/ TryUniversal \/ SkipFixed \/ TryFixed
  BY <1>5, Frame, FormulaFrame DEF TestRef, SkipUniversal, TryUniversal,
     SkipFixed, TryFixed
<1>6. CASE ReturnXp
  <2>1. pc' = "block" /\ pc \in {"axp", "cxp"}
    BY <1>6 DEF ReturnXp, Enumerating
  <2> QED  BY <1>6, <2>1, Frame, FormulaFrame DEF ReturnXp
<1>7. CASE BlockXp
  <2>1. /\ CNF'.NC = CNF.NC + 1 /\ CNF.NC \in Nat
        /\ CNF'.Cls = CNF.Cls \cup {Clause(<<xtype, xp>>)}
    BY <1>7 DEF BlockXp, Clause, TypeOK
  <2>2. Excluded = report /\ Excluded' = report \cup {<<xtype, xp>>}
    BY <1>7 DEF BlockXp, Excluded
  <2>3. CNF.Cls = {Clause(e) : e \in report}
    BY <1>7, <2>2 DEF BlockXp, FormulaInv
  <2>4. CNF'.Cls = {Clause(e) : e \in Excluded'}
    BY <2>1, <2>2, <2>3
  <2>5. CNF'.NC > 0 /\ CNF'.Cls # {}
    BY <2>1
  <2> QED  BY <1>7, <2>4, <2>5 DEF BlockXp, FormulaInv, Clause
<1>8. CASE WriteXp
  <2>1. report' = report \cup {<<xtype, xp>>}
    BY <1>8 DEF WriteXp, Enumerating, Printed
  <2>2. Excluded' = Excluded
    BY <1>8, <2>1 DEF WriteXp, Excluded
  <2> QED  BY <1>8, <2>2 DEF WriteXp, FormulaInv
<1>9. CASE UpdateStats \/ CountXp \/ Exit
  BY <1>9, Frame, FormulaFrame DEF UpdateStats, CountXp, Exit
<1>10. CASE Interrupt
  BY <1>10 DEF Interrupt, FormulaInv
<1>11. CASE Terminated \/ UNCHANGED vars
  BY <1>11 DEF Terminated, vars, input, FormulaInv, Excluded, Enumerating
<1> QED
  BY <1>1, <1>2, <1>3, <1>4, <1>5, <1>6, <1>7, <1>8, <1>9, <1>10, <1>11
  DEF Next, Step

LEMMA FreshStep ==
  ASSUME TypeOK, LoopInv, FormulaInv, FreshInv, [Next]_vars
  PROVE  FreshInv'
<1> SUFFICES ASSUME Enumerating PROVE FreshInv'
  BY Frame DEF FreshInv, Enumerating
<1> USE DEF cnfVars, outVars
<1>1. ASSUME report' = report
      PROVE  Reported("AXp")' = Reported("AXp")
             /\ Reported("CXp")' = Reported("CXp")
  BY <1>1 DEF Reported
<1>2. CASE ReadModel
  <2>1. /\ \A X \in Reported("AXp") : ~(X \subseteq mxp'.Fixes)
        /\ \A Y \in Reported("CXp") : ~(Y \subseteq mxp'.Univs)
    BY <1>2, ReadModelFresh
  <2> QED  BY <1>1, <1>2, <2>1 DEF ReadModel, FreshInv
<1>3. CASE TestRef \/ SkipUniversal \/ SkipFixed
  BY <1>1, <1>3 DEF TestRef, SkipUniversal, SkipFixed, FreshInv
<1>4. CASE TryUniversal
  <2>1. mxp'.Fixes \subseteq mxp.Fixes
    BY <1>4, BoxShrinks
  <2> QED  BY <1>1, <1>4, <2>1 DEF TryUniversal, FreshInv
<1>5. CASE TryFixed
  <2>1. mxp'.Univs \subseteq mxp.Univs
    BY <1>5, BoxShrinks
  <2> QED  BY <1>1, <1>5, <2>1 DEF TryFixed, FreshInv
<1>6. CASE ReturnXp
  <2>1. \A t, X : <<t, X>> \in report => X \in Reported(t)
    BY DEF Reported
  <2>2. <<xtype', xp'>> \notin report
    BY <1>6, <2>1 DEF ReturnXp, FreshInv
  <2> QED  BY <1>6, <2>2 DEF ReturnXp, FreshInv
<1>7. CASE BlockXp
  BY <1>7 DEF BlockXp, FreshInv
<1>8. CASE \/ StartAxp \/ StartCxp \/ StartEnum \/ WriteCnf \/ LeaveLoop
           \/ RunSolver \/ NoMoreModels
  BY <1>8 DEF StartAxp, StartCxp, StartEnum, WriteCnf, LeaveLoop,
     RunSolver, NoMoreModels, FreshInv, Enumerating
<1>9. CASE WriteXp \/ UpdateStats \/ CountXp \/ Exit \/ Interrupt
  BY <1>9 DEF WriteXp, UpdateStats, CountXp, Exit, Interrupt, FreshInv
<1>10. CASE Terminated \/ UNCHANGED vars
  BY <1>10 DEF Terminated, vars, input, FreshInv, Reported, Enumerating
<1> QED
  BY <1>2, <1>3, <1>4, <1>5, <1>6, <1>7, <1>8, <1>9, <1>10 DEF Next, Step

-----------------------------------------------------------------------------
(* No explanation twice. *)

\* There are finitely many explanations to print.
LEMMA FiniteReport ==
  ASSUME NEW R \in SUBSET (XpType \X SUBSET Feature)
  PROVE  IsFiniteSet(R) /\ Cardinality(R) \in Nat
<1>1. IsFiniteSet(Feature)
  BY FeatureSets
<1>2. IsFiniteSet(SUBSET Feature)
  BY <1>1, FS_SUBSET
<1>3. IsFiniteSet(XpType)
  <2>1. IsFiniteSet({"AXp"}) /\ XpType = {"AXp"} \cup {"CXp"}
    BY FS_Singleton DEF XpType
  <2> QED  BY <2>1, FS_AddElement
<1>4. IsFiniteSet(XpType \X SUBSET Feature)
  BY <1>2, <1>3, FS_Product
<1> QED  BY <1>4, FS_Subset, FS_CardinalityType

LEMMA NoRepeatStep ==
  ASSUME TypeOK, OneXp, FreshInv, NoRepeat, [Next]_vars
  PROVE  NoRepeat'
<1> SUFFICES ASSUME opts.out = "w", WriteXp PROVE NoRepeat'
  BY Frame DEF NoRepeat
<1>1. report' = report \cup {<<xtype, xp>>} /\ lines' = lines + 1
  BY DEF WriteXp, Printed
<1>2. <<xtype, xp>> \notin report
  BY DEF WriteXp, OneXp, FreshInv, Enumerating
<1>3. IsFiniteSet(report) /\ Cardinality(report) \in Nat
  BY FiniteReport DEF TypeOK
<1>4. Cardinality(report') = Cardinality(report) + 1
  BY <1>1, <1>2, <1>3, FS_AddElement
<1> QED  BY <1>1, <1>4 DEF NoRepeat

-----------------------------------------------------------------------------
(* All explanations. *)

\* There is a largest variable in every file.
LEMMA NumVars ==
  ASSUME NEW file \in SUBSET SUBSET {i \in -NF..NF : i # 0}
  PROVE  \E n \in 0..NF : IsNumVars(file, n)
<1> DEFINE bounds(n) == \A c \in file : \A l \in c : l <= n /\ -l <= n
           T == {n \in 0..NF : bounds(n)}
<1>1. NF \in Nat
  BY SpaceAssumption
<1>2. T \subseteq Nat /\ NF \in T
  BY <1>1
<1>3. PICK n \in T : \A m \in T : <<m, n>> \notin OpToRel(<, Nat)
  BY <1>2, NatLessThanWellFounded, WFMin
<1>4. n \in 0..NF /\ bounds(n)
  BY <1>3
<1>5. \A m \in T : ~(m < n)
  BY <1>2, <1>3 DEF OpToRel
<1>6. ASSUME n > 0, \A c \in file : n \notin c /\ -n \notin c PROVE FALSE
  <2>1. n - 1 \in 0..NF /\ n - 1 < n
    BY <1>1, <1>4, <1>6
  <2>2. ASSUME NEW c \in file, NEW l \in c PROVE l <= n - 1 /\ -l <= n - 1
    <3>1. l \in Int /\ l <= n /\ -l <= n /\ l # n /\ -l # n
      <4>1. l \in Int /\ l <= n /\ -l <= n
        BY <1>1, <1>4
      <4>2. l # n /\ l # -n
        BY <1>6
      <4> QED  BY <1>1, <1>4, <4>1, <4>2
    <3> QED  BY <1>1, <1>4, <3>1
  <2>3. n - 1 \in T
    BY <2>1, <2>2
  <2> QED  BY <1>5, <2>1, <2>3
<1> QED  BY <1>4, <1>6 DEF IsNumVars

\* While an explanation is missing the formula has a model: the one that makes
\* its box.
LEMMA ModelOfMissing ==
  ASSUME NEW R \in SUBSET AllXps(kappa, vect),
         NEW e \in AllXps(kappa, vect) \ R
  PROVE  Models({Clause(r) : r \in R}) # {}
<1> DEFINE file == {Clause(r) : r \in R}
           U == Opens(e)
<1>1. \A r \in R : /\ r[1] \in XpType /\ r[2] \in SUBSET Feature
                   /\ r \in AllXps(kappa, vect) /\ e # r
  BY DEF AllXps
<1>2. \A r \in R : Clause(r) \in SUBSET Literal
  BY <1>1, BlockTyped DEF Clause
<1>3. PICK n \in 0..NF : IsNumVars(file, n)
  <2>1. file \in SUBSET SUBSET {i \in -NF..NF : i # 0}
    BY <1>2 DEF Literal
  <2> QED  BY <2>1, NumVars
<1> DEFINE m == [i \in 1..n |-> i \in U]
<1>4. \A i \in Feature : i \in Int /\ i > 0 /\ -i < 0 /\ -(-i) = i
  BY SpaceAssumption DEF Feature
<1>5. n \in Nat
  BY <1>3
<1> HIDE DEF U
<1>6. ASSUME NEW r \in R PROVE Satisfies(m, Clause(r))
  <2>1. \A l \in Clause(r) : l <= n /\ -l <= n
    BY <1>3 DEF IsNumVars
  <2>2. CASE r[1] = "AXp"
    <3>1. PICK i \in r[2] : i \in U
      BY <1>1, <2>2, OpensNoOther DEF U
    <3>2. Clause(r) = r[2] /\ i \in Feature
      BY <1>1, <2>2, <3>1 DEF Clause, BlockAxp
    <3>3. i \in Clause(r) /\ i > 0 /\ i \in 1..n
      BY <1>4, <1>5, <2>1, <3>1, <3>2
    <3> QED  BY <3>1, <3>3 DEF Satisfies
  <2>3. CASE r[1] # "AXp"
    <3>1. PICK i \in r[2] : i \notin U
      BY <1>1, <2>3, OpensNoOther DEF U
    <3>2. -i \in Clause(r) /\ i \in Feature
      BY <1>1, <2>3, <3>1 DEF Clause, BlockCxp
    <3>3. -i < 0 /\ -(-i) = i /\ i \in 1..n
      BY <1>4, <1>5, <2>1, <3>2
    <3>4. ~m[i]
      BY <3>1, <3>3
    <3> QED  BY <3>2, <3>3, <3>4 DEF Satisfies
  <2> QED  BY <2>2, <2>3
<1>7. m \in [1..n -> BOOLEAN] /\ \A c \in file : Satisfies(m, c)
  BY <1>6
<1> HIDE DEF m, file
<1>8. m \in Models(file)
  BY <1>3, <1>7 DEF Models
<1> QED  BY <1>8 DEF file

\* The file of the first call asks for the all-negative model, and has it.
LEMMA FirstModel ==
  LET file == {{-i} : i \in Feature}
  IN  /\ Models(file) # {}
      /\ \A model \in Models(file) :
           MkRefVlbVub(PadModel(model)) = Box({})
<1> DEFINE file == {{-i} : i \in Feature}
<1>1. NF \in Nat \ {0} /\ \A i \in Feature : i \in Int /\ 1 <= i /\ i <= NF
  BY SpaceAssumption DEF Feature
<1>2. IsNumVars(file, NF)
  <2>1. \A c \in file : \A l \in c : l <= NF /\ -l <= NF
    BY <1>1
  <2>2. {-NF} \in file
    BY <1>1 DEF Feature
  <2> QED  BY <2>1, <2>2 DEF IsNumVars
<1>3. Models(file) # {}
  <2> DEFINE m == [i \in 1..NF |-> FALSE]
  <2>1. ASSUME NEW i \in Feature PROVE Satisfies(m, {-i})
    <3>1. -i < 0 /\ -(-i) = i /\ i \in 1..NF
      BY <1>1
    <3> QED  BY <3>1 DEF Satisfies
  <2>2. m \in [1..NF -> BOOLEAN] /\ NF \in 0..NF
    BY <1>1
  <2>3. \A c \in file : Satisfies(m, c)
    BY <2>1
  <2> HIDE DEF m, file
  <2> QED  BY <1>2, <2>2, <2>3 DEF Models
<1>4. ASSUME NEW model \in Models(file)
      PROVE  MkRefVlbVub(PadModel(model)) = Box({})
  <2>1. PICK n \in 0..NF : /\ IsNumVars(file, n)
                           /\ model \in [1..n -> BOOLEAN]
                           /\ \A c \in file : Satisfies(model, c)
    BY DEF Models
  <2>2. ASSUME NEW i \in Feature PROVE ~PadModel(model)[i]
    <3>1. {-i} \in file /\ i \in Int /\ ~(-i > 0) /\ -(-i) = i
      BY <1>1
    <3>2. ~model[i] /\ i <= n
      <4>1. Satisfies(model, {-i})
        BY <2>1, <3>1
      <4>2. -(-i) <= n
        BY <2>1, <3>1 DEF IsNumVars
      <4> QED  BY <3>1, <4>1, <4>2 DEF Satisfies
    <3>3. Len(model) = n
      BY <2>1
    <3> QED  BY <3>2, <3>3 DEF PadModel
  <2>3. {i \in Feature : PadModel(model)[i]} = {}
    BY <2>2
  <2> QED  BY <2>3 DEF MkRefVlbVub
<1> QED  BY <1>3, <1>4

\* What is printed are explanations of the prediction.
LEMMA ReportInAll ==
  ASSUME TypeOK, SoundReport, Enumerating
  PROVE  report \subseteq AllXps(kappa, vect)
<1>1. ASSUME NEW e \in report PROVE e \in AllXps(kappa, vect)
  <2>1. e \in XpType \X SUBSET Feature
    BY DEF TypeOK
  <2>2. IsXp(kappa, vect, e[1], e[2])
    BY DEF SoundReport, ValidXp, Enumerating
  <2> QED  BY <2>1, <2>2 DEF AllXps
<1> QED  BY <1>1

\* An unsatisfiable formula means that every explanation is printed.
LEMMA UnsatMeansAll ==
  ASSUME TypeOK, SoundReport, FormulaInv, Enumerating, NoMoreModels, ~NoAnswer
  PROVE  report = AllXps(kappa, vect)
<1>1. /\ Models(fcnf) = {} /\ fcnf = CnfFile(CNF)
      /\ CNF.Cls = {Clause(e) : e \in report}
      /\ CNF.NC > 0 <=> CNF.Cls # {}
  BY DEF NoMoreModels, NoAnswer, FormulaInv, Answers, Excluded
<1>2. Models({Clause(e) : e \in report}) = {}
  BY <1>1, FirstModel DEF CnfFile
<1>3. report \subseteq AllXps(kappa, vect)
  BY ReportInAll
<1> QED  BY <1>2, <1>3, ModelOfMissing

\* The first explanation is abductive.
LEMMA FirstStep ==
  ASSUME TypeOK, LoopInv, FormulaInv, FirstInv, [Next]_vars
  PROVE  FirstInv'
<1> SUFFICES ASSUME Enumerating, report = {}, report' = {} PROVE FirstInv'
  <2>1. report' = {} => report = {}
    BY Frame DEF WriteXp, Enumerating
  <2> QED  BY <2>1, Frame DEF FirstInv, Enumerating
<1> USE DEF cnfVars, outVars
<1>1. CASE ReadModel
  <2>1. CNF.Cls = {} /\ ~(CNF.NC > 0)
    BY <1>1 DEF ReadModel, FormulaInv, Excluded
  <2>2. fout.model \in Models({{-i} : i \in Feature})
    BY <1>1, <2>1 DEF ReadModel, FormulaInv, CnfFile, Answers
  <2>3. mxp' = Box({})
    BY <1>1, <2>2, FirstModel DEF ReadModel
  <2>4. Box({})' = Box({})
    BY Frame DEF Box
  <2> QED  BY <1>1, <2>3, <2>4 DEF ReadModel, FirstInv
<1>2. CASE TestRef
  <2>1. mxp = Box({}) /\ Feature \ {} = Feature
    BY <1>2 DEF TestRef, FirstInv
  <2>2. vect \in Space /\ kappa \in MonotoneClassifier
    BY RunAssumption DEF TypeOK
  <2>3. SameClass(mxp)
    BY <2>1, <2>2, BoxTest, AllFixed
  <2> QED  BY <1>2, <2>3 DEF TestRef, FirstInv
<1>3. CASE SkipUniversal \/ TryUniversal \/ SkipFixed \/ TryFixed \/ ReturnXp
  BY <1>3 DEF SkipUniversal, TryUniversal, SkipFixed, TryFixed, ReturnXp,
     FirstInv
<1>4. CASE \/ StartAxp \/ StartCxp \/ StartEnum \/ WriteCnf \/ LeaveLoop
           \/ RunSolver \/ NoMoreModels
  BY <1>4 DEF StartAxp, StartCxp, StartEnum, WriteCnf, LeaveLoop,
     RunSolver, NoMoreModels, FirstInv, Enumerating
<1>5. CASE \/ BlockXp \/ WriteXp \/ UpdateStats \/ CountXp \/ Exit
           \/ Interrupt
  BY <1>5 DEF BlockXp, WriteXp, UpdateStats, CountXp, Exit, Interrupt,
     FirstInv
<1>6. CASE Terminated \/ UNCHANGED vars
  BY <1>6 DEF Terminated, vars, input, FirstInv, Enumerating, Box
<1> QED  BY <1>1, <1>2, <1>3, <1>4, <1>5, <1>6 DEF Next, Step

\* $done and the counter of -N mean what they are for.
LEMMA EndStep ==
  ASSUME TypeOK, FreshInv, EndInv, [Next]_vars
  PROVE  EndInv'
<1> SUFFICES ASSUME Enumerating PROVE EndInv'
  BY Frame DEF EndInv, Enumerating
<1>0. /\ opts' = opts /\ numxp \in Nat /\ lines \in Nat
      /\ opts.N \in Nat \cup {NoLimit} /\ xtype \in XpType
  BY Frame, RunAssumption DEF TypeOK, OptionType
<1> USE DEF cnfVars, outVars
<1>1. CASE StartEnum
  BY <1>0, <1>1 DEF StartEnum, EndInv, FreshInv
<1>2. CASE BlockXp
  BY <1>0, <1>2 DEF BlockXp, IsEmpty, EndInv
<1>3. CASE WriteXp
  <2>1. report' = report \cup {<<xtype, xp>>} /\ lines' = lines + 1
    BY <1>3 DEF WriteXp, Enumerating, Printed
  <2>2. done => <<xtype, {}>> \in report'
    BY <1>3, <2>1 DEF WriteXp, EndInv
  <2> QED  BY <1>0, <1>3, <2>1, <2>2 DEF WriteXp, EndInv
<1>4. CASE UpdateStats
  BY <1>0, <1>4 DEF UpdateStats, EndInv
<1>5. CASE CountXp
  <2>1. /\ pc = "count" /\ pc' \in {"digest", "while"}
        /\ done' = done /\ report' = report /\ lines' = lines
    BY <1>5 DEF CountXp
  <2>2. pc' = "while" /\ opts.N # NoLimit =>
          numxp' = lines /\ (opts.N > 0 => numxp' < opts.N)
    <3> SUFFICES ASSUME pc' = "while", opts.N # NoLimit
                 PROVE  numxp' = lines /\ (opts.N > 0 => numxp' < opts.N)
      OBVIOUS
    <3>1. numxp' = numxp + 1 /\ numxp' # opts.N
      BY <1>5 DEF CountXp, LimitReached
    <3>2. numxp = lines - 1 /\ (opts.N > 0 => numxp < opts.N)
      BY <2>1 DEF EndInv
    <3> QED  BY <1>0, <3>1, <3>2
  <2> QED  BY <1>0, <2>1, <2>2 DEF EndInv
<1>6. CASE \/ StartAxp \/ StartCxp \/ WriteCnf \/ LeaveLoop \/ RunSolver
           \/ NoMoreModels \/ ReadModel \/ TestRef
  BY <1>0, <1>6 DEF StartAxp, StartCxp, WriteCnf, LeaveLoop, RunSolver,
     NoMoreModels, ReadModel, TestRef, EndInv, Enumerating
<1>7. CASE SkipUniversal \/ TryUniversal \/ SkipFixed \/ TryFixed \/ ReturnXp
  BY <1>0, <1>7 DEF SkipUniversal, TryUniversal, SkipFixed, TryFixed,
     ReturnXp, EndInv, Enumerating
<1>8. CASE Exit \/ Interrupt
  BY <1>0, <1>8 DEF Exit, Interrupt, EndInv
<1>9. CASE Terminated \/ UNCHANGED vars
  BY <1>9 DEF Terminated, vars, input, EndInv, Enumerating
<1> QED
  BY <1>1, <1>2, <1>3, <1>4, <1>5, <1>6, <1>7, <1>8, <1>9 DEF Next, Step

\* The three ways out of the loop of compute_xps.
LEMMA ExitStep ==
  ASSUME TypeOK, SoundReport, FormulaInv, EndInv, ExitInv, [Next]_vars
  PROVE  ExitInv'
<1> SUFFICES ASSUME Enumerating PROVE ExitInv'
  BY Frame DEF ExitInv, Enumerating
<1>0. /\ kappa' = kappa /\ vect' = vect /\ opts' = opts
      /\ numxp \in Nat /\ lines \in Nat /\ opts.N \in Nat \cup {NoLimit}
  BY Frame, RunAssumption DEF TypeOK, OptionType
<1>a. AllXps(kappa, vect)' = AllXps(kappa, vect)
  BY <1>0
<1> USE DEF cnfVars, outVars
<1>1. CASE LeaveLoop
  <2>1. PICK t \in XpType : <<t, {}>> \in report
    BY <1>1 DEF LeaveLoop, EndInv
  <2>2. report \subseteq AllXps(kappa, vect)
    BY ReportInAll
  <2>3. report = AllXps(kappa, vect)
    BY <2>1, <2>2, EmptyXpIsAlone
  <2>4. opts.N > 0 => lines <= opts.N
    BY <1>0, <1>1 DEF LeaveLoop, EndInv, NoLimit
  <2> QED  BY <1>a, <1>0, <1>1, <2>3, <2>4 DEF LeaveLoop, ExitInv
<1>2. CASE NoMoreModels
  <2>1. ~NoAnswer => report = AllXps(kappa, vect)
    BY <1>2, UnsatMeansAll
  <2>2. opts.N > 0 => lines <= opts.N
    BY <1>0, <1>2 DEF NoMoreModels, EndInv, NoLimit
  <2> QED
    BY <1>a, <1>0, <1>2, <2>1, <2>2 DEF NoMoreModels, ExitInv, NoAnswer
<1>3. CASE CountXp
  <2>1. pc' = "digest" => opts.N > 0 /\ lines = opts.N
    BY <1>0, <1>3 DEF CountXp, LimitReached, EndInv, NoLimit
  <2> QED  BY <1>a, <1>0, <1>3, <2>1 DEF CountXp, ExitInv
<1>4. CASE Exit
  BY <1>a, <1>0, <1>4 DEF Exit, ExitInv, NoAnswer, Enumerating
<1>5. CASE UpdateStats
  BY <1>5 DEF UpdateStats, ExitInv, Enumerating
<1>6. CASE \/ StartAxp \/ StartCxp \/ StartEnum \/ WriteCnf \/ RunSolver
           \/ ReadModel \/ TestRef
  BY <1>6 DEF StartAxp, StartCxp, StartEnum, WriteCnf, RunSolver, ReadModel,
     TestRef, ExitInv
<1>7. CASE \/ SkipUniversal \/ TryUniversal \/ SkipFixed \/ TryFixed
           \/ ReturnXp \/ BlockXp \/ WriteXp \/ Interrupt
  BY <1>7 DEF SkipUniversal, TryUniversal, SkipFixed, TryFixed, ReturnXp,
     BlockXp, WriteXp, Interrupt, ExitInv
<1>8. CASE Terminated \/ UNCHANGED vars
  BY <1>a, <1>0, <1>8 DEF Terminated, vars, ExitInv, NoAnswer, Enumerating
<1> QED
  BY <1>1, <1>2, <1>3, <1>4, <1>5, <1>6, <1>7, <1>8 DEF Next, Step

-----------------------------------------------------------------------------
(* The theorems. *)

\* How an enumeration hangs together (EnumInv of MonoXPsProperties), and that
\* no explanation is printed twice.
LEMMA EnumInductive == Spec => [](EnumInv /\ NoRepeat)
<1>1. Init => EnumInv /\ NoRepeat
  <2> SUFFICES ASSUME Init PROVE EnumInv /\ NoRepeat
    OBVIOUS
  <2>1. OneXp /\ FreshInv /\ FirstInv /\ ExitInv
    BY DEF Init, OneXp, FreshInv, FirstInv, ExitInv
  <2>2. FormulaInv
    BY DEF Init, FormulaInv, Excluded
  <2>3. EndInv
    BY DEF Init, EndInv
  <2>4. NoRepeat
    BY FS_EmptySet DEF Init, NoRepeat
  <2> QED  BY <2>1, <2>2, <2>3, <2>4 DEF EnumInv
<1>2. TypeOK /\ LoopInv /\ SoundReport /\ EnumInv /\ NoRepeat /\ [Next]_vars
      => EnumInv' /\ NoRepeat'
  BY OneXpStep, FormulaStep, FreshStep, FirstStep, EndStep, ExitStep,
     NoRepeatStep DEF EnumInv
<1> QED
  BY <1>1, <1>2, TypeCorrect, LoopsCorrect, ReportIsSound, PTL DEF Spec

\* The invariant of the enumeration holds in every run.
THEOREM EnumCorrect == Spec => []EnumInv
BY EnumInductive, PTL

\* No explanation is printed twice (NoRepeat of MonoXPsProperties), whichever
\* models the solver returns.
THEOREM NothingTwice == Spec => []NoRepeat
BY EnumInductive, PTL

\* Every model read back opens a part of the feature space that no printed
\* explanation covers (FreshRegion of MonoXPsProperties).
THEOREM ModelsAreFresh == Spec => FreshRegion
<1>1. ASSUME TypeOK, FormulaInv, [Next]_vars
      PROVE  [pc = "parse" /\ pc' = "test" /\ Enumerating =>
                /\ \A X \in Reported("AXp") : ~(X \subseteq mxp'.Fixes)
                /\ \A Y \in Reported("CXp") : ~(Y \subseteq mxp'.Univs)]_vars
  <2>1. ASSUME pc = "parse", pc' = "test" PROVE ReadModel
    BY <1>1, <2>1 DEF Next, Step, StartAxp, StartCxp, StartEnum, WriteCnf,
       LeaveLoop, RunSolver, NoMoreModels, ReadModel, TestRef, SkipUniversal,
       TryUniversal, SkipFixed, TryFixed, ReturnXp, BlockXp, WriteXp,
       UpdateStats, CountXp, Exit, Interrupt, Terminated, vars
  <2> QED  BY <1>1, <2>1, ReadModelFresh
<1>2. EnumInv => FormulaInv
  BY DEF EnumInv
<1> QED  BY <1>1, <1>2, TypeCorrect, EnumCorrect, PTL DEF Spec, FreshRegion

LEMMA MinOfTwo ==
  ASSUME NEW a \in Int, NEW b \in Int
  PROVE  Min({a, b}) = IF a <= b THEN a ELSE b
<1> DEFINE m == IF a <= b THEN a ELSE b
           IsMin(x) == x \in {a, b} /\ \A y \in {a, b} : x <= y
<1>1. IsMin(m) /\ \A x : IsMin(x) => x = m
  OBVIOUS
<1> HIDE DEF m
<1>2. (CHOOSE x \in {a, b} : \A y \in {a, b} : x <= y) = m
  BY <1>1
<1> QED  BY <1>2 DEF m, Min

\* An enumeration that exits, its solver having answered, has printed every
\* explanation, or under -N as many as were asked for, but for -N 0, if there
\* are that many (Complete of MonoXPsProperties).
THEOREM NothingMissing == Spec => []Complete
<1>1. ASSUME TypeOK, SoundReport, NoRepeat, ExitInv PROVE Complete
  <2> SUFFICES ASSUME pc = "exit", Enumerating, ~NoAnswer, opts.N # 0
               PROVE  IF ListsAll
                      THEN report = AllXps(kappa, vect)
                      ELSE Cardinality(report) =
                             Min({opts.N, Cardinality(AllXps(kappa, vect))})
    BY DEF Complete
  <2> DEFINE All == AllXps(kappa, vect)
  <2>1. /\ report = All \/ (opts.N > 0 /\ lines = opts.N)
        /\ opts.N > 0 => lines <= opts.N
    BY <1>1 DEF ExitInv
  <2>2. opts.N \in Nat \cup {NoLimit} /\ (ListsAll <=> ~(opts.N > 0))
    BY <1>1, RunAssumption DEF TypeOK, OptionType, ListsAll, NoLimit
  <2>3. CASE ListsAll
    BY <2>1, <2>2, <2>3
  <2>4. CASE ~ListsAll
    <3>1. lines = Cardinality(report)
      BY <1>1 DEF NoRepeat, Enumerating
    <3>2. report \subseteq All /\ All \in SUBSET (XpType \X SUBSET Feature)
      BY <1>1, ReportInAll DEF AllXps
    <3>3. IsFiniteSet(All) /\ Cardinality(All) \in Nat
      BY <3>2, FiniteReport
    <3>4. Cardinality(report) <= Cardinality(All)
      BY <3>2, <3>3, FS_Subset
    <3>5. lines \in Nat /\ opts.N \in Nat
      BY <1>1, <2>2, <2>4 DEF TypeOK, ListsAll
    <3> HIDE DEF All
    <3>6. lines = IF opts.N <= Cardinality(All) THEN opts.N
                                                ELSE Cardinality(All)
      BY <2>1, <2>2, <2>4, <3>1, <3>3, <3>4, <3>5
    <3>7. Cardinality(report) = Min({opts.N, Cardinality(All)})
      BY <3>1, <3>3, <3>5, <3>6, MinOfTwo
    <3> QED  BY <2>4, <3>7 DEF All
  <2> QED  BY <2>3, <2>4
<1>2. EnumInv => ExitInv
  BY DEF EnumInv
<1> QED
  BY <1>1, <1>2, TypeCorrect, ReportIsSound, NothingTwice, EnumCorrect, PTL

\* The two kinds of explanation a full enumeration prints are each other's
\* minimal hitting sets (Duality of MonoXPsProperties).
THEOREM PrintedDual == Spec => []Duality
<1>1. ASSUME TypeOK, ExitInv PROVE Duality
  <2> SUFFICES ASSUME pc = "exit", Enumerating, ListsAll, ~NoAnswer,
                      NEW H \in SUBSET Feature
               PROVE  /\ H \in Reported("CXp")
                           <=> MinimalHittingSet(H, Reported("AXp"))
                      /\ H \in Reported("AXp")
                           <=> MinimalHittingSet(H, Reported("CXp"))
    BY DEF Duality
  <2>1. ~(opts.N > 0)
    BY DEF ListsAll, NoLimit
  <2>2. report = AllXps(kappa, vect)
    BY <1>1, <2>1 DEF ExitInv
  <2>3. \A t \in XpType, X \in SUBSET Feature :
          X \in Reported(t) <=> IsXp(kappa, vect, t, X)
    <3>1. \A t \in XpType, X \in SUBSET Feature :
            <<t, X>> \in report <=> IsXp(kappa, vect, t, X)
      BY <2>2 DEF AllXps
    <3>2. \A e \in report : e = <<e[1], e[2]>>
      BY <2>2 DEF AllXps
    <3>3. \A t, X : X \in Reported(t) <=> <<t, X>> \in report
      BY <3>2 DEF Reported
    <3> QED  BY <3>1, <3>3
  <2>4. \A t : Reported(t) \subseteq SUBSET Feature
    BY <1>1 DEF Reported, TypeOK
  <2>5. /\ Reported("AXp") = AXps(kappa, vect)
        /\ Reported("CXp") = CXps(kappa, vect)
    BY <2>3, <2>4 DEF AXps, CXps, IsXp, XpType
  <2> QED  BY <2>5, HittingSetDuality
<1>2. EnumInv => ExitInv
  BY DEF EnumInv
<1> QED  BY <1>1, <1>2, TypeCorrect, EnumCorrect, PTL

\* The first explanation printed is abductive, and an empty one is the only
\* one, the AXp of a constant classifier (FirstIsAbductive of
\* MonoXPsProperties).
THEOREM FirstAbductive == Spec => []FirstIsAbductive
<1> DEFINE SomeAxp == Enumerating /\ report # {} => Reported("AXp") # {}
<1>1. Init => SomeAxp
  BY DEF Init
<1>2. ASSUME FirstInv, SomeAxp, [Next]_vars PROVE SomeAxp'
  <2> SUFFICES ASSUME Enumerating, WriteXp PROVE Reported("AXp")' # {}
    BY <1>2, Frame DEF Enumerating, Reported
  <2>1. report' = report \cup {<<xtype, xp>>}
    BY DEF WriteXp, Enumerating, Printed
  <2>2. report = {} => xtype = "AXp"
    BY <1>2 DEF FirstInv, WriteXp
  <2>3. \E e \in report' : e[1] = "AXp"
    <3>1. CASE report = {}
      BY <2>1, <2>2, <3>1
    <3>2. CASE report # {}
      <4>1. PICK e \in report : e[1] = "AXp"
        BY <1>2, <3>2 DEF Reported
      <4> QED  BY <2>1, <4>1
    <3> QED  BY <3>1, <3>2
  <2> QED  BY <2>3 DEF Reported
<1>3. ASSUME TypeOK, SoundReport, SomeAxp PROVE FirstIsAbductive
  <2> SUFFICES ASSUME Enumerating, NEW e \in report, e[2] = {}
               PROVE  ConstantClassifier(kappa) /\ report = {<<"AXp", {}>>}
    BY <1>3 DEF FirstIsAbductive
  <2>1. report \subseteq AllXps(kappa, vect)
    BY <1>3, ReportInAll
  <2>2. e = <<e[1], {}>> /\ vect \in Space
    BY <1>3, RunAssumption DEF TypeOK
  <2>3. e[1] = "AXp" /\ ConstantClassifier(kappa)
    BY <2>1, <2>2, EmptyXpIsConstant
  <2>4. AllXps(kappa, vect) = {<<"AXp", {}>>}
    BY <2>1, <2>2, <2>3, EmptyXpIsAlone
  <2> QED  BY <2>1, <2>3, <2>4
<1>4. EnumInv => FirstInv
  BY DEF EnumInv
<1> QED
  BY <1>1, <1>2, <1>3, <1>4, TypeCorrect, ReportIsSound, EnumCorrect, PTL
  DEF Spec

-----------------------------------------------------------------------------
(* Refinement. *)

\* XpEnum judges by the same reference.
LEMMA SameReference ==
  /\ Abstract!Space = Space
  /\ Abstract!MonotoneClassifier = MonotoneClassifier
  /\ \A k, v : Abstract!AllXps(k, v) = AllXps(k, v)
<1>1. Abstract!Feature = Feature /\ Abstract!XpType = XpType
  BY DEF Abstract!Feature, Feature, Abstract!XpType, XpType
<1>2. Abstract!Space = Space
  BY <1>1 DEF Abstract!Space, Abstract!Point, Space, Point
<1>3. \A k : Abstract!Monotone(k) <=> Monotone(k)
  BY <1>1, <1>2 DEF Abstract!Monotone, Abstract!Leq, Monotone, Leq
<1>4. Abstract!MonotoneClassifier = MonotoneClassifier
  BY <1>2, <1>3 DEF Abstract!MonotoneClassifier, MonotoneClassifier
<1>5. \A v, X : Abstract!Region(v, X) = Region(v, X)
  BY <1>2 DEF Abstract!Region, Region
<1>6. \A k, v, X : /\ Abstract!WeakAXp(k, v, X) <=> WeakAXp(k, v, X)
                   /\ Abstract!WeakCXp(k, v, X) <=> WeakCXp(k, v, X)
  BY <1>1, <1>5 DEF Abstract!WeakAXp, Abstract!WeakCXp, WeakAXp, WeakCXp
<1>7. \A k, v, X : /\ Abstract!IsAXp(k, v, X) <=> IsAXp(k, v, X)
                   /\ Abstract!IsCXp(k, v, X) <=> IsCXp(k, v, X)
  BY <1>1, <1>6 DEF Abstract!IsAXp, Abstract!IsCXp, IsAXp, IsCXp
<1>8. \A k, v, t, X : Abstract!IsXp(k, v, t, X) <=> IsXp(k, v, t, X)
  BY <1>7 DEF Abstract!IsXp, IsXp
<1>9. \A k, v : Abstract!AllXps(k, v) = AllXps(k, v)
  BY <1>1, <1>8 DEF Abstract!AllXps, AllXps
<1> QED  BY <1>2, <1>4, <1>9

\* An enumeration under -w, with any limit but 0.
Bounded == Enumerating /\ opts.N # 0

\* Every step of such an enumeration is a step of XpEnum or leaves it where it
\* is: the safety part of ImplementsXpEnum of MonoXPsProperties.
THEOREM RefinesXpEnum ==
  Spec /\ Bounded => Abstract!Init /\ [][Abstract!Next]_(Abstract!vars)
<1> DEFINE limit == opts.N
           status == CASE pc = "exit" /\ ~NoAnswer -> "exit"
                       [] pc = "killed" \/ (pc = "exit" /\ NoAnswer) -> "killed"
                       [] OTHER -> "running"
<1>1. Init /\ Bounded => Abstract!Init
  <2> SUFFICES ASSUME Init, Bounded PROVE Abstract!Init
    OBVIOUS
  <2>1. limit \in Int
    BY RunAssumption DEF Init, OptionType, NoLimit
  <2>2. kappa \in MonotoneClassifier /\ vect \in Space
    BY RunAssumption DEF Init
  <2>3. opts.mode = "enum"
    BY DEF Bounded, Enumerating
  <2> QED  BY <2>1, <2>2, <2>3, SameReference DEF Init, Abstract!Init
<1>2. ASSUME TypeOK, LoopInv, EnumInv, Bounded, [Next]_vars
      PROVE  [Abstract!Next]_(Abstract!vars) /\ Bounded'
  <2>00. Enumerating /\ opts.N # 0 /\ opts.mode = "enum"
    BY <1>2 DEF Bounded, Enumerating
  <2>0. /\ kappa' = kappa /\ vect' = vect /\ opts' = opts /\ limit' = limit
        /\ Bounded' /\ opts.N \in (Nat \cup {NoLimit}) \ {0}
        /\ opts.mode = "enum" /\ opts'.mode = "enum"
    BY <1>2, <2>00, Frame, RunAssumption
    DEF TypeOK, OptionType, Bounded, Enumerating
  <2>1. CASE WriteXp
    <3>1. /\ report' = report \cup {<<xtype, xp>>} /\ pc = "write"
          /\ pc' = "stats"
      BY <1>2, <2>00, <2>1 DEF WriteXp, Enumerating, Printed
    <3>2. <<xtype, xp>> \in AllXps(kappa, vect) \ report
      <4>1. IsXp(kappa, vect, xtype, xp)
        BY <1>2, <2>00, <3>1 DEF LoopInv, ValidXp, Enumerating
      <4>2. <<xtype, xp>> \notin report
        BY <1>2, <2>00, <3>1 DEF EnumInv, FreshInv
      <4> QED  BY <1>2, <2>00, <4>1, <4>2 DEF AllXps, TypeOK
    <3>3. lines # limit /\ lines' = lines + 1
      <4>1. lines \in Nat /\ lines' = lines + 1
        BY <1>2, <2>00, <2>1 DEF WriteXp, Enumerating, TypeOK
      <4>2. opts.N > 0 => lines < opts.N
        BY <1>2, <2>00, <3>1 DEF EnumInv, EndInv, NoLimit
      <4> QED  BY <2>0, <4>1, <4>2 DEF NoLimit
    <3>4. report = {} => xtype = "AXp"
      BY <1>2, <2>00, <3>1 DEF EnumInv, FirstInv
    <3>5. status = "running" /\ status' = "running"
      BY <3>1
    <3>6. Abstract!Report
      <4>1. PICK e \in Abstract!AllXps(kappa, vect) \ report :
                /\ report = {} => e[1] = "AXp"
                /\ report' = report \cup {e}
        BY <3>1, <3>2, <3>4, SameReference
      <4> QED  BY <2>0, <3>3, <3>5, <4>1 DEF Abstract!Report
    <3> QED  BY <2>0, <3>6 DEF Abstract!Next
  <2>2. CASE Exit
    <3>1. /\ pc = "digest" /\ pc' = "exit" /\ report' = report
          /\ lines' = lines /\ NoAnswer' = NoAnswer
      BY <2>2 DEF Exit, cnfVars, NoAnswer
    <3>2. CASE NoAnswer
      <4>1. Abstract!Kill
        BY <2>0, <3>1, <3>2 DEF Abstract!Kill
      <4> QED  BY <2>0, <4>1 DEF Abstract!Next
    <3>3. CASE ~NoAnswer
      <4>1. report = AllXps(kappa, vect) \/ lines = limit
        BY <1>2, <2>00, <2>0, <3>1, <3>3 DEF EnumInv, ExitInv, NoLimit
      <4>2. Abstract!Finish
        BY <2>0, <3>1, <3>3, <4>1, SameReference DEF Abstract!Finish
      <4> QED  BY <2>0, <4>2 DEF Abstract!Next
    <3> QED  BY <3>2, <3>3
  <2>3. CASE Interrupt
    <3>1. /\ pc \notin {"exit", "killed"} /\ pc' = "killed"
          /\ report' = report /\ lines' = lines
      BY <2>3 DEF Interrupt
    <3>2. Abstract!Kill
      BY <2>0, <3>1 DEF Abstract!Kill
    <3> QED  BY <2>0, <3>2 DEF Abstract!Next
  <2>4. CASE ~WriteXp /\ ~Exit /\ ~Interrupt
    <3>1. report' = report /\ lines' = lines
      BY <1>2, <2>00, <2>4, Frame
    <3>2. \/ pc \notin {"exit", "killed"} /\ pc' \notin {"exit", "killed"}
          \/ pc' = pc /\ fout' = fout
      BY <1>2, <2>00, <2>4 DEF Next, Step, StartAxp, StartCxp, StartEnum, WriteCnf,
         LeaveLoop, RunSolver, NoMoreModels, ReadModel, TestRef, SkipUniversal,
         TryUniversal, SkipFixed, TryFixed, ReturnXp, BlockXp, UpdateStats,
         CountXp, Terminated, vars, cnfVars
    <3>3. status' = status
      BY <3>2 DEF NoAnswer
    <3> QED  BY <2>0, <3>1, <3>3 DEF Abstract!vars
  <2> QED  BY <2>0, <2>1, <2>2, <2>3, <2>4
<1> QED
  BY <1>1, <1>2, TypeCorrect, LoopsCorrect, EnumCorrect, PTL DEF Spec

-----------------------------------------------------------------------------
(* The statistics. *)

\* The statistics, with what update_stats is about to add to them.
Tallied == IF pc = "stats" THEN AddXp(stats, xp, xtype) ELSE stats

\* The statistics st count what was printed.
Tallies(st) ==
  /\ st.AXpNum = Cardinality(Reported("AXp"))
  /\ st.CXpNum = Cardinality(Reported("CXp"))
  /\ st.AXpLits = Sizes(Reported("AXp"))
  /\ st.CXpLits = Sizes(Reported("CXp"))

TallyInv ==
  opts.s /\ opts.out = "w" =>
    /\ pc # "killed" => Tallies(Tallied)
    /\ pc = "exit" => digest = stats

\* Clauses, lines and counts of an enumeration differ by the explanation in
\* hand at most.
CountInv ==
  opts.s /\ Enumerating =>
    /\ pc # "killed" =>
         /\ lines = Counted(stats) + IF pc = "stats" THEN 1 ELSE 0
         /\ CNF.NC = Counted(stats) + IF pc \in {"write", "stats"} THEN 1 ELSE 0
    /\ pc = "killed" =>
         /\ Counted(digest) <= lines /\ lines <= Counted(digest) + 1
         /\ lines <= CNF.NC /\ CNF.NC <= Counted(digest) + 1

\* The features the loop keeps, and those of them it has passed.
Kept == IF pc = "axp" THEN mxp.Fixes ELSE mxp.Univs
PassedKept == {j \in Kept : j < idx}

\* -A and -C: no feature ahead of the loop has been decided, and each passed
\* has cost a test.
SingleCost ==
  /\ pc \in {"start", "axp", "cxp", "write", "stats", "digest", "exit", "killed"}
  /\ stats.NSAT = 0
  /\ pc = "start" => stats.NSIM = 0
  /\ pc \in {"axp", "cxp"} =>
       /\ stats.NSIM = 2 * (idx - 1)
       /\ \A j \in idx..NF : j \in Kept
  /\ pc \in {"write", "stats", "digest", "exit"} => stats.NSIM = 2 * NF

\* What the explanations counted cost at least and at most.
Least == 2 * (Counted(stats) + stats.AXpLits + stats.CXpLits)
Most  == 2 * Counted(stats) * (NF + 1)

\* The calls of the solver, and the tests: those for the explanations counted,
\* and those for the one in hand.
EnumCost ==
  /\ pc \in {"start", "while", "solve", "count"} => stats.NSAT = Counted(stats)
  /\ pc \in {"parse", "test", "axp", "cxp", "block", "write", "stats"} =>
       stats.NSAT = Counted(stats) + 1
  /\ pc \in {"digest", "exit"} =>
       stats.NSAT \in {Counted(stats), Counted(stats) + 1}
  /\ pc \in {"start", "while", "solve", "parse", "test", "count", "digest",
             "exit"} =>
       Least <= stats.NSIM /\ stats.NSIM <= Most
  /\ pc \in {"axp", "cxp"} =>
       /\ Least + 2 + 2 * Cardinality(PassedKept) <= stats.NSIM
       /\ stats.NSIM <= Most + 2 * idx
  /\ pc \in {"block", "write", "stats"} =>
       /\ Least + 2 + 2 * Cardinality(xp) <= stats.NSIM
       /\ stats.NSIM <= Most + 2 * (NF + 1)

CostInv ==
  opts.s => /\ pc = "exit" => digest = stats
            /\ IF opts.mode = "enum" THEN EnumCost ELSE SingleCost

\* Only update_stats touches the counts of explanations and literals.
LEMMA TallyFrame ==
  ASSUME stats \in Counts, [Next]_vars
  PROVE  \/ UpdateStats
         \/ /\ stats'.AXpNum = stats.AXpNum /\ stats'.AXpLits = stats.AXpLits
            /\ stats'.CXpNum = stats.CXpNum /\ stats'.CXpLits = stats.CXpLits
<1>1. CASE RunSolver \/ TestRef \/ TryUniversal \/ TryFixed
  BY <1>1 DEF RunSolver, TestRef, TryUniversal, TryFixed, CountSim, Counts
<1>2. CASE ~(RunSolver \/ TestRef \/ TryUniversal \/ TryFixed)
  BY <1>2 DEF Next, Step, StartAxp, StartCxp, StartEnum, WriteCnf, LeaveLoop,
     NoMoreModels, ReadModel, SkipUniversal, SkipFixed, ReturnXp, BlockXp,
     WriteXp, CountXp, Exit, Interrupt, Terminated, vars, outVars
<1> QED  BY <1>1, <1>2

\* The explanation that is printed has not been printed before.
LEMMA WriteFresh ==
  ASSUME OneXp, FreshInv, WriteXp, opts.out = "w"
  PROVE  /\ <<xtype, xp>> \notin report
         /\ report' = report \cup {<<xtype, xp>>} /\ lines' = lines + 1
BY DEF WriteXp, Printed, OneXp, FreshInv, Enumerating

\* What update_stats adds is what printing one explanation more adds.
LEMMA WriteTally ==
  ASSUME TypeOK, OneXp, FreshInv, WriteXp, opts.out = "w", Tallies(stats)
  PROVE  Tallies(Tallied)'
<1>1. /\ <<xtype, xp>> \notin report
      /\ report' = report \cup {<<xtype, xp>>}
  BY WriteFresh
<1>2. /\ report \subseteq XpType \X SUBSET Feature /\ xtype \in XpType
      /\ xp \in SUBSET Feature /\ stats \in Counts
  BY DEF TypeOK
<1>3. ASSUME NEW t \in XpType
      PROVE  /\ Reported(t)' = IF t = xtype THEN Reported(t) \cup {xp}
                               ELSE Reported(t)
             /\ Reported(t) \in SUBSET SUBSET Feature
  <2>1. {e[2] : e \in {r \in report' : r[1] = t}} =
          IF t = xtype THEN {e[2] : e \in {r \in report : r[1] = t}} \cup {xp}
          ELSE {e[2] : e \in {r \in report : r[1] = t}}
    BY <1>1
  <2> QED  BY <1>2, <2>1 DEF Reported
<1>4. xp \notin Reported(xtype)
  <2> SUFFICES ASSUME NEW e \in report, e[1] = xtype, e[2] = xp PROVE FALSE
    BY DEF Reported
  <2>1. e = <<e[1], e[2]>>
    BY <1>2
  <2> QED  BY <1>1, <2>1
<1>5. IsFiniteSet(SUBSET Feature) /\ \A X \in SUBSET Feature : IsFiniteSet(X)
  BY FeatureSets, FS_SUBSET, FS_Subset
<1>6. ASSUME NEW t \in XpType
      PROVE  /\ IsFiniteSet(Reported(t))
             /\ Cardinality(Reported(t)) \in Nat /\ Sizes(Reported(t)) \in Nat
  <2>1. Reported(t) \in SUBSET SUBSET Feature
    BY <1>3
  <2> QED  BY <1>5, <2>1, FS_Subset, FS_CardinalityType, SizesType
<1>7. /\ Cardinality(Reported(xtype) \cup {xp}) = Cardinality(Reported(xtype)) + 1
      /\ Sizes(Reported(xtype) \cup {xp}) = Sizes(Reported(xtype)) + Cardinality(xp)
  <2>1. IsFiniteSet(Reported(xtype)) /\ Reported(xtype) \in SUBSET SUBSET Feature
    BY <1>2, <1>3, <1>6
  <2>2. Cardinality(Reported(xtype) \cup {xp}) = Cardinality(Reported(xtype)) + 1
    BY <1>4, <2>1, FS_AddElement
  <2>3. Sizes(Reported(xtype) \cup {xp}) = Sizes(Reported(xtype)) + Cardinality(xp)
    BY <1>2, <1>4, <1>5, <2>1, SizesAdd
  <2> QED  BY <2>2, <2>3
<1>8. Tallied' = AddXp(stats, xp, xtype)
  BY DEF WriteXp, Tallied
<1>9. CASE xtype = "AXp"
  <2>1. /\ Tallied'.AXpNum = stats.AXpNum + 1
        /\ Tallied'.AXpLits = stats.AXpLits + Cardinality(xp)
        /\ Tallied'.CXpNum = stats.CXpNum /\ Tallied'.CXpLits = stats.CXpLits
    BY <1>2, <1>8, <1>9 DEF AddXp, Counts
  <2>2. /\ Reported("AXp")' = Reported("AXp") \cup {xp}
        /\ Reported("CXp")' = Reported("CXp")
    BY <1>3, <1>9 DEF XpType
  <2> QED  BY <1>7, <1>9, <2>1, <2>2 DEF Tallies, Sizes
<1>10. CASE xtype = "CXp"
  <2>1. /\ Tallied'.CXpNum = stats.CXpNum + 1
        /\ Tallied'.CXpLits = stats.CXpLits + Cardinality(xp)
        /\ Tallied'.AXpNum = stats.AXpNum /\ Tallied'.AXpLits = stats.AXpLits
    BY <1>2, <1>8, <1>10 DEF AddXp, Counts
  <2>2. /\ Reported("CXp")' = Reported("CXp") \cup {xp}
        /\ Reported("AXp")' = Reported("AXp")
    BY <1>3, <1>10 DEF XpType
  <2> QED  BY <1>7, <1>10, <2>1, <2>2 DEF Tallies, Sizes
<1> QED  BY <1>2, <1>9, <1>10 DEF XpType

LEMMA TallyStep ==
  ASSUME TypeOK, OneXp, FreshInv, TallyInv, [Next]_vars
  PROVE  TallyInv'
<1> SUFFICES ASSUME opts.s, opts.out = "w"
             PROVE  /\ pc' # "killed" => Tallies(Tallied)'
                    /\ pc' = "exit" => digest' = stats'
  BY Frame DEF TallyInv
<1>1. stats \in Counts
  BY DEF TypeOK
<1>2. CASE WriteXp
  BY <1>2, WriteTally DEF WriteXp, TallyInv, Tallied
<1>3. CASE UpdateStats
  <2>1. Tallied' = Tallied /\ report' = report
    BY <1>3, Frame DEF UpdateStats, Tallied, WriteXp
  <2>2. Tallies(Tallied)
    BY <1>3 DEF UpdateStats, TallyInv
  <2> QED  BY <1>3, <2>1, <2>2 DEF UpdateStats, Tallies, Reported
<1>4. CASE UNCHANGED vars
  BY <1>4 DEF vars, outVars, TallyInv, Tallied, Tallies, Reported
<1>5. CASE Interrupt
  BY <1>5 DEF Interrupt
<1>6. CASE ~(WriteXp \/ UpdateStats \/ UNCHANGED vars \/ Interrupt)
  <2>1. pc \notin {"stats", "killed"} /\ pc' # "stats"
    BY <1>6 DEF Next, Step, StartAxp, StartCxp, StartEnum, WriteCnf, LeaveLoop,
       RunSolver, NoMoreModels, ReadModel, TestRef, SkipUniversal, TryUniversal,
       SkipFixed, TryFixed, ReturnXp, BlockXp, CountXp, Exit, Terminated
  <2>2. pc' = "exit" => digest' = stats'
    BY <1>6 DEF Next, Step, StartAxp, StartCxp, StartEnum, WriteCnf, LeaveLoop,
       RunSolver, NoMoreModels, ReadModel, TestRef, SkipUniversal, TryUniversal,
       SkipFixed, TryFixed, ReturnXp, BlockXp, CountXp, Exit, Terminated
  <2>3. Tallies(stats)
    BY <2>1 DEF TallyInv, Tallied
  <2>4. report' = report
    BY <1>6, Frame
  <2>5. Tallies(stats)'
    BY <1>1, <1>6, <2>3, <2>4, TallyFrame DEF Tallies, Reported
  <2> QED  BY <2>1, <2>2, <2>5 DEF Tallied, Tallies
<1> QED  BY <1>2, <1>3, <1>4, <1>5, <1>6

\* A digest printed at the exit counts exactly what was printed.
THEOREM DigestCorrect == Spec => []DigestMatches
<1>1. Init => TallyInv
  <2> SUFFICES ASSUME Init PROVE TallyInv
    OBVIOUS
  <2>1. Reported("AXp") = {} /\ Reported("CXp") = {}
    BY DEF Init, Reported
  <2> QED  BY <2>1, FS_EmptySet, SizesNone
           DEF Init, TallyInv, Tallied, Tallies, InitStats
<1>2. TypeOK /\ EnumInv /\ TallyInv /\ [Next]_vars => TallyInv'
  BY TallyStep DEF EnumInv
<1>3. TallyInv => DigestMatches
  BY DEF TallyInv, Tallied, Tallies, DigestMatches, Sizes
<1> QED  BY <1>1, <1>2, <1>3, TypeCorrect, EnumCorrect, PTL DEF Spec

\* Adding an explanation counts one more.
LEMMA AddCounts ==
  ASSUME NEW st \in Counts, NEW X \in SUBSET Feature, NEW t \in XpType
  PROVE  /\ Counted(AddXp(st, X, t)) = Counted(st) + 1
         /\ AddXp(st, X, t).AXpLits + AddXp(st, X, t).CXpLits =
              st.AXpLits + st.CXpLits + Cardinality(X)
         /\ AddXp(st, X, t).NSAT = st.NSAT /\ AddXp(st, X, t).NSIM = st.NSIM
<1>1. Cardinality(X) \in Nat
  BY FeatureSets, SpaceAssumption
<1> DEFINE c == Cardinality(X)
<1>2. c \in Nat
  BY <1>1
<1> HIDE DEF c
<1>3. CASE t = "AXp"
  <2>1. AddXp(st, X, t) = [st EXCEPT !.AXpNum = @ + 1, !.AXpLits = @ + c]
    BY <1>3 DEF AddXp, c
  <2> QED  BY <1>2, <2>1 DEF Counts, Counted, c
<1>4. CASE t # "AXp"
  <2>1. AddXp(st, X, t) = [st EXCEPT !.CXpNum = @ + 1, !.CXpLits = @ + c]
    BY <1>4 DEF AddXp, c
  <2> QED  BY <1>2, <2>1 DEF Counts, Counted, c
<1> QED  BY <1>3, <1>4

LEMMA CountStep ==
  ASSUME TypeOK, FreshInv, CountInv, [Next]_vars
  PROVE  CountInv'
<1> SUFFICES ASSUME opts.s, Enumerating PROVE CountInv'
  BY Frame DEF CountInv, Enumerating
<1> USE DEF cnfVars, outVars
<1>0. /\ opts' = opts /\ stats \in Counts /\ Counted(stats) \in Nat
      /\ lines \in Nat /\ CNF.NC \in Nat
      /\ xp \in SUBSET Feature /\ xtype \in XpType
  BY Frame DEF TypeOK, Counts, Counted
<1>1. CASE StartEnum
  <2>1. lines = 0 /\ lines = Counted(stats)
    BY <1>0, <1>1 DEF StartEnum, FreshInv, CountInv
  <2> QED  BY <1>0, <1>1, <2>1 DEF StartEnum, CountInv, Counted
<1>2. CASE BlockXp
  BY <1>0, <1>2 DEF BlockXp, CountInv, Counted
<1>3. CASE WriteXp
  BY <1>0, <1>3 DEF WriteXp, CountInv, Counted, Enumerating
<1>4. CASE UpdateStats
  <2>1. Counted(stats') = Counted(stats) + 1
    BY <1>0, <1>4, AddCounts DEF UpdateStats
  <2>2. /\ lines = Counted(stats) + 1 /\ CNF.NC = Counted(stats) + 1
        /\ pc' \in {"count", "digest"} /\ lines' = lines /\ CNF' = CNF
    BY <1>4 DEF UpdateStats, CountInv
  <2> QED  BY <1>0, <2>1, <2>2 DEF CountInv, Counted
<1>5. CASE Interrupt
  <2>1. /\ pc # "killed" /\ pc' = "killed" /\ digest' = stats
        /\ lines' = lines /\ CNF' = CNF
    BY <1>5 DEF Interrupt
  <2>2. /\ lines = Counted(stats) + IF pc = "stats" THEN 1 ELSE 0
        /\ CNF.NC = Counted(stats) + IF pc \in {"write", "stats"} THEN 1 ELSE 0
    BY <2>1 DEF CountInv
  <2>3. /\ Counted(stats) <= lines /\ lines <= Counted(stats) + 1
        /\ lines <= CNF.NC /\ CNF.NC <= Counted(stats) + 1
    BY <1>0, <2>2
  <2> QED  BY <2>1, <2>3 DEF CountInv, Counted
<1>6. CASE UNCHANGED vars
  BY <1>6 DEF vars, CountInv, Counted, Enumerating, input
<1>7. CASE ~(StartEnum \/ BlockXp \/ WriteXp \/ UpdateStats \/ Interrupt
             \/ UNCHANGED vars)
  <2>1. /\ pc \notin {"write", "stats", "killed"}
        /\ pc' \notin {"write", "stats", "killed"}
        /\ CNF' = CNF
    BY <1>7 DEF Next, Step, StartAxp, StartCxp, WriteCnf, LeaveLoop,
       RunSolver, NoMoreModels, ReadModel, TestRef, SkipUniversal, TryUniversal,
       SkipFixed, TryFixed, ReturnXp, CountXp, Exit, Terminated, Enumerating
  <2>2. lines' = lines
    BY <1>7, Frame
  <2>3. Counted(stats)' = Counted(stats)
    BY <1>0, <1>7, TallyFrame DEF Counted
  <2> QED  BY <2>1, <2>2, <2>3 DEF CountInv
<1> QED  BY <1>1, <1>2, <1>3, <1>4, <1>5, <1>6, <1>7

\* A digest printed by a signal is behind what was printed by one explanation
\* at most, and the formula ahead of it by one at most.
THEOREM InterruptedCorrect == Spec => []InterruptedDigest
<1>1. Init => CountInv
  BY DEF Init, CountInv, Counted, InitStats
<1>2. TypeOK /\ EnumInv /\ CountInv /\ [Next]_vars => CountInv'
  BY CountStep DEF EnumInv
<1>3. CountInv => InterruptedDigest
  BY DEF CountInv, InterruptedDigest
<1> QED  BY <1>1, <1>2, <1>3, TypeCorrect, EnumCorrect, PTL DEF Spec

\* With -A and -C the loops meet every feature undecided.
LEMMA SingleStep ==
  ASSUME TypeOK, LoopInv, SingleCost, [Next]_vars, opts.s, opts.mode # "enum"
  PROVE  SingleCost'
<1> USE DEF cnfVars, outVars
<1>0. /\ stats \in Counts /\ idx \in 1..(NF + 1) /\ NF \in Nat
      /\ Feature = 1..NF /\ xp \in SUBSET Feature /\ xtype \in XpType
  BY SpaceAssumption DEF TypeOK, Feature
<1>1. CASE StartAxp \/ StartCxp
  <2>1. mxp.Univs = {} /\ mxp.Fixes = {}
    BY <1>1 DEF StartAxp, StartCxp, LoopInv
  <2>2. \A j \in 1..NF : j \in Kept'
    BY <1>0, <1>1, <2>1
       DEF StartAxp, StartCxp, SetAxpVect, SetCxpVect, Box, Kept
  <2>3. /\ stats' = stats /\ idx' = 1 /\ pc' \in {"axp", "cxp"}
        /\ stats.NSAT = 0 /\ stats.NSIM = 0
    BY <1>1 DEF StartAxp, StartCxp, SingleCost
  <2> QED  BY <2>2, <2>3 DEF SingleCost
<1>2. CASE SkipUniversal \/ SkipFixed
  <2>1. idx \in idx..NF /\ mxp = Box(mxp.Univs) /\ pc \in {"axp", "cxp"}
    BY <1>0, <1>2 DEF SkipUniversal, SkipFixed, LoopInv
  <2>2. mxp.Fixes = Feature \ mxp.Univs
    BY <2>1 DEF Box
  <2> QED  BY <1>2, <2>1, <2>2 DEF SkipUniversal, SkipFixed, SingleCost, Kept
<1>3. CASE TryUniversal \/ TryFixed
  <2>1. /\ pc \in {"axp", "cxp"} /\ pc' = pc /\ idx' = idx + 1 /\ idx <= NF
        /\ stats' = [stats EXCEPT !.NSIM = @ + 2]
    BY <1>3 DEF TryUniversal, TryFixed, CountSim
  <2>2. stats.NSAT = 0 /\ stats.NSIM = 2 * (idx - 1) /\ \A j \in idx..NF : j \in Kept
    BY <2>1 DEF SingleCost
  <2>3. \A j \in Kept : j # idx => j \in Kept'
    BY <1>3 DEF TryUniversal, TryFixed, MakeFeatureUniversal, MakeFeatureFixed, Kept
  <2>4. stats'.NSAT = 0 /\ stats'.NSIM = 2 * (idx' - 1)
    BY <1>0, <2>1, <2>2 DEF Counts
  <2>5. \A j \in idx'..NF : j \in Kept'
    BY <1>0, <2>1, <2>2, <2>3
  <2> QED  BY <2>1, <2>4, <2>5 DEF SingleCost
<1>4. CASE ReturnXp
  <2>1. idx = NF + 1 /\ pc \in {"axp", "cxp"}
    BY <1>0, <1>4 DEF ReturnXp
  <2>2. stats.NSAT = 0 /\ stats.NSIM = 2 * NF
    BY <1>0, <2>1 DEF SingleCost
  <2> QED  BY <1>4, <2>2 DEF ReturnXp, SingleCost
<1>5. CASE UpdateStats
  <2>1. stats'.NSAT = stats.NSAT /\ stats'.NSIM = stats.NSIM
    BY <1>0, <1>5, AddCounts DEF UpdateStats
  <2> QED  BY <1>5, <2>1 DEF UpdateStats, SingleCost
<1>6. CASE WriteXp \/ Exit \/ Interrupt
  BY <1>6 DEF WriteXp, Exit, Interrupt, SingleCost
<1>7. CASE Terminated \/ UNCHANGED vars
  BY <1>7 DEF Terminated, vars, SingleCost, Kept
<1>8. CASE StartEnum \/ WriteCnf \/ LeaveLoop \/ RunSolver \/ NoMoreModels
           \/ ReadModel \/ TestRef \/ BlockXp \/ CountXp
  BY <1>8 DEF StartEnum, WriteCnf, LeaveLoop, RunSolver, NoMoreModels,
     ReadModel, TestRef, BlockXp, CountXp, SingleCost
<1> QED  BY <1>1, <1>2, <1>3, <1>4, <1>5, <1>6, <1>7, <1>8 DEF Next, Step

\* A pass of a loop that tests a feature keeps one feature more at most; a pass
\* that skips one keeps what it had; no feature has been passed at the start,
\* and every feature at the end.
LEMMA PassedStep ==
  ASSUME TypeOK, LoopInv
  PROVE  /\ PassedKept \in SUBSET Feature
         /\ TestRef => Cardinality(PassedKept)' = 0
         /\ SkipUniversal \/ SkipFixed => PassedKept' = PassedKept
         /\ TryUniversal \/ TryFixed =>
              /\ PassedKept' \in SUBSET Feature
              /\ Cardinality(PassedKept)' <= Cardinality(PassedKept) + 1
         /\ ReturnXp => PassedKept = xp'
<1>0. /\ idx \in 1..(NF + 1) /\ NF \in Nat /\ Feature = 1..NF
      /\ mxp \in BoxType
  BY SpaceAssumption DEF TypeOK, Feature
<1>1. PassedKept \in SUBSET Feature
  BY <1>0 DEF PassedKept, Kept, BoxType
<1>2. ASSUME TestRef PROVE Cardinality(PassedKept)' = 0
  <2>1. PassedKept' = {j \in Kept' : j < 1}
    BY <1>2 DEF TestRef, PassedKept
  <2>2. Kept' \in SUBSET Feature
    BY <1>0, <1>2 DEF TestRef, Kept, BoxType
  <2>3. \A j \in Feature : ~(j < 1)
    BY <1>0
  <2>4. PassedKept' = {}
    BY <2>1, <2>2, <2>3
  <2> QED  BY <2>4, FS_EmptySet
<1>3. ASSUME SkipUniversal \/ SkipFixed PROVE PassedKept' = PassedKept
  <2>1. /\ pc' = pc /\ mxp' = mxp /\ idx' = idx + 1 /\ pc \in {"axp", "cxp"}
        /\ mxp = Box(mxp.Univs)
    BY <1>3 DEF SkipUniversal, SkipFixed, LoopInv
  <2>2. mxp.Fixes = Feature \ mxp.Univs
    BY <2>1 DEF Box
  <2>3. Kept' = Kept /\ idx \notin Kept /\ Kept \in SUBSET Feature
    BY <1>0, <1>3, <2>1, <2>2 DEF SkipUniversal, SkipFixed, Kept, BoxType
  <2>4. \A j \in Kept : j < idx + 1 <=> j < idx
    BY <1>0, <2>3
  <2> QED  BY <2>1, <2>3, <2>4 DEF PassedKept
<1>4. ASSUME TryUniversal \/ TryFixed
      PROVE  /\ PassedKept' \in SUBSET Feature
             /\ Cardinality(PassedKept)' <= Cardinality(PassedKept) + 1
  <2>1. pc' = pc /\ pc \in {"axp", "cxp"} /\ idx' = idx + 1 /\ idx \in Feature
    BY <1>0, <1>4 DEF TryUniversal, TryFixed
  <2>2. \A j \in Kept' : j = idx \/ j \in Kept
    BY <1>4, <2>1
       DEF TryUniversal, TryFixed, MakeFeatureUniversal, MakeFeatureFixed, Kept
  <2>3. Kept \in SUBSET Feature
    BY <1>0 DEF Kept, BoxType
  <2>4. \A j \in Feature : j < idx + 1 => j = idx \/ j < idx
    BY <1>0
  <2>5. PassedKept' \subseteq PassedKept \cup {idx}
    BY <2>1, <2>2, <2>3, <2>4 DEF PassedKept
  <2>6. /\ IsFiniteSet(PassedKept) /\ Cardinality(PassedKept) \in Nat
    BY <1>0, <1>1, FeatureSets
  <2>7. /\ IsFiniteSet(PassedKept \cup {idx})
        /\ Cardinality(PassedKept \cup {idx}) <= Cardinality(PassedKept) + 1
    BY <2>6, FS_AddElement
  <2>8. /\ Cardinality(PassedKept)' <= Cardinality(PassedKept \cup {idx})
        /\ Cardinality(PassedKept)' \in Nat
        /\ Cardinality(PassedKept \cup {idx}) \in Nat
    BY <2>5, <2>7, FS_Subset, FS_CardinalityType
  <2> QED  BY <1>1, <2>1, <2>5, <2>6, <2>7, <2>8
<1>5. ASSUME ReturnXp PROVE PassedKept = xp'
  <2>1. Kept = xp' /\ Kept \in SUBSET Feature /\ idx = NF + 1
    BY <1>0, <1>5 DEF ReturnXp, Kept, BoxType
  <2>2. \A j \in Kept : j < idx
    BY <1>0, <2>1
  <2> QED  BY <2>1, <2>2 DEF PassedKept
<1> QED  BY <1>1, <1>2, <1>3, <1>4, <1>5

\* The bounds of an enumeration.
LEMMA EnumCostStep ==
  ASSUME TypeOK, LoopInv, EnumCost, [Next]_vars, opts.s, opts.mode = "enum"
  PROVE  EnumCost'
<1> USE DEF cnfVars, outVars
<1>0. /\ stats \in Counts /\ idx \in 1..(NF + 1) /\ NF \in Nat
      /\ xp \in SUBSET Feature /\ xtype \in XpType
      /\ Counted(stats) \in Nat /\ Least \in Nat /\ Most \in Nat
      /\ Cardinality(xp) \in Nat /\ stats.NSIM \in Nat /\ stats.NSAT \in Nat
  <2>1. /\ stats \in Counts /\ idx \in 1..(NF + 1) /\ NF \in Nat
        /\ xp \in SUBSET Feature /\ xtype \in XpType
    BY SpaceAssumption DEF TypeOK, Feature
  <2>2. Counted(stats) \in Nat /\ stats.AXpLits \in Nat /\ stats.CXpLits \in Nat
        /\ stats.NSIM \in Nat /\ stats.NSAT \in Nat
    BY <2>1 DEF Counts, Counted
  <2>3. Cardinality(xp) \in Nat
    BY <2>1, FeatureSets
  <2> QED  BY <2>1, <2>2, <2>3 DEF Least, Most
<1>1. ASSUME ~UpdateStats
      PROVE  /\ Counted(stats)' = Counted(stats)
             /\ Least' = Least /\ Most' = Most
  BY <1>0, <1>1, TallyFrame DEF Counted, Least, Most
<1>2. CASE StartEnum \/ WriteCnf \/ LeaveLoop \/ NoMoreModels \/ ReadModel
           \/ BlockXp \/ WriteXp \/ CountXp \/ Exit \/ Interrupt
  <2>1. /\ Counted(stats)' = Counted(stats) /\ Least' = Least /\ Most' = Most
        /\ stats' = stats
    BY <1>2 DEF StartEnum, WriteCnf, LeaveLoop, NoMoreModels, ReadModel,
       BlockXp, WriteXp, CountXp, Exit, Interrupt, Counted, Least, Most
  <2>2. xp' = xp
    BY <1>2 DEF StartEnum, WriteCnf, LeaveLoop, NoMoreModels, ReadModel,
       BlockXp, WriteXp, CountXp, Exit, Interrupt
  <2>3. CASE StartEnum \/ WriteCnf \/ ReadModel \/ BlockXp \/ WriteXp
    BY <2>1, <2>2, <2>3
       DEF StartEnum, WriteCnf, ReadModel, BlockXp, WriteXp, EnumCost
  <2>4. CASE LeaveLoop \/ NoMoreModels \/ CountXp \/ Exit \/ Interrupt
    BY <2>1, <2>2, <2>4
       DEF LeaveLoop, NoMoreModels, CountXp, Exit, Interrupt, EnumCost
  <2> QED  BY <1>2, <2>3, <2>4
<1>3. CASE RunSolver
  <2>1. /\ pc = "solve" /\ pc' = "parse"
        /\ stats' = [stats EXCEPT !.NSAT = @ + 1]
    BY <1>3 DEF RunSolver
  <2>2. stats'.NSAT = stats.NSAT + 1 /\ stats'.NSIM = stats.NSIM
    BY <1>0, <2>1 DEF Counts
  <2>3. ~UpdateStats
    BY <2>1 DEF UpdateStats
  <2>4. stats.NSAT = Counted(stats) /\ Least <= stats.NSIM /\ stats.NSIM <= Most
    BY <2>1 DEF EnumCost
  <2> QED  BY <1>0, <1>1, <2>1, <2>2, <2>3, <2>4 DEF EnumCost
<1>4. CASE TestRef
  <2>1. /\ pc = "test" /\ pc' \in {"axp", "cxp"} /\ idx' = 1
        /\ stats' = [stats EXCEPT !.NSIM = @ + 2]
    BY <1>4 DEF TestRef, CountSim
  <2>2. stats'.NSAT = stats.NSAT /\ stats'.NSIM = stats.NSIM + 2
    BY <1>0, <2>1 DEF Counts
  <2>3. ~UpdateStats
    BY <2>1 DEF UpdateStats
  <2>4. Cardinality(PassedKept)' = 0
    BY <1>4, PassedStep
  <2>5. /\ stats.NSAT = Counted(stats) + 1
        /\ Least <= stats.NSIM /\ stats.NSIM <= Most
    BY <2>1 DEF EnumCost
  <2>6. /\ stats'.NSAT = Counted(stats)' + 1
        /\ Least' + 2 + 2 * Cardinality(PassedKept)' <= stats'.NSIM
        /\ stats'.NSIM <= Most' + 2 * idx'
    BY <1>0, <1>1, <2>1, <2>2, <2>3, <2>4, <2>5
  <2> QED  BY <2>1, <2>6 DEF EnumCost
<1>5. CASE SkipUniversal \/ SkipFixed \/ TryUniversal \/ TryFixed
  <2>1. /\ pc \in {"axp", "cxp"} /\ pc' = pc /\ idx' = idx + 1
    BY <1>5 DEF SkipUniversal, SkipFixed, TryUniversal, TryFixed
  <2>2. ~UpdateStats
    BY <2>1 DEF UpdateStats
  <2>3. /\ stats.NSAT = Counted(stats) + 1
        /\ Least + 2 + 2 * Cardinality(PassedKept) <= stats.NSIM
        /\ stats.NSIM <= Most + 2 * idx
    BY <2>1 DEF EnumCost
  <2>4. Cardinality(PassedKept) \in Nat
    BY PassedStep, FeatureSets, SpaceAssumption
  <2>5. /\ Cardinality(PassedKept)' \in Nat
        /\ stats'.NSAT = stats.NSAT
        /\ \/ /\ stats'.NSIM = stats.NSIM
              /\ Cardinality(PassedKept)' = Cardinality(PassedKept)
           \/ /\ stats'.NSIM = stats.NSIM + 2
              /\ Cardinality(PassedKept)' <= Cardinality(PassedKept) + 1
    <3>1. CASE SkipUniversal \/ SkipFixed
      BY <2>4, <3>1, PassedStep DEF SkipUniversal, SkipFixed
    <3>2. CASE TryUniversal \/ TryFixed
      <4>1. stats' = [stats EXCEPT !.NSIM = @ + 2]
        BY <3>2 DEF TryUniversal, TryFixed, CountSim
      <4>2. stats'.NSAT = stats.NSAT /\ stats'.NSIM = stats.NSIM + 2
        BY <1>0, <4>1 DEF Counts
      <4>3. PassedKept' \in SUBSET Feature
        BY <3>2, PassedStep
      <4>4. Cardinality(PassedKept)' \in Nat
        BY <4>3, FeatureSets, SpaceAssumption
      <4> QED  BY <3>2, <4>2, <4>4, PassedStep
    <3> QED  BY <1>5, <3>1, <3>2
  <2>6. /\ stats'.NSAT = Counted(stats)' + 1
        /\ Least' + 2 + 2 * Cardinality(PassedKept)' <= stats'.NSIM
        /\ stats'.NSIM <= Most' + 2 * idx'
    BY <1>0, <1>1, <2>1, <2>2, <2>3, <2>4, <2>5
  <2> QED  BY <2>1, <2>6 DEF EnumCost
<1>6. CASE ReturnXp
  <2>1. /\ pc \in {"axp", "cxp"} /\ pc' = "block" /\ idx = NF + 1
        /\ stats' = stats /\ xp' = PassedKept
    BY <1>0, <1>6, PassedStep DEF ReturnXp
  <2>2. /\ stats.NSAT = Counted(stats) + 1
        /\ Least + 2 + 2 * Cardinality(PassedKept) <= stats.NSIM
        /\ stats.NSIM <= Most + 2 * idx
    BY <2>1 DEF EnumCost
  <2>3. Counted(stats)' = Counted(stats) /\ Least' = Least /\ Most' = Most
    BY <2>1 DEF Counted, Least, Most
  <2> QED  BY <2>1, <2>2, <2>3 DEF EnumCost
<1>7. CASE UpdateStats
  <2>1. /\ pc = "stats" /\ pc' = "count" /\ stats' = AddXp(stats, xp, xtype)
    BY <1>7 DEF UpdateStats
  <2>2. /\ Counted(stats)' = Counted(stats) + 1
        /\ stats'.AXpLits + stats'.CXpLits =
             stats.AXpLits + stats.CXpLits + Cardinality(xp)
        /\ stats'.NSAT = stats.NSAT /\ stats'.NSIM = stats.NSIM
    BY <1>0, <2>1, AddCounts DEF Counted
  <2>3. Most' = Most + 2 * (NF + 1)
    <3>1. \A n, m \in Nat : 2 * (n + 1) * m = 2 * n * m + 2 * m
      OBVIOUS
    <3>2. Counted(stats) \in Nat /\ NF + 1 \in Nat
      BY <1>0
    <3>3. 2 * (Counted(stats) + 1) * (NF + 1) = Most + 2 * (NF + 1)
      <4> HIDE DEF Counted
      <4> QED  BY <3>1, <3>2, Zenon DEF Most
    <3> QED  BY <2>2, <3>3 DEF Most
  <2>4. Least' = Least + 2 + 2 * Cardinality(xp)
    <3>1. /\ stats.AXpLits \in Nat /\ stats.CXpLits \in Nat
          /\ stats'.AXpLits \in Nat /\ stats'.CXpLits \in Nat
      BY <1>0, <2>1, AddXpTyped DEF Counts
    <3> QED  BY <1>0, <2>2, <3>1 DEF Least
  <2>5. /\ stats.NSAT = Counted(stats) + 1
        /\ Least + 2 + 2 * Cardinality(xp) <= stats.NSIM
        /\ stats.NSIM <= Most + 2 * (NF + 1)
    BY <2>1 DEF EnumCost
  <2>6. /\ stats'.NSAT = Counted(stats)'
        /\ Least' <= stats'.NSIM /\ stats'.NSIM <= Most'
    BY <2>2, <2>3, <2>4, <2>5
  <2> QED  BY <2>1, <2>6 DEF EnumCost
<1>8. CASE Terminated \/ UNCHANGED vars
  BY <1>8 DEF Terminated, vars, EnumCost, Least, Most, Counted, PassedKept, Kept
<1>9. CASE StartAxp \/ StartCxp
  BY <1>9 DEF StartAxp, StartCxp
<1> QED
  BY <1>2, <1>3, <1>4, <1>5, <1>6, <1>7, <1>8, <1>9 DEF Next, Step

\* Answers have the price that is stated: two calls of the classifier for each
\* test, at least one test for each feature of an explanation and one more for
\* its box.
THEOREM CostCorrect == Spec => []OracleCost
<1>1. Init => CostInv
  BY SpaceAssumption
     DEF Init, CostInv, SingleCost, EnumCost, Least, Most, Counted, InitStats
<1>2. TypeOK /\ LoopInv /\ CostInv /\ [Next]_vars => CostInv'
  <2> SUFFICES ASSUME TypeOK, LoopInv, CostInv, [Next]_vars, opts.s PROVE CostInv'
    BY Frame DEF CostInv
  <2>1. opts' = opts
    BY Frame
  <2>2. pc' = "exit" => digest' = stats'
    BY DEF CostInv, Next, Step, StartAxp, StartCxp, StartEnum, WriteCnf,
       LeaveLoop, RunSolver, NoMoreModels, ReadModel, TestRef, SkipUniversal,
       TryUniversal, SkipFixed, TryFixed, ReturnXp, BlockXp, WriteXp,
       UpdateStats, CountXp, Exit, Interrupt, Terminated, vars, outVars
  <2> QED  BY <2>1, <2>2, SingleStep, EnumCostStep DEF CostInv
<1>3. TypeOK /\ CostInv => OracleCost
  BY DEF CostInv, SingleCost, EnumCost, Least, Most, OracleCost, TypeOK, Counted,
     Counts
<1> QED  BY <1>1, <1>2, <1>3, TypeCorrect, LoopsCorrect, PTL DEF Spec
=============================================================================
