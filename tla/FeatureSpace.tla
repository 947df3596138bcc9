---------------------------- MODULE FeatureSpace ----------------------------
(***************************************************************************)
(* The feature space of a monotonic classifier and the explanations of a   *)
(* prediction, as xmono's data describe them: a specification file gives   *)
(* the number of features with the lower and upper bound of each and the   *)
(* classes (Parsers.pm, parse_spec), a classifier maps a point to a class, *)
(* and an explanation is a set of feature identifiers.                     *)
(*                                                                         *)
(* Nothing here is a step of the program.  This is the reference the       *)
(* algorithms of MonoXPs are judged by.                                    *)
(***************************************************************************)
EXTENDS Integers

CONSTANTS
  NF,     \* $mxp->{NF}: the number of features
  Value,  \* the values a feature may be given, an ordered set of numbers
  Class,  \* the classes, ordered as numbers
  LBs,    \* $mxp->{LBs}: the lower bound of each feature
  UBs     \* $mxp->{UBs}: the upper bound of each feature

Feature == 1..NF

\* A line of parse_spec gives a feature its name and its two bounds.
ASSUME SpaceAssumption ==
  /\ NF \in Nat \ {0}
  /\ Value \subseteq Int
  /\ Class \subseteq Int
  /\ LBs \in [Feature -> Value]
  /\ UBs \in [Feature -> Value]
  /\ \A i \in Feature : LBs[i] <= UBs[i]

Point == [Feature -> Value]

\* The points within the bounds of the specification file.
Space == {x \in Point : \A i \in Feature : LBs[i] <= x[i] /\ x[i] <= UBs[i]}

Leq(x, y) == \A i \in Feature : x[i] <= y[i]

Monotone(k) == \A x, y \in Space : Leq(x, y) => k[x] <= k[y]

MonotoneClassifier == {k \in [Space -> Class] : Monotone(k)}

ConstantClassifier(k) == \A x, y \in Space : k[x] = k[y]

-----------------------------------------------------------------------------
(* Explanations of the prediction k[v]. *)

\* The points that agree with v on the features of X.
Region(v, X) == {x \in Space : \A i \in X : x[i] = v[i]}

\* Fixing the features of X to their values in v forces the prediction.
WeakAXp(k, v, X) == \A x \in Region(v, X) : k[x] = k[v]

\* Some change of the features of Y alone changes the prediction.
WeakCXp(k, v, Y) == \E x \in Region(v, Feature \ Y) : k[x] # k[v]

\* An abductive explanation is a subset-minimal weak one.
IsAXp(k, v, X) ==
  /\ X \subseteq Feature
  /\ WeakAXp(k, v, X)
  /\ \A Z \in SUBSET X : WeakAXp(k, v, Z) => Z = X

\* A contrastive explanation is a subset-minimal weak one.
IsCXp(k, v, Y) ==
  /\ Y \subseteq Feature
  /\ WeakCXp(k, v, Y)
  /\ \A Z \in SUBSET Y : WeakCXp(k, v, Z) => Z = Y

IsXp(k, v, type, X) == IF type = "AXp" THEN IsAXp(k, v, X) ELSE IsCXp(k, v, X)

XpType == {"AXp", "CXp"}

\* Every explanation of the prediction, tagged with its type.
AllXps(k, v) ==
  {e \in XpType \X SUBSET Feature : IsXp(k, v, e[1], e[2])}

\* H is a subset-minimal set that meets every member of Sets.
MinimalHittingSet(H, Sets) ==
  LET hits(h) == \A s \in Sets : h \cap s # {}
  IN  hits(H) /\ \A Z \in SUBSET H : hits(Z) => Z = H
=============================================================================
