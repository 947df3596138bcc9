----------------------------- MODULE MCMonoXPs -----------------------------
(***************************************************************************)
(* Small instances of MonoXPs for TLC.                                     *)
(***************************************************************************)
EXTENDS MonoXPsProperties

\* Three features; the middle value of the second lies on neither bound.
LowerBounds == [i \in Feature |-> 0]
UpperBounds == [i \in Feature |-> IF i = 2 THEN 2 ELSE 1]

\* Every monotone classifier with two classes ...
TwoClasses == {k \in [Space -> {0, 1}] : Monotone(k)}

\* ... and some with three: a weighted score cut at two thresholds.
Score(x, w) == w[1] * x[1] + w[2] * x[2] + w[3] * x[3]
ThreeClasses ==
  {[x \in Space |-> IF Score(x, w) >= t[2] THEN 2
                    ELSE IF Score(x, w) >= t[1] THEN 1 ELSE 0] :
     w \in {<<1, 1, 1>>, <<2, 1, 3>>, <<1, 2, 0>>},
     t \in {<<1, 2>>, <<2, 4>>, <<1, 4>>}}

SomeClassifiers == TwoClasses \cup ThreeClasses

\* The lowest corner, a point on no bound of the second feature, and a corner
\* at mixed bounds.
SomeInstances == {<<0, 0, 0>>, <<0, 1, 1>>, <<1, 2, 0>>}

Opt(m, n, o, st, sig) == [mode |-> m, N |-> n, out |-> o, s |-> st, S |-> sig]

EnumOptions ==
  {Opt("enum", NoLimit, "w", TRUE, FALSE), Opt("enum", 3, "w", TRUE, TRUE)}
SingleOptions ==
  {Opt(m, NoLimit, "w", TRUE, g) : m \in {"A", "C"}, g \in BOOLEAN}
AllOptions == EnumOptions \cup SingleOptions
ZeroOptions == {Opt("enum", 0, "w", FALSE, FALSE)}
LiteralOptions ==
  {Opt(m, NoLimit, "l", FALSE, FALSE) : m \in {"A", "enum"}}
FullOptions == {Opt("enum", NoLimit, "w", FALSE, FALSE)}
=============================================================================
