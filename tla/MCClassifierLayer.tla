------------------------- MODULE MCClassifierLayer -------------------------
(***************************************************************************)
(* Small instances of ClassifierLayer for TLC.  Numbers are tenths, those  *)
(* of RealSetups millionths.                                               *)
(***************************************************************************)
EXTENDS ClassifierLayer

Plain(x) == [kind |-> "plain", val |-> x, mant |-> x]
Negative(x) == [kind |-> "negative", val |-> x, mant |-> 0]
Exponent(x, m) == [kind |-> "exponent", val |-> x, mant |-> m]

\* One feature that moves: three points in a row.
Chain == {<<0, 0>>, <<1, 0>>, <<2, 0>>}
\* Two features: every way two points can be unordered.
Grid == {<<0, 0>>, <<0, 1>>, <<1, 0>>, <<1, 1>>}

Classes == {0, 10, 20}

\* With -m only the classes matter, so each is printed as itself.
Levels == {Plain(0), Plain(10), Plain(20)}

\* The corners of classification: ties of the rounding, just below them, a
\* class between the listed ones, negative numbers, and none of the classes.
Numbers == {Negative(-3), Plain(0), Plain(5), Plain(14), Plain(15), Plain(26)}

WithLog(P, failing) ==
  {[points |-> P, Cls |-> Classes, net |-> n, fails |-> failing, m |-> TRUE] :
     n \in [P -> Levels]}

WithoutLog(N) ==
  {[points |-> Chain, Cls |-> c, net |-> n, fails |-> FALSE, m |-> FALSE] :
     n \in [Chain -> N], c \in {Classes, {10, 15, 30}}}

AllSetups == WithLog(Chain, TRUE) \cup WithLog(Chain, FALSE)
             \cup WithLog(Grid, FALSE) \cup WithoutLog(Numbers)
GridSetups == WithLog(Grid, FALSE)

\* The predictions 0, 7e-05 and 1.4, and the classes 0, 1 and 2.
Reals == {Plain(0), Exponent(70, 7000000), Plain(1400000)}
RealSetups ==
  {[points |-> Chain, Cls |-> {0, 1000000, 2000000}, net |-> n, fails |-> FALSE,
    m |-> FALSE] : n \in [Chain -> Reals]}
=============================================================================
