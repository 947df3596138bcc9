----------------------------- MODULE HardCoded ------------------------------
(***************************************************************************)
(* The two classifiers written in HardCoded.pm (options -t RDT and -t GRD, *)
(* scripts rdtc and grdc): a decision tree for the bankruptcy risk data    *)
(* and a formula for the student grades.  The explanations of MonoXPs rest *)
(* on the classifier being monotone (Monotone of FeatureSpace); here it is *)
(* proved of these two, and where the tree is not monotone is shown.       *)
(***************************************************************************)
EXTENDS Integers, TLAPS

ite(a, b, c) == IF a THEN b ELSE c

max(a, b) == IF a >= b THEN a ELSE b

\* A point of n features; the code counts them from 0.
Point(n) == [0..(n - 1) -> Int]

Below(x, y, n) == \A i \in 0..(n - 1) : x[i] <= y[i]

\* What Perl takes for true, of a number.
Truthy(a) == a # 0

\* The features the tree tests are those numbered 4 to 8.
Rdt(x) ==
  ite(x[6] <= 3,
      ite(x[5] <= 1, ite(Truthy(x[4]), 1, ite(Truthy(x[7]), 1, 2)), 2),
      ite(x[8] <= 3, 2, 3))

\* The grades from F, counted 0, to A, counted 5, of a score S in units of
\* 1/Unit.
Grade(S, Unit) ==
  ite(S >= 9 * Unit, 5, ite(S >= 7 * Unit, 4, ite(S >= 5 * Unit, 3,
    ite(S >= 4 * Unit, 2, ite(S >= 2 * Unit, 1, 0)))))

\* The score.  The code computes in floating point: q, e and h are the numbers
\* written 0.3, 0.6 and 0.1 in units of 1/Unit, and round is applied to the
\* exact result of each operation.
Score(x, q, e, h, Unit, round) ==
  max(round[round[round[q * x[0]] + round[e * x[1]]] + round[h * x[2]]],
      Unit * x[3])

Grd(x, q, e, h, Unit, round) == Grade(Score(x, q, e, h, Unit, round), Unit)

\* Rounding keeps the order of numbers.
Rounding == {r \in [Int -> Int] : \A a, b \in Int : a <= b => r[a] <= r[b]}

-----------------------------------------------------------------------------
\* On data numbered from 1, as the benchmarks give it, the tree is monotone:
\* rdt_classifier tests feature 4 for being nonzero, which it then always is.
THEOREM RdtMonotone ==
  ASSUME NEW n \in Nat, n >= 9,
         NEW x \in Point(n), NEW y \in Point(n), Below(x, y, n),
         \A i \in 0..(n - 1) : x[i] >= 1
  PROVE  Rdt(x) <= Rdt(y)
<1>1. \A i \in {4, 5, 6, 7, 8} :
        x[i] \in Int /\ y[i] \in Int /\ x[i] <= y[i] /\ x[i] >= 1
  BY DEF Point, Below
<1> QED BY <1>1 DEF Rdt, ite, Truthy

\* On the same data shifted to start at 0, as rdtc_anchor.py shifts it, the
\* tree is not: there is a point that gets a lower class than one below it.
THEOREM RdtShiftedNotMonotone ==
  ASSUME NEW n \in Nat, n >= 9
  PROVE  \E x, y \in Point(n) :
           /\ \A i \in 0..(n - 1) : x[i] >= 0
           /\ Below(x, y, n) /\ Rdt(x) > Rdt(y)
<1> DEFINE x == [i \in 0..(n - 1) |-> 0]
           y == [i \in 0..(n - 1) |-> IF i = 7 THEN 1 ELSE 0]
<1>1. x \in Point(n) /\ y \in Point(n)
  BY DEF Point
<1>2. (\A i \in 0..(n - 1) : x[i] >= 0) /\ Below(x, y, n)
  BY DEF Below
<1>3. x[4] = 0 /\ x[5] = 0 /\ x[6] = 0 /\ x[7] = 0
  OBVIOUS
<1>4. y[4] = 0 /\ y[5] = 0 /\ y[6] = 0 /\ y[7] = 1
  OBVIOUS
<1>5. Rdt(x) = 2 /\ Rdt(y) = 1
  BY <1>3, <1>4 DEF Rdt, ite, Truthy
<1> QED BY <1>1, <1>2, <1>5

LEMMA ProductMonotone ==
  ASSUME NEW c \in Nat, NEW a \in Int, NEW b \in Int, a <= b
  PROVE  c * a \in Int /\ c * b \in Int /\ c * a <= c * b
<1>1. b - a \in Nat
  OBVIOUS
<1>2. \A d \in Nat : c * d \in Nat
  OBVIOUS
<1>3. c * b = c * a + c * (b - a)
  OBVIOUS
<1>4. c * a \in Int /\ c * b \in Int
  OBVIOUS
<1> QED BY <1>1, <1>2, <1>3, <1>4

\* A higher score is no lower grade.
LEMMA GradeMonotone ==
  ASSUME NEW Unit \in Nat \ {0}, NEW S \in Int, NEW T \in Int, S <= T
  PROVE  Grade(S, Unit) <= Grade(T, Unit)
  BY DEF Grade, ite

\* The grade is monotone in floating point too: rounding may put a point at
\* a threshold in the grade below, but never a point below one it precedes.
THEOREM GrdMonotone ==
  ASSUME NEW q \in Nat, NEW e \in Nat, NEW h \in Nat, NEW Unit \in Nat \ {0},
         NEW round \in Rounding,
         NEW x \in Point(4), NEW y \in Point(4), Below(x, y, 4)
  PROVE  Grd(x, q, e, h, Unit, round) <= Grd(y, q, e, h, Unit, round)
<1>1. \A i \in {0, 1, 2, 3} : x[i] \in Int /\ y[i] \in Int /\ x[i] <= y[i]
  BY DEF Point, Below
<1>2. \A a \in Int : round[a] \in Int
  BY DEF Rounding
<1>3. \A a, b \in Int : a <= b => round[a] <= round[b]
  BY DEF Rounding
<1>4. \A c \in Nat, i \in {0, 1, 2, 3} :
        c * x[i] \in Int /\ c * y[i] \in Int /\ c * x[i] <= c * y[i]
  BY <1>1, ProductMonotone
<1>5. \A c \in Nat, i \in {0, 1, 2, 3} :
        /\ round[c * x[i]] \in Int /\ round[c * y[i]] \in Int
        /\ round[c * x[i]] <= round[c * y[i]]
  BY <1>2, <1>3, <1>4
<1> DEFINE s(z) == round[q * z[0]] + round[e * z[1]]
           t(z) == round[s(z)] + round[h * z[2]]
<1>6. s(x) \in Int /\ s(y) \in Int /\ s(x) <= s(y)
  <2>1. /\ round[q * x[0]] \in Int /\ round[q * y[0]] \in Int
        /\ round[q * x[0]] <= round[q * y[0]]
    BY <1>5
  <2>2. /\ round[e * x[1]] \in Int /\ round[e * y[1]] \in Int
        /\ round[e * x[1]] <= round[e * y[1]]
    BY <1>5
  <2> QED BY <2>1, <2>2
<1>7. t(x) \in Int /\ t(y) \in Int /\ t(x) <= t(y)
  <2>1. /\ round[h * x[2]] \in Int /\ round[h * y[2]] \in Int
        /\ round[h * x[2]] <= round[h * y[2]]
    BY <1>5
  <2> HIDE DEF s
  <2>2. /\ round[s(x)] \in Int /\ round[s(y)] \in Int
        /\ round[s(x)] <= round[s(y)]
    BY <1>2, <1>3, <1>6
  <2> QED BY <2>1, <2>2
<1>8. round[t(x)] \in Int /\ round[t(y)] \in Int /\ round[t(x)] <= round[t(y)]
  <2> HIDE DEF t
  <2> QED BY <1>2, <1>3, <1>7
<1>9. Unit * x[3] \in Int /\ Unit * y[3] \in Int /\ Unit * x[3] <= Unit * y[3]
  BY <1>4
<1> DEFINE S(z) == max(round[t(z)], Unit * z[3])
<1>10. S(x) \in Int /\ S(y) \in Int /\ S(x) <= S(y)
  <2> HIDE DEF t
  <2> QED BY <1>8, <1>9 DEF max
<1>11. Grade(S(x), Unit) <= Grade(S(y), Unit)
  <2> HIDE DEF S
  <2> QED BY <1>10, GradeMonotone
<1> QED BY <1>11 DEF Grd, Score
=============================================================================
