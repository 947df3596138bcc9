---------------------------- MODULE MCSimpSolver ----------------------------
(***************************************************************************)
(* Small formulas for the SAT solver.                                      *)
(***************************************************************************)
EXTENDS SimpSolverProperties

\* Formulas over five variables, often with only four that matter.
\* No model: parity constraints that contradict each other.
Parities == <<{1, 2, 3}, {1, -2, -3}, {-1, 2, -3}, {-1, -2, 3},
              {1, 2, 4}, {1, -2, -4}, {-1, 2, -4}, {-1, -2, 4},
              {3, 4}, {-3, -4}, {5}>>
\* No model, and no clause is a unit.
Knot == <<{1, 2}, {1, -2, 3}, {-1, 3, 4}, {-1, -3}, {-3, 2}, {-1, -4},
          {-2, -3, 4}, {-3, -4}, {-2, 1}, {5}>>
\* Units, tautologies and repeated clauses.
Units == <<{1}, {-1, 2}, {2, -3, 4}, {4, -4, 1}, {-2, 3, 4}, {-2, 3, 4}, {5, -1}>>
\* One model.
Single == <<{1, 2, 3}, {-1, 2, 4}, {-2, 3, 4}, {-3, 1, -4}, {-4, -1}, {-3, -2},
            {1, 4}, {5}>>
\* What xmono writes: blocking clauses of explanations.
Blocking == <<{1, 2}, {-1, -3, -4}, {-2, -3}, {1, 3, 4}, {2, 4}, {5, -1}>>
\* A clause that subsumption shortens twice.
Shorten == <<{1, 2, 3, 4}, {1, 2, 3, -4}, {-1, 2, 3}, {-2, 3}, {-3, 4, 1}, {5}>>
\* A clause that is already false when it is read.
Contradiction == <<{1}, {2, 4}, {3, -1}, {-3, -1}, {2, -2, 4}, {4, 5}>>
\* A learnt clause with a literal whose reason is half in the clause.
Minimise == <<{-3, 2, 1}, {4, 2, 3, 5}, {4, 2, 3, -5}, {-1, -4}, {-2, -4}>>
\* Learnt clauses that are removed while others are reasons, and restarts
\* after which the forced phase is not the saved one.
Reduce == <<{-5, -4, 2}, {-5, -2}, {1, 5, -4}, {-2, 3}, {5, 2, 4}, {-2, -5, 4}>>
\* A clause that is shortened twice after two of its literals became false.
Twice == <<{-3, -5}, {-3, 5}, {-4, -5}, {-4, 5}, {-1, 3, 5}, {-2, 3, 5},
           {1, 2, 3, 4, 5}>>

Run(f, b, s) == [formula |-> f, pre |-> b, signals |-> s]

\* Signals at any time in the smaller ones.
AllSetups ==
  {Run(f, TRUE, TRUE) :
     f \in {Knot, Units, Single, Blocking, Contradiction, Minimise, Twice}}
  \cup {Run(f, TRUE, FALSE) : f \in {Parities, Shorten, Reduce}}
  \cup {Run(f, FALSE, TRUE) : f \in {Knot, Units, Single, Blocking, Contradiction}}
  \cup {Run(f, FALSE, FALSE) : f \in {Parities, Reduce}}

\* A signal while that formula is simplified.
TwiceSetup == {Run(Twice, TRUE, TRUE)}
=============================================================================
