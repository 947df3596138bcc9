------------------------ MODULE SimpSolverProperties ------------------------
(***************************************************************************)
(* What the SAT solver promises, and the invariants it lives by.           *)
(***************************************************************************)
EXTENDS SimpSolver

Assignment == [Variable -> BOOLEAN]

Holds(A, l) == IF l > 0 THEN A[l] ELSE ~A[-l]

Satisfies(A, c) == \E l \in c : Holds(A, l)

\* A satisfies every clause of the file.
Solves(A) == \A i \in 1..Len(run.formula) : Satisfies(A, run.formula[i])

Models == {A \in Assignment : Solves(A)}

AttachedType(c) ==
  /\ c.lits \in Clause /\ c.watch \subseteq c.lits /\ Cardinality(c.watch) = 2

\* The types of the variables.
TypeOK ==
  /\ run \in Setup
  /\ \A c \in DB : AttachedType(c)
  /\ todo \subseteq DB
  /\ \A i \in 1..Len(trail) :
       trail[i].lit \in Lit /\ trail[i].level \in 0..decisionLevel
                            /\ trail[i].from \in Clause
  /\ qhead \in 0..Len(trail)
  /\ out_learnt \in Clause
  /\ newDescent \in BOOLEAN
  /\ forceUNSAT \in Clause /\ ~Tautology(forceUNSAT)
  /\ eliminated \subseteq Variable /\ elim_heap \subseteq Variable
  /\ \A i, j \in 1..Len(trail) :
       i # j => trail[i].lit \notin {trail[j].lit, -trail[j].lit}

\* "UNSATISFIABLE" is printed only of a formula without a model.
UnsatSound ==
  answer = "UNSATISFIABLE" => Models = {}

\* Whatever the simplification removed, shortened and resolved, and whatever
\* the search learnt and forgot, each clause the solver holds follows from the
\* file, and so does "UNSATISFIABLE".
Soundness ==
  /\ \A A \in Models : \A c \in DB : Satisfies(A, c.lits)
  /\ UnsatSound

\* "If problem is satisfiable, this vector contains the model" (Solver.h:192):
\* the model printed satisfies the file.
ModelOfFile ==
  answer = "SATISFIABLE" => Solves([v \in Variable |-> v \in model])

\* The literal is false at level 0.
FalseAtRoot(l) == \E i \in 1..Len(trail) : trail[i].lit = -l /\ trail[i].level = 0

\* A signal cut the simplification short, and both watches of some clause were
\* false by then.  strengthenClause attaches a clause again without looking at
\* the values of its literals, and leaves the rest to the queue, which the
\* signal empties: nothing visits such a clause any more.
CutShort ==
  asynch_interrupt /\ \E c \in clauses : \A l \in c.watch : FalseAtRoot(l)

\* The model printed gives every variable of the file one value and satisfies
\* every clause of the file, unless a signal has cut the simplification short.
SatSound ==
  answer = "SATISFIABLE" /\ ~CutShort =>
    /\ \A v \in Variable : v \in model <=> -v \notin model
    /\ ModelOfFile

\* When propagate() returns to search() without a conflict, the watches have
\* missed no clause that is false, nor one that is unit, unless a signal came
\* and the clause has been watched at a false literal since the simplification.
PropagationComplete ==
  pc = "search" =>
    \A c \in DB : \/ \E l \in c.lits : True(l)
                  \/ Cardinality({l \in c.lits : Undef(l)}) >= 2
                  \/ asynch_interrupt /\ \E l \in c.watch : FalseAtRoot(l)

\* The reason of a literal above level 0 is a clause that is still there, and
\* of its literals only that one is true.
ReasonsKept ==
  \A i \in 1..Len(trail) :
    LET e == trail[i] IN
    e.level > 0 /\ e.from # NoReason =>
      /\ \E c \in DB : c.lits = e.from
      /\ e.lit \in e.from
      /\ \A l \in e.from \ {e.lit} : \E j \in 1..(i - 1) : trail[j].lit = -l

\* What is learnt is new: no clause, learnt or of the problem, is part of it.
LearntIsNew ==
  [][pc = "analyze" /\ pc' = "propagate" =>
       \A c \in DB : ~(c.lits \subseteq out_learnt')]_vars

\* Outside eliminateVar no clause mentions an eliminated variable, and none
\* is ever decided.
EliminatedGone ==
  /\ elimvar = 0 =>
       \A c \in DB : Vars(c.lits) \cap eliminated = {}
  /\ \A i \in 1..Len(trail) :
       trail[i].level > 0 => trail[i].lit \notin eliminated
                             /\ -trail[i].lit \notin eliminated

\* The solver answers.
Termination == <>(pc = "done")
=============================================================================
