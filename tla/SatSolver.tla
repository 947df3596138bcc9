----------------------------- MODULE SatSolver ------------------------------
(***************************************************************************)
(* The search of the SAT solver xmono runs (glucose, core/Solver.cc):      *)
(* unit propagation with two watched literals, conflict analysis, back-    *)
(* jumping, restarts and the reduction of the clause database.  Module     *)
(* SimpSolver adds the simplification of the formula and the main program. *)
(*                                                                         *)
(* Clauses are sets of literals with the pair that is watched.  The orders *)
(* the code gets from activities and the layout of its lists are left      *)
(* open: any watched clause may be visited next, any variable be decided.  *)
(* The phase of a decision is the saved one, at first false, and after a   *)
(* restart the one the variable had in the last conflicts (-forceunsat).   *)
(* propagate() is one action per clause visited, analyze() one per         *)
(* resolution.  Left out: what starts after 10000 conflicts or more        *)
(* (blocked restarts, adaptSolver) and the unary watches of the parallel   *)
(* solver.                                                                 *)
(***************************************************************************)
EXTENDS Integers, Sequences, FiniteSets

CONSTANTS
  NV,           \* number of variables
  RestartGap,   \* least number of conflicts between two restarts (lbdQueue)
  MaxReduce,    \* bound: how often reduceDB runs
  MinimizeSize, MinimizeLBD   \* lbSizeMinimizingClause, lbLBDMinimizingClause

ASSUME SolverAssumption ==
  /\ NV \in Nat
  /\ RestartGap \in Nat \ {0} /\ MaxReduce \in Nat
  /\ MinimizeSize \in Nat /\ MinimizeLBD \in Nat

Variable == 1..NV
Lit == {l \in -NV..NV : l # 0}
Clause == SUBSET Lit

Vars(c) == {v \in Variable : v \in c \/ -v \in c}

VARIABLES
  pc,             \* where the program is
  ret,            \* where propagate() was called from
  clauses,        \* problem clauses, as attached: [lits, watch]
  learnts,        \* learnt clauses, as attached
  trail,          \* assigned literals in order: [lit, level, from]
  decisionLevel,
  qhead,          \* how much of the trail has been propagated
  polarity,       \* saved phases: the variables last assigned true
  todo,           \* clauses still to visit for the literal at qhead
  out_learnt,     \* the conflict clause, and the clause analysed so far
  since,          \* conflicts since the last restart, up to RestartGap
  reduced,        \* calls of reduceDB
  remove_satisfied,
  simpDB_assigns, \* size of the trail at the last simplify(), -1 if none
  newDescent,     \* no conflict since the last restart
  forceUNSAT,     \* literals that were true in the last conflicts
  asynch_interrupt

dbVars == <<clauses, learnts>>
trailVars == <<trail, decisionLevel, qhead, polarity>>
searchVars == <<since, reduced, remove_satisfied, simpDB_assigns, newDescent,
                forceUNSAT>>
coreVars == <<pc, ret, dbVars, trailVars, todo, out_learnt, searchVars,
              asynch_interrupt>>

DB == clauses \cup learnts

\* A clause with the pair of literals that is watched.
Attached(c, w) == [lits |-> c, watch |-> w]

\* The reason of a decision or of a unit clause (CRef_Undef).
NoReason == {}

Entry(l, k, c) == [lit |-> l, level |-> k, from |-> c]

True(l) == \E i \in 1..Len(trail) : trail[i].lit = l
False(l) == True(-l)
Undef(l) == ~True(l) /\ ~False(l)

LevelIs(l, k) ==
  \E i \in 1..Len(trail) : trail[i].lit \in {l, -l} /\ trail[i].level = k

\* Some literals of c are assigned at a level above 0.
AboveRoot(c) == {l \in c : ~LevelIs(l, 0)}

AtLevel(c, k) == {l \in c : LevelIs(l, k)}

\* The levels of the literals of c.
Levels(c) == {k \in 0..decisionLevel : AtLevel(c, k) # {}}

-----------------------------------------------------------------------------
(* cancelUntil: the trail is cut to its first n entries, those of level k  *)
(* and below.                                                              *)

CutsTo(n, k) ==
  /\ \A i \in 1..n : trail[i].level <= k
  /\ n < Len(trail) => trail[n + 1].level > k

\* The values that are undone are saved for later decisions.
PolarityAfter(n) ==
  LET undone == {trail[i].lit : i \in (n + 1)..Len(trail)} IN
  {v \in Variable : v \in undone \/ (v \in polarity /\ -v \notin undone)}

\* Faulty variant: nothing remains to be propagated at the lower level.
QheadKept(n, k) == n + 1

\* The place of qhead after a cut to n entries, at level k.
QheadAt(n, k) == IF decisionLevel > k THEN n ELSE qhead

-----------------------------------------------------------------------------
(* propagate.  p is the literal being propagated, c a clause that watches  *)
(* its negation.                                                           *)

p == trail[qhead].lit

IsBinary(c) == Cardinality(c.lits) = 2

\* Binary clauses come first.
Visitable(c) == IsBinary(c) \/ \A d \in todo : ~IsBinary(d)

\* Faulty variant: the new watch need not be checked.
MayWatchAny(l) == TRUE

\* The new watch: a literal that is not false.
MayWatch(l) == ~False(l)

Rewatch(S, c, d) == IF c \in S THEN (S \ {c}) \cup {d} ELSE S

\* Trail[qhead++]: look up the clauses that watch the literal.
PropagateNext ==
  /\ pc = "propagate" /\ todo = {} /\ qhead < Len(trail)
  /\ qhead' = qhead + 1
  /\ todo' = {c \in DB : -trail[qhead + 1].lit \in c.watch}
  /\ UNCHANGED <<pc, ret, dbVars, trail, decisionLevel, polarity,
                 out_learnt, searchVars, asynch_interrupt>>

\* The blocker or the other watch is true.
SkipClause ==
  /\ pc = "propagate"
  /\ \E c \in todo :
       /\ Visitable(c)
       /\ \E l \in c.lits : True(l)
       /\ todo' = todo \ {c}
  /\ UNCHANGED <<pc, ret, dbVars, trailVars, out_learnt, searchVars,
                 asynch_interrupt>>

\* Another literal is watched instead.
MoveWatch ==
  /\ pc = "propagate"
  /\ \E c \in todo : \E o \in c.watch \ {-p}, l \in c.lits \ c.watch :
       /\ Visitable(c)
       /\ ~True(o) /\ MayWatch(l)
       /\ clauses' = Rewatch(clauses, c, Attached(c.lits, {o, l}))
       /\ learnts' = Rewatch(learnts, c, Attached(c.lits, {o, l}))
       /\ todo' = todo \ {c}
  /\ UNCHANGED <<pc, ret, trailVars, out_learnt, searchVars, asynch_interrupt>>

\* The clause is unit.
EnqueueUnit ==
  /\ pc = "propagate"
  /\ \E c \in todo : \E o \in c.watch \ {-p} :
       /\ Visitable(c)
       /\ Undef(o) /\ \A l \in c.lits \ {o} : False(l)
       /\ trail' = Append(trail, Entry(o, decisionLevel, c.lits))
       /\ todo' = todo \ {c}
  /\ UNCHANGED <<pc, ret, dbVars, decisionLevel, qhead, polarity,
                 out_learnt, searchVars, asynch_interrupt>>

\* The clause is false.  A binary one is returned at once; for a longer one
\* the propagation queue is emptied first.
ConflictFound ==
  /\ pc = "propagate"
  /\ \E c \in todo :
       /\ Visitable(c)
       /\ \A l \in c.lits : False(l)
       /\ out_learnt' = c.lits
       /\ qhead' = IF IsBinary(c) THEN qhead ELSE Len(trail)
  /\ todo' = {}
  /\ pc' = "conflict"
  /\ UNCHANGED <<ret, dbVars, trail, decisionLevel, polarity,
                 searchVars, asynch_interrupt>>

\* The propagation queue is empty: back to the caller.
PropagateDone ==
  /\ pc = "propagate" /\ todo = {} /\ qhead = Len(trail)
  /\ pc' = ret
  /\ UNCHANGED <<ret, dbVars, trailVars, todo, out_learnt, searchVars,
                 asynch_interrupt>>

-----------------------------------------------------------------------------
(* analyze. *)

\* bumpForceUNSAT for the literals of c, which are false: their negations are
\* the phases to come back to.
Bumped(c) == (forceUNSAT \ c) \cup {-l : l \in c}

\* A conflict above the root: literals of level 0 are left out.
StartAnalyze ==
  /\ pc = "conflict" /\ decisionLevel > 0
  /\ out_learnt' = AboveRoot(out_learnt)
  /\ forceUNSAT' = Bumped(AboveRoot(out_learnt))
  /\ newDescent' = FALSE
  /\ since' = IF since < RestartGap THEN since + 1 ELSE since
  /\ pc' = "analyze"
  /\ UNCHANGED <<ret, dbVars, trailVars, todo, reduced, remove_satisfied,
                 simpDB_assigns, asynch_interrupt>>

\* While more than one literal is of the current level, the last one assigned
\* is resolved with its reason, which exists.
Resolve ==
  /\ pc = "analyze"
  /\ Cardinality(AtLevel(out_learnt, decisionLevel)) > 1
  /\ \E i \in 1..Len(trail) :
       LET e == trail[i] IN
       /\ -e.lit \in out_learnt
       /\ \A j \in (i + 1)..Len(trail) : -trail[j].lit \notin out_learnt
       /\ e.from # NoReason
       /\ out_learnt' = (out_learnt \ {-e.lit}) \cup AboveRoot(e.from \ {e.lit})
       /\ forceUNSAT' = Bumped(AboveRoot(e.from \ {e.lit}))
  /\ UNCHANGED <<pc, ret, dbVars, trailVars, todo, since, reduced,
                 remove_satisfied, simpDB_assigns, newDescent, asynch_interrupt>>

\* Faulty variant: one literal of the reason decides.
SupportedSome(T) ==
  \A l \in T : \E i \in 1..Len(trail) :
    /\ trail[i].lit = -l /\ trail[i].from # NoReason
    /\ \E q \in trail[i].from \ {-l} :
         LevelIs(q, 0) \/ q \in out_learnt \/ q \in T

\* Every literal of T is false by a reason whose other literals are of level
\* 0, in the clause, or in T.
Supported(T) ==
  \A l \in T : \E i \in 1..Len(trail) :
    /\ trail[i].lit = -l /\ trail[i].from # NoReason
    /\ \A q \in trail[i].from \ {-l} :
         LevelIs(q, 0) \/ q \in out_learnt \/ q \in T

\* What litRedundant finds: reasons precede their literals on the trail, so
\* the search through them decides the greatest such set.
Redundant ==
  UNION {T \in SUBSET {-trail[i].lit : i \in 1..Len(trail)} : Supported(T)}

\* The clause without redundant literals, for the asserting literal u.
Minimized(u) == {u} \cup (out_learnt \ Redundant)

\* minimisationWithBinaryResolution, for small clauses of few levels.
BinaryMinimized(u, c) ==
  IF Cardinality(c) <= MinimizeSize /\ Cardinality(Levels(c)) <= MinimizeLBD
  THEN {l \in c : l = u \/ \A d \in DB : d.lits # {u, -l}}
  ELSE c

\* The literals of the backjump level k, one of which is watched.
Second(c, u, k) == AtLevel(c \ {u}, k)

\* k is the greatest level in c, or 0.
IsBackjump(c, k) ==
  IF c = {} THEN k = 0
  ELSE /\ AtLevel(c, k) # {}
       /\ \A j \in (k + 1)..decisionLevel : AtLevel(c, j) = {}

\* One literal u of the current level is left: minimise the clause, jump back,
\* attach it, and assert u.
Learn ==
  /\ pc = "analyze"
  /\ \E u \in out_learnt, k \in 0..decisionLevel, n \in 0..Len(trail) :
       /\ AtLevel(out_learnt, decisionLevel) = {u}
       /\ LET c == BinaryMinimized(u, Minimized(u)) IN
            /\ IsBackjump(c \ {u}, k) /\ CutsTo(n, k)
            /\ trail' = Append(SubSeq(trail, 1, n),
                               Entry(u, k, IF c = {u} THEN NoReason ELSE c))
            /\ IF c = {u} THEN UNCHANGED learnts
               ELSE \E l \in Second(c, u, k) :
                      learnts' = learnts \cup {Attached(c, {u, l})}
            /\ out_learnt' = c
       /\ qhead' = QheadAt(n, k) /\ polarity' = PolarityAfter(n)
       /\ decisionLevel' = k
  /\ ret' = "search" /\ pc' = "propagate"
  /\ UNCHANGED <<clauses, todo, searchVars, asynch_interrupt>>

-----------------------------------------------------------------------------
(* The rest of search: nothing is left to propagate. *)

Satisfied(c) == \E l \in c.lits : True(l)

\* Faulty variant: a reason may be removed.
RemovableAny(c) == ~IsBinary(c)

\* reduceDB keeps binary clauses and those that are the reason of a literal.
Removable(c) ==
  /\ ~IsBinary(c)
  /\ \A i \in 1..Len(trail) : trail[i].from # c.lits

\* simplify() at level 0: satisfied clauses go, when literals have been
\* assigned since the last time; a budget of propagations may put it off.
MaySimplify == decisionLevel = 0 /\ Len(trail) # simpDB_assigns

Unsatisfied(S) == {c \in S : ~Satisfied(c)}

\* reduceDB removes the clauses gone from ls, at most half of them.
MayReduce(ls, gone) ==
  /\ gone # {} => reduced < MaxReduce
  /\ gone \subseteq ls
  /\ 2 * Cardinality(gone) <= Cardinality(ls)

\* Faulty variant: the average is used before the queue is full again.
MayRestartAlways == TRUE

\* The queue of the last clauses' LBDs is full and its average is high.
MayRestart == since = RestartGap

\* Back to level 0; solve_ calls search again, unless interrupted.
Restart ==
  /\ pc = "search" /\ MayRestart
  /\ \E n \in 0..Len(trail) :
       /\ CutsTo(n, 0) /\ trail' = SubSeq(trail, 1, n)
       /\ qhead' = QheadAt(n, 0) /\ polarity' = PolarityAfter(n)
  /\ decisionLevel' = 0
  /\ since' = 0 /\ newDescent' = TRUE
  /\ pc' = IF asynch_interrupt THEN "interrupted" ELSE "propagate"
  /\ ret' = "search"
  /\ UNCHANGED <<dbVars, todo, out_learnt, reduced, remove_satisfied,
                 simpDB_assigns, forceUNSAT, asynch_interrupt>>

\* pickBranchLit's literal of v: after a restart, and until the next conflict,
\* the phase v had in the last conflict it took part in; else the saved phase.
Phase(v) ==
  LET phases == IF newDescent /\ forceUNSAT \cap {v, -v} # {}
                THEN forceUNSAT ELSE polarity
  IN IF v \in phases THEN v ELSE -v

\* Simplify and reduce if it is time to, and decide a variable of D: a new
\* level.
Decide(D) ==
  /\ pc = "search"
  /\ \E simplify \in BOOLEAN, gone \in SUBSET {c \in learnts : Removable(c)} :
       LET ls == IF simplify THEN Unsatisfied(learnts) ELSE learnts IN
       /\ simplify => MaySimplify
       /\ MayReduce(ls, gone)
       /\ learnts' = ls \ gone
       /\ clauses' = IF simplify /\ remove_satisfied
                     THEN Unsatisfied(clauses) ELSE clauses
       /\ reduced' = IF gone = {} THEN reduced ELSE reduced + 1
       /\ simpDB_assigns' = IF simplify THEN Len(trail) ELSE simpDB_assigns
  /\ \E v \in D :
       /\ Undef(v)
       /\ trail' = Append(trail, Entry(Phase(v), decisionLevel + 1, NoReason))
  /\ decisionLevel' = decisionLevel + 1
  /\ ret' = "search" /\ pc' = "propagate"
  /\ UNCHANGED <<qhead, polarity, todo, out_learnt, since, remove_satisfied,
                 newDescent, forceUNSAT, asynch_interrupt>>

\* Every variable of D is assigned: a model.
AllAssigned(D) ==
  /\ pc = "search"
  /\ \A v \in D : ~Undef(v)
  /\ pc' = "model"
  /\ UNCHANGED <<ret, dbVars, trailVars, todo, out_learnt, searchVars,
                 asynch_interrupt>>
=============================================================================
