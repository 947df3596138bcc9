----------------------------- MODULE SimpSolver -----------------------------
(***************************************************************************)
(* The SAT solver as xmono runs it: simp/Main.cc reads a formula, lets     *)
(* SimpSolver::eliminate remove subsumed clauses, literals and variables,  *)
(* runs the search of SatSolver on what is left, extends the model to the  *)
(* variables that were eliminated, and prints an answer.  A signal may     *)
(* arrive at any time.                                                     *)
(*                                                                         *)
(* The options are the default ones (elim; no asymm, no rcheck) except     *)
(* that -no-pre is allowed.  Grow and ClauseLim are -grow and -cl-lim.     *)
(***************************************************************************)
EXTENDS SatSolver

CONSTANTS
  Setup,           \* the runs considered, see SetupType
  Grow, ClauseLim  \* limits on the elimination of a variable

\* A run: the clauses of the file, the option -pre, and whether SIGINT comes.
SetupType == [formula : Seq(Clause), pre : BOOLEAN, signals : BOOLEAN]

ASSUME RunAssumption ==
  /\ Setup \subseteq SetupType
  /\ Grow \in Nat /\ ClauseLim \in Nat

VARIABLES
  run,          \* the run's setup
  input,        \* what parse_DIMACS has not read yet
  touched,      \* variables in clauses that are new
  queue,        \* subsumption_queue
  elim_heap,    \* variables to try to eliminate
  eliminated,   \* variables eliminated
  elimclauses,  \* what extendModel needs, see Eliminate
  bwdsub_assigns, \* how many literals of the trail were used for subsumption
  cur,          \* the clause of the queue being used
  elimvar,      \* the variable being eliminated, 0 if none
  adding,       \* resolvents still to add
  left,         \* entries of elimclauses extendModel has still to read
  model,        \* the model, as the set of its true literals
  answer        \* what is printed

simpVars == <<touched, queue, elim_heap, eliminated, elimclauses,
              bwdsub_assigns, cur, elimvar, adding>>
outVars == <<left, model, answer>>
vars == <<coreVars, run, input, simpVars, outVars>>

-----------------------------------------------------------------------------
(* Clauses. *)

Tautology(c) == \E l \in c : -l \in c

\* The order in which addClause_ sorts literals.
Key(l) == IF l > 0 THEN 2 * l ELSE 1 - 2 * l

\* The first two literals of c, which are watched.
FirstTwo(c, w) ==
  \E a, b \in c : /\ a # b /\ w = {a, b}
                  /\ \A l \in c \ w : Key(a) < Key(l) /\ Key(b) < Key(l)

Occurs(v) == {c \in clauses : v \in Vars(c.lits)}

\* updateElimHeap for the variables of S.
HeapWith(S) == elim_heap \cup {v \in S : v \notin eliminated /\ Undef(v)}

\* The enqueueing of a unit clause at level 0.
Assert(l) == Append(trail, Entry(l, 0, NoReason))

-----------------------------------------------------------------------------
Init ==
  /\ run \in Setup
  /\ input = run.formula
  /\ pc = "parse" /\ ret = "parse"
  /\ clauses = {} /\ learnts = {}
  /\ trail = <<>> /\ decisionLevel = 0 /\ qhead = 0 /\ polarity = {}
  /\ todo = {} /\ out_learnt = {}
  /\ since = 0 /\ reduced = 0
  /\ remove_satisfied = FALSE /\ simpDB_assigns = -1
  /\ newDescent = FALSE /\ forceUNSAT = {}
  /\ asynch_interrupt = FALSE
  /\ touched = {} /\ queue = {}
  /\ elim_heap = (IF run.pre THEN Variable ELSE {})
  /\ eliminated = {} /\ elimclauses = <<>>
  /\ bwdsub_assigns = 0
  /\ cur = {} /\ elimvar = 0 /\ adding = {}
  /\ left = 0 /\ model = {} /\ answer = "none"

-----------------------------------------------------------------------------
(* addClause_ of clause c, called where pc is. *)

Remaining(c) == {l \in c : ~False(l)}

\* A tautology, or satisfied already.
AddNothing(c) ==
  /\ Tautology(c) \/ \E l \in c : True(l)
  /\ UNCHANGED <<pc, ret, clauses, trail, touched, queue, answer>>

\* Literals that are false at level 0 are removed, and none is left.
AddEmpty(c) ==
  /\ Remaining(c) = {}
  /\ pc' = "done" /\ answer' = "UNSATISFIABLE"
  /\ UNCHANGED <<ret, clauses, trail, touched, queue>>

AddUnit(c) ==
  /\ ~Tautology(c)
  /\ \E l \in c : Undef(l) /\ Remaining(c) = {l} /\ trail' = Assert(l)
  /\ ret' = pc /\ pc' = "propagate"
  /\ UNCHANGED <<clauses, touched, queue, answer>>

AddLong(c) ==
  /\ ~Tautology(c) /\ \A l \in c : ~True(l)
  /\ \E w \in SUBSET Remaining(c) :
       /\ FirstTwo(Remaining(c), w)
       /\ clauses' = clauses \cup {Attached(Remaining(c), w)}
  /\ IF run.pre
     THEN touched' = touched \cup Vars(Remaining(c))
          /\ queue' = queue \cup {Remaining(c)}
     ELSE UNCHANGED <<touched, queue>>
  /\ UNCHANGED <<pc, ret, trail, answer>>

AddClause(c) == AddNothing(c) \/ AddEmpty(c) \/ AddUnit(c) \/ AddLong(c)

-----------------------------------------------------------------------------
(* parse_DIMACS and main. *)

ReadClause ==
  /\ pc = "parse" /\ input # <<>>
  /\ input' = Tail(input)
  /\ AddClause(Head(input))
  /\ UNCHANGED <<run, learnts, decisionLevel, qhead, polarity, todo, out_learnt,
                 searchVars, asynch_interrupt, elim_heap, eliminated,
                 elimclauses, bwdsub_assigns, cur, elimvar, adding, left, model>>

\* The file is read: simplify it or not, then solve_.
ParseDone ==
  /\ pc = "parse" /\ input = <<>>
  /\ pc' = IF run.pre THEN "eliminate" ELSE "propagate"
  /\ ret' = "search"
  /\ simpDB_assigns' = IF run.pre THEN Len(trail) ELSE simpDB_assigns
  /\ UNCHANGED <<run, input, dbVars, trailVars, todo, out_learnt, since, reduced,
                 remove_satisfied, newDescent, forceUNSAT, asynch_interrupt,
                 simpVars, outVars>>

\* A conflict at level 0: ok becomes false, and the answer is printed.
ConflictAtRoot ==
  /\ pc = "conflict" /\ decisionLevel = 0
  /\ pc' = "done" /\ answer' = "UNSATISFIABLE"
  /\ newDescent' = FALSE
  /\ UNCHANGED <<run, input, ret, dbVars, trailVars, todo, out_learnt, since,
                 reduced, remove_satisfied, simpDB_assigns, forceUNSAT,
                 asynch_interrupt, simpVars, left, model>>

Parsing == pc = "parse" \/ (pc \in {"propagate", "conflict"} /\ ret = "parse")

\* SIGINT: while the file is read the program exits at once (SIGINT_exit),
\* later it is asked to stop (SIGINT_interrupt).
Interrupt ==
  /\ run.signals /\ ~asynch_interrupt /\ pc # "done"
  /\ IF Parsing THEN pc' = "done" /\ answer' = "killed"
                ELSE UNCHANGED <<pc, answer>>
  /\ asynch_interrupt' = TRUE
  /\ UNCHANGED <<run, input, ret, dbVars, trailVars, todo, out_learnt,
                 searchVars, simpVars, left, model>>

\* search gave up, and the budget says stop.
PrintIndeterminate ==
  /\ pc = "interrupted"
  /\ pc' = "done" /\ answer' = "INDETERMINATE"
  /\ UNCHANGED <<run, input, ret, dbVars, trailVars, todo, out_learnt,
                 searchVars, asynch_interrupt, simpVars, left, model>>

-----------------------------------------------------------------------------
(* eliminate: its main loop. *)

\* There is something to do: gatherTouchedClauses.
GatherTouched ==
  /\ pc = "eliminate"
  /\ touched # {} \/ bwdsub_assigns < Len(trail) \/ elim_heap # {}
  /\ queue' = queue \cup {c.lits : c \in {d \in clauses : Vars(d.lits) \cap touched # {}}}
  /\ touched' = {}
  /\ pc' = "subsume"
  /\ UNCHANGED <<run, input, ret, dbVars, trailVars, todo, out_learnt,
                 searchVars, asynch_interrupt, elim_heap, eliminated,
                 elimclauses, bwdsub_assigns, cur, elimvar, adding, outVars>>

\* cleanup: from now on simplify() may remove problem clauses.
EliminateDone ==
  /\ pc = "eliminate"
  /\ touched = {} /\ bwdsub_assigns = Len(trail) /\ elim_heap = {}
  /\ remove_satisfied' = TRUE
  /\ pc' = "propagate" /\ ret' = "search"
  /\ UNCHANGED <<run, input, dbVars, trailVars, todo, out_learnt, since, reduced,
                 simpDB_assigns, newDescent, forceUNSAT, asynch_interrupt,
                 simpVars, outVars>>

-----------------------------------------------------------------------------
(* backwardSubsumptionCheck. *)

SubsumeInterrupted ==
  /\ pc = "subsume" /\ cur = {} /\ asynch_interrupt
  /\ queue' = {} /\ bwdsub_assigns' = Len(trail)
  /\ pc' = "vars"
  /\ UNCHANGED <<run, input, ret, dbVars, trailVars, todo, out_learnt,
                 searchVars, asynch_interrupt, touched, elim_heap, eliminated,
                 elimclauses, cur, elimvar, adding, outVars>>

\* The next clause of the queue, unless it has been removed.
PopQueue ==
  /\ pc = "subsume" /\ cur = {} /\ ~asynch_interrupt
  /\ \E c \in queue :
       /\ queue' = queue \ {c}
       /\ cur' = IF \E d \in clauses : d.lits = c THEN c ELSE {}
  /\ UNCHANGED <<run, input, coreVars, touched, elim_heap, eliminated,
                 elimclauses, bwdsub_assigns, elimvar, adding, outVars>>

\* The queue is empty: a new literal of level 0 serves as a clause.
PopAssign ==
  /\ pc = "subsume" /\ cur = {} /\ ~asynch_interrupt
  /\ queue = {} /\ bwdsub_assigns < Len(trail)
  /\ bwdsub_assigns' = bwdsub_assigns + 1
  /\ cur' = {trail[bwdsub_assigns + 1].lit}
  /\ UNCHANGED <<run, input, coreVars, touched, queue, elim_heap, eliminated,
                 elimclauses, elimvar, adding, outVars>>

\* Clause d, not cur itself, contains cur.
Subsumed(d) ==
  cur \subseteq d.lits /\ (d.lits = cur => \E e \in clauses \ {d} : e.lits = cur)

\* Clause d contains cur but for the sign of l.
Strengthens(l, d) == l \in cur /\ (cur \ {l}) \cup {-l} \subseteq d.lits

\* strengthenClause(d, ~l).
Without(d, l) == d.lits \ {-l}

RemoveSubsumed ==
  /\ pc = "subsume" /\ cur # {}
  /\ \E d \in clauses :
       /\ Subsumed(d)
       /\ clauses' = clauses \ {d}
       /\ elim_heap' = HeapWith(Vars(d.lits))
  /\ UNCHANGED <<run, input, pc, ret, learnts, trailVars, todo, out_learnt,
                 searchVars, asynch_interrupt, touched, queue, eliminated,
                 elimclauses, bwdsub_assigns, cur, elimvar, adding, outVars>>

\* A longer clause is attached again without the literal.
Strengthen ==
  /\ pc = "subsume" /\ cur # {}
  /\ \E d \in clauses, l \in cur :
       /\ Strengthens(l, d) /\ ~IsBinary(d)
       /\ \E w \in SUBSET Without(d, l) :
            /\ Cardinality(w) = 2 /\ d.watch \ {-l} \subseteq w
            /\ clauses' = (clauses \ {d}) \cup {Attached(Without(d, l), w)}
       /\ queue' = queue \cup {Without(d, l)}
       /\ elim_heap' = HeapWith(Vars({l}))
  /\ UNCHANGED <<run, input, pc, ret, learnts, trailVars, todo, out_learnt,
                 searchVars, asynch_interrupt, touched, eliminated, elimclauses,
                 bwdsub_assigns, cur, elimvar, adding, outVars>>

\* A binary clause becomes a unit: it is removed and the literal enqueued.
StrengthenToUnit ==
  /\ pc = "subsume" /\ cur # {}
  /\ \E d \in clauses, l \in cur, o \in Lit :
       /\ Strengthens(l, d) /\ IsBinary(d) /\ Without(d, l) = {o}
       /\ clauses' = clauses \ {d}
       /\ elim_heap' = HeapWith(Vars(d.lits))
       /\ IF Undef(o)
          THEN trail' = Assert(o) /\ pc' = "propagate" /\ ret' = "subsume"
               /\ UNCHANGED answer
          ELSE /\ UNCHANGED <<trail, ret>>
               /\ IF True(o) THEN UNCHANGED <<pc, answer>>
                             ELSE pc' = "done" /\ answer' = "UNSATISFIABLE"
  /\ UNCHANGED <<run, input, learnts, decisionLevel, qhead, polarity, todo, out_learnt,
                 searchVars, asynch_interrupt, touched, queue, eliminated,
                 elimclauses, bwdsub_assigns, cur, elimvar, adding, left, model>>

\* No clause is left that cur subsumes or strengthens.
ScanDone ==
  /\ pc = "subsume" /\ cur # {}
  /\ \A d \in clauses : ~Subsumed(d) /\ \A l \in cur : ~Strengthens(l, d)
  /\ cur' = {}
  /\ UNCHANGED <<run, input, coreVars, touched, queue, elim_heap, eliminated,
                 elimclauses, bwdsub_assigns, elimvar, adding, outVars>>

SubsumeDone ==
  /\ pc = "subsume" /\ cur = {} /\ ~asynch_interrupt
  /\ queue = {} /\ bwdsub_assigns = Len(trail)
  /\ pc' = "vars"
  /\ UNCHANGED <<run, input, ret, dbVars, trailVars, todo, out_learnt,
                 searchVars, asynch_interrupt, simpVars, outVars>>

-----------------------------------------------------------------------------
(* eliminateVar. *)

Pos(v) == {c \in clauses : v \in c.lits}
Neg(v) == {c \in clauses : -v \in c.lits}

Merge(c, d, v) == (c.lits \ {v}) \cup (d.lits \ {-v})

\* The pairs of clauses whose resolvent on v is no tautology.
Product(v) ==
  {cd \in Pos(v) \X Neg(v) : ~Tautology(Merge(cd[1], cd[2], v))}

Resolvents(v) == {Merge(cd[1], cd[2], v) : cd \in Product(v)}

\* Eliminating v does not produce more clauses, nor long ones.
MayEliminate(v) ==
  /\ Cardinality(Product(v)) <= Cardinality(Occurs(v)) + Grow
  /\ \A c \in Resolvents(v) : Cardinality(c) <= ClauseLim

\* Faulty variant: the default value has the sign of the clauses kept.
KeptWrong(v) ==
  IF Cardinality(Pos(v)) > Cardinality(Neg(v))
  THEN [lit |-> v, rests |-> {c.lits \ {-v} : c \in Neg(v)}]
  ELSE [lit |-> -v, rests |-> {c.lits \ {v} : c \in Pos(v)}]

\* What is kept of v for extendModel: the side with fewer clauses, as its
\* literal of v and the rests of the clauses; the other sign is the default.
Kept(v) ==
  IF Cardinality(Pos(v)) > Cardinality(Neg(v))
  THEN [lit |-> -v, rests |-> {c.lits \ {-v} : c \in Neg(v)}]
  ELSE [lit |-> v, rests |-> {c.lits \ {v} : c \in Pos(v)}]

\* An interrupt ends the loop over the variables and the loop around it.
VarsInterrupted ==
  /\ pc = "vars" /\ asynch_interrupt
  /\ elim_heap' = {} /\ touched' = {} /\ queue' = {}
  /\ bwdsub_assigns' = Len(trail)
  /\ pc' = "eliminate"
  /\ UNCHANGED <<run, input, ret, dbVars, trailVars, todo, out_learnt,
                 searchVars, asynch_interrupt, eliminated, elimclauses, cur,
                 elimvar, adding, outVars>>

VarsDone ==
  /\ pc = "vars" /\ elim_heap = {} /\ ~asynch_interrupt
  /\ pc' = "eliminate"
  /\ UNCHANGED <<run, input, ret, dbVars, trailVars, todo, out_learnt,
                 searchVars, asynch_interrupt, simpVars, outVars>>

\* The variable is gone or assigned, or its elimination would not pay.
SkipVariable ==
  /\ pc = "vars" /\ ~asynch_interrupt
  /\ \E v \in elim_heap :
       /\ v \in eliminated \/ ~Undef(v) \/ ~MayEliminate(v)
       /\ elim_heap' = elim_heap \ {v}
  /\ UNCHANGED <<run, input, coreVars, touched, queue, eliminated, elimclauses,
                 bwdsub_assigns, cur, elimvar, adding, outVars>>

Eliminate ==
  /\ pc = "vars" /\ ~asynch_interrupt
  /\ \E v \in elim_heap :
       /\ v \notin eliminated /\ Undef(v) /\ MayEliminate(v)
       /\ elim_heap' = elim_heap \ {v}
       /\ eliminated' = eliminated \cup {v}
       /\ elimclauses' = Append(elimclauses, Kept(v))
       /\ elimvar' = v
       /\ adding' = Resolvents(v)
  /\ pc' = "resolve"
  /\ UNCHANGED <<run, input, ret, dbVars, trailVars, todo, out_learnt,
                 searchVars, asynch_interrupt, touched, queue, bwdsub_assigns,
                 cur, outVars>>

AddResolvent ==
  /\ pc = "resolve"
  /\ \E c \in adding : AddClause(c) /\ adding' = adding \ {c}
  /\ UNCHANGED <<run, input, learnts, decisionLevel, qhead, polarity, todo, out_learnt,
                 searchVars, asynch_interrupt, elim_heap, eliminated,
                 elimclauses, bwdsub_assigns, cur, elimvar, left, model>>

\* Faulty variant: one side is left in place.
OldClausesPos(v) == Pos(v)

\* The clauses the resolvents replace.
OldClauses(v) == Occurs(v)

RemoveOld ==
  /\ pc = "resolve" /\ adding = {}
  /\ clauses' = clauses \ OldClauses(elimvar)
  /\ elim_heap' = HeapWith(UNION {Vars(c.lits) : c \in OldClauses(elimvar)})
  /\ elimvar' = 0
  /\ pc' = "subsume"
  /\ UNCHANGED <<run, input, ret, learnts, trailVars, todo, out_learnt,
                 searchVars, asynch_interrupt, touched, queue, eliminated,
                 elimclauses, bwdsub_assigns, cur, adding, outVars>>

-----------------------------------------------------------------------------
(* The end of solve_, and extendModel. *)

StoreModel ==
  /\ pc = "model"
  /\ model' = {trail[i].lit : i \in 1..Len(trail)}
  /\ left' = Len(elimclauses)
  /\ \E n \in 0..Len(trail) :
       /\ CutsTo(n, 0) /\ trail' = SubSeq(trail, 1, n)
       /\ qhead' = QheadAt(n, 0) /\ polarity' = PolarityAfter(n)
  /\ decisionLevel' = 0
  /\ pc' = "extend"
  /\ UNCHANGED <<run, input, ret, dbVars, todo, out_learnt, searchVars,
                 asynch_interrupt, simpVars, answer>>

\* The last entry not read: its literal if one of the clauses needs it, else
\* the default.
ExtendModel ==
  /\ pc = "extend" /\ left > 0
  /\ LET e == elimclauses[left]
         needed == \E r \in e.rests : \A l \in r : -l \in model
         x == IF needed THEN e.lit ELSE -e.lit
     IN model' = (model \ {-x}) \cup {x}
  /\ left' = left - 1
  /\ UNCHANGED <<run, input, coreVars, simpVars, answer>>

PrintModel ==
  /\ pc = "extend" /\ left = 0
  /\ pc' = "done" /\ answer' = "SATISFIABLE"
  /\ UNCHANGED <<run, input, ret, dbVars, trailVars, todo, out_learnt,
                 searchVars, asynch_interrupt, simpVars, left, model>>

-----------------------------------------------------------------------------
Preprocess ==
  \/ ReadClause
  \/ ParseDone
  \/ GatherTouched
  \/ EliminateDone
  \/ SubsumeInterrupted
  \/ PopQueue
  \/ PopAssign
  \/ RemoveSubsumed
  \/ Strengthen
  \/ StrengthenToUnit
  \/ ScanDone
  \/ SubsumeDone
  \/ VarsInterrupted
  \/ VarsDone
  \/ SkipVariable
  \/ Eliminate
  \/ AddResolvent
  \/ RemoveOld

Propagate ==
  \/ PropagateNext
  \/ SkipClause
  \/ MoveWatch
  \/ EnqueueUnit
  \/ ConflictFound
  \/ PropagateDone

Search ==
  \/ StartAnalyze
  \/ Resolve
  \/ Learn
  \/ Restart
  \/ Decide(Variable \ eliminated)
  \/ AllAssigned(Variable \ eliminated)

Finish ==
  \/ ConflictAtRoot
  \/ StoreModel
  \/ ExtendModel
  \/ PrintModel
  \/ PrintIndeterminate

Step ==
  \/ Preprocess
  \/ (Propagate \/ Search) /\ UNCHANGED <<run, input, simpVars, outVars>>
  \/ Finish

Terminated == pc = "done" /\ UNCHANGED vars

Next == Step \/ Interrupt \/ Terminated

Spec == Init /\ [][Next]_vars /\ WF_vars(Step)
=============================================================================
