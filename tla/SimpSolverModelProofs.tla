----------------------- MODULE SimpSolverModelProofs ------------------------
(***************************************************************************)
(* The models the SAT solver prints are models of the file, propagation    *)
(* misses no clause, what is learnt is new, and eliminated variables stay  *)
(* away, for formulas of any size.                                         *)
(*                                                                         *)
(* To Inv of SimpSolverProofs this adds, part by part: where the program   *)
(* is (PhaseOK), that clauses watch two of their literals (PairedOK), what *)
(* has been propagated (QueueOK), what is analysed (AnalyzedOK), where an  *)
(* eliminated variable may be mentioned (ElimOK), which literals of level  *)
(* 0 no clause mentions any more (CurOK, CleanOK), and what the watches    *)
(* guarantee (WatchOK).  SearchInv is all that.  For the models there are, *)
(* besides, what has been kept for extendModel (RecordsOK), which          *)
(* variables have a value (ModelOK), and that whatever satisfies the       *)
(* clauses left is extended to a model of the file (GoodOK).               *)
(***************************************************************************)
EXTENDS SimpSolverProofs, FiniteSetTheorems

-----------------------------------------------------------------------------
(* Where the program is, and what it then no longer or not yet does. *)

InConflict == pc \in {"conflict", "analyze"}

\* In a propagate() called from r, or reporting its conflict.
InLoop(r) == pc \in {"propagate", "conflict"} /\ ret = r

Subsuming == pc = "subsume" \/ InLoop("subsume")
Resolving == pc = "resolve" \/ InLoop("resolve")
Simplifying == pc \in {"eliminate", "vars"} \/ Subsuming \/ Resolving

PhaseOK ==
  /\ Parsing => eliminated = {} /\ elimclauses = << >> /\ bwdsub_assigns = 0
  /\ input # << >> => Parsing \/ pc = "done"
  /\ cur # {} => Subsuming \/ pc = "done"
  /\ elimvar # 0 \/ adding # {} => Resolving \/ pc = "done"
  /\ Preprocessing => learnts = {}
  /\ elimvar \in eliminated \cup {0}
  /\ eliminated \subseteq Variable /\ elim_heap \subseteq Variable
  /\ answer = "SATISFIABLE" => pc = "done"

LEMMA InitPhase == Init => PhaseOK
  BY DEF Init, PhaseOK, Parsing, Preprocessing, Variable, Subsuming, Resolving,
         InLoop

\* The steps of propagate() and of the search.
LEMMA CorePhase ==
  ASSUME Inv, PhaseOK, Propagate \/ Search, UNCHANGED Rest
  PROVE  PhaseOK'
<1> USE DEF Rest, simpVars, outVars
<1>1. UNCHANGED <<input, eliminated, elimclauses, bwdsub_assigns, cur, elimvar,
                  adding, elim_heap, answer>>
  OBVIOUS
<1>2. Propagate => /\ pc = "propagate" /\ ret' = ret
                   /\ pc' \in {"propagate", "conflict", ret}
  BY DEF Propagate, PropagateNext, SkipClause, MoveWatch, EnqueueUnit,
         ConflictFound, PropagateDone
<1>3. Search => /\ pc \in {"conflict", "analyze", "search"}
                /\ pc = "conflict" => decisionLevel > 0
                /\ pc' \in {"analyze", "propagate", "interrupted", "model"}
                /\ pc' = "propagate" => ret' = "search"
  BY DEF Search, StartAnalyze, Resolve, Learn, Restart, Decide, AllAssigned
<1>7. Propagate => learnts' = learnts \/ learnts # {}
  BY DEF Propagate, PropagateNext, SkipClause, MoveWatch, EnqueueUnit,
         ConflictFound, PropagateDone, dbVars, Rewatch
<1>8. PcOK
  BY DEF Inv, ControlOK
<1>9. CASE Propagate
  BY <1>1, <1>2, <1>7, <1>8, <1>9
     DEF PhaseOK, PcOK, Parsing, Preprocessing, Subsuming, Resolving, InLoop
<1>10. CASE Search
  <2>1. ~Parsing /\ ~Subsuming /\ ~Resolving /\ pc # "done"
    BY <1>3, <1>8, <1>10
       DEF PcOK, Preprocessing, Parsing, Subsuming, Resolving, InLoop
  <2>2. ~Parsing' /\ ~Preprocessing'
    BY <1>3, <1>10 DEF Parsing, Preprocessing
  <2>3. input = << >> /\ cur = {} /\ elimvar = 0 /\ adding = {}
    BY <2>1 DEF PhaseOK
  <2> QED BY <1>1, <2>1, <2>2, <2>3 DEF PhaseOK
<1> QED BY <1>9, <1>10

LEMMA AddPhase ==
  ASSUME Inv, PhaseOK, ReadClause \/ AddResolvent
  PROVE  PhaseOK'
<1>1. UNCHANGED <<eliminated, elimclauses, bwdsub_assigns, cur, elimvar,
                  elim_heap, learnts>>
  BY DEF ReadClause, AddResolvent
<1>2. \E c \in Clause \cup adding : AddClause(c)
  BY DEF ReadClause, AddResolvent, Inv, ControlOK, DataOK
<1>3. /\ pc' \in {pc, "done"} \/ (pc' = "propagate" /\ ret' = pc)
      /\ answer' \in {answer, "UNSATISFIABLE"}
  BY <1>2 DEF AddClause, AddNothing, AddEmpty, AddUnit, AddLong
<1>4. CASE pc = "parse" /\ adding' = adding
  BY <1>1, <1>3, <1>4
     DEF PhaseOK, Parsing, Preprocessing, Subsuming, Resolving, InLoop
<1>5. CASE pc = "resolve" /\ input' = input
  BY <1>1, <1>3, <1>5
     DEF PhaseOK, Parsing, Preprocessing, Subsuming, Resolving, InLoop
<1> QED BY <1>4, <1>5 DEF ReadClause, AddResolvent

LEMMA NextPhase == Inv /\ PhaseOK /\ [Next]_vars => PhaseOK'
<1> SUFFICES ASSUME Inv, PhaseOK, [Next]_vars PROVE PhaseOK'
  OBVIOUS
<1> USE DEF PhaseOK, Parsing, Preprocessing, Subsuming, Resolving, InLoop
<1>1. CASE ReadClause \/ AddResolvent
  BY <1>1, AddPhase
<1>2. CASE (Propagate \/ Search) /\ UNCHANGED <<run, input, simpVars, outVars>>
  BY <1>2, CorePhase DEF Rest
<1>3. CASE Quiet
  BY <1>3
     DEF Quiet, ParseDone, PrintIndeterminate, GatherTouched, EliminateDone,
         SubsumeInterrupted, SubsumeDone, VarsInterrupted, VarsDone,
         SkipVariable, ScanDone, ExtendModel, PrintModel, coreVars, dbVars,
         simpVars, outVars
<1>4. CASE PopQueue \/ PopAssign
  BY <1>4 DEF PopQueue, PopAssign, coreVars, dbVars, outVars
<1>5. CASE RemoveSubsumed \/ Strengthen \/ StrengthenToUnit
  <2>1. elim_heap' \subseteq Variable
    BY <1>5, Zenon DEF RemoveSubsumed, Strengthen, StrengthenToUnit, HeapWith, Vars
  <2>2. UNCHANGED <<input, learnts, eliminated, elimclauses, bwdsub_assigns,
                    cur, elimvar, adding>>
    BY <1>5 DEF RemoveSubsumed, Strengthen, StrengthenToUnit
  <2>3. /\ pc = "subsume" /\ pc' \in {"subsume", "propagate", "done"}
        /\ pc' = "propagate" => ret' = "subsume"
        /\ answer' \in {answer, "UNSATISFIABLE"}
    BY <1>5 DEF RemoveSubsumed, Strengthen, StrengthenToUnit, outVars
  <2> QED BY <2>1, <2>2, <2>3
<1>6. CASE Eliminate
  <2>1. PICK v \in elim_heap :
          /\ elim_heap' = elim_heap \ {v}
          /\ eliminated' = eliminated \cup {v} /\ elimvar' = v
    BY <1>6 DEF Eliminate
  <2> QED BY <1>6, <2>1 DEF Eliminate, dbVars, outVars
<1>7. CASE RemoveOld
  <2>1. elim_heap' \subseteq Variable
    BY <1>7, Zenon DEF RemoveOld, HeapWith, Vars
  <2> QED BY <1>7, <2>1 DEF RemoveOld, outVars
<1>8. CASE ConflictAtRoot \/ StoreModel \/ Interrupt
  BY <1>8 DEF ConflictAtRoot, StoreModel, Interrupt, dbVars, simpVars, Inv,
              ControlOK, PcOK
<1>9. CASE UNCHANGED vars
  BY <1>9 DEF vars, coreVars, dbVars, simpVars, outVars
<1> QED BY <1>1, <1>2, <1>3, <1>4, <1>5, <1>6, <1>7, <1>8, <1>9
        DEF Next, Step, Terminated, Preprocess, Finish, Quiet

-----------------------------------------------------------------------------
(* Watches and the propagation queue. *)

Paired(c) == \E a, b \in c.lits : a # b /\ c.watch = {a, b}

PairedOK == \A c \in DB : Paired(c)

LEMMA FirstTwoPair ==
  ASSUME NEW c, NEW w, FirstTwo(c, w)
  PROVE  Paired(Attached(c, w))
  BY DEF FirstTwo, Paired, Attached

LEMMA PairOfTwo ==
  ASSUME NEW c \in Clause, NEW w \in SUBSET c, Cardinality(w) = 2
  PROVE  Paired(Attached(c, w))
<1>1. IsFiniteSet(w)
  <2>1. IsFiniteSet(-NV..NV)
    BY SolverAssumption, FS_Interval
  <2>2. w \subseteq -NV..NV
    BY DEF Clause, Lit
  <2> QED BY <2>1, <2>2, FS_Subset
<1>2. PICK a \in w : TRUE
  BY <1>1, FS_EmptySet
<1>3. IsFiniteSet(w \ {a}) /\ Cardinality(w \ {a}) = 1
  BY <1>1, <1>2, FS_RemoveElement
<1>4. PICK b : w \ {a} = {b}
  BY <1>3, FS_Singleton
<1>5. a # b /\ w = {a, b} /\ a \in c /\ b \in c
  BY <1>2, <1>4
<1> QED BY <1>5 DEF Paired, Attached

LEMMA PairHasTwo ==
  ASSUME NEW c, Paired(c)
  PROVE  Cardinality(c.watch) = 2
<1>1. PICK a \in c.lits, b \in c.lits : a # b /\ c.watch = {a, b}
  BY DEF Paired
<1>2. IsFiniteSet({a}) /\ Cardinality({a}) = 1 /\ b \notin {a}
  BY <1>1, FS_Singleton
<1>3. Cardinality({a} \cup {b}) = 2
  BY <1>2, FS_AddElement
<1> QED BY <1>1, <1>3

\* The steps at which clauses come in or are watched elsewhere.
LEMMA NextPaired == Inv /\ PairedOK /\ [Next]_vars => PairedOK'
<1> SUFFICES ASSUME Inv, PairedOK, [Next]_vars PROVE PairedOK'
  OBVIOUS
<1>1. ASSUME DB' \subseteq DB PROVE PairedOK'
  BY <1>1 DEF PairedOK, Paired
<1>2. ASSUME NEW b, Paired(b), \A d \in DB' : d \in DB \/ d = b PROVE PairedOK'
  BY <1>2 DEF PairedOK, Paired
<1>3. CASE ReadClause \/ AddResolvent
  <2>1. UNCHANGED learnts /\ \E c : AddClause(c)
    BY <1>3 DEF ReadClause, AddResolvent
  <2>2. PICK c : AddClause(c)
    BY <2>1
  <2>3. CASE AddLong(c)
    <3>1. PICK w : /\ FirstTwo(Remaining(c), w)
                   /\ clauses' = clauses \cup {Attached(Remaining(c), w)}
      BY <2>3 DEF AddLong
    <3>2. Paired(Attached(Remaining(c), w))
      BY <3>1, FirstTwoPair
    <3> QED BY <1>2, <2>1, <3>1, <3>2 DEF DB
  <2>4. CASE UNCHANGED clauses
    BY <1>1, <2>1, <2>4 DEF DB
  <2> QED BY <2>2, <2>3, <2>4 DEF AddClause, AddNothing, AddEmpty, AddUnit
<1>4. CASE Strengthen
  <2>1. PICK d \in clauses, l \in cur : \E w \in SUBSET Without(d, l) :
          /\ Cardinality(w) = 2
          /\ clauses' = (clauses \ {d}) \cup {Attached(Without(d, l), w)}
    BY <1>4 DEF Strengthen
  <2>2. PICK w \in SUBSET Without(d, l) :
          /\ Cardinality(w) = 2
          /\ clauses' = (clauses \ {d}) \cup {Attached(Without(d, l), w)}
    BY <2>1
  <2>3. Without(d, l) \in Clause
    BY DEF Inv, ControlOK, DataOK, DB, Without, Clause
  <2>4. Paired(Attached(Without(d, l), w))
    BY <2>2, <2>3, PairOfTwo
  <2>5. UNCHANGED learnts
    BY <1>4 DEF Strengthen
  <2> QED BY <1>2, <2>2, <2>4, <2>5 DEF DB
<1>5. CASE MoveWatch
  <2>1. PICK c \in todo : \E o \in c.watch, l \in c.lits \ c.watch :
          /\ clauses' = Rewatch(clauses, c, Attached(c.lits, {o, l}))
          /\ learnts' = Rewatch(learnts, c, Attached(c.lits, {o, l}))
    BY <1>5 DEF MoveWatch
  <2>2. PICK o \in c.watch, l \in c.lits \ c.watch :
          /\ clauses' = Rewatch(clauses, c, Attached(c.lits, {o, l}))
          /\ learnts' = Rewatch(learnts, c, Attached(c.lits, {o, l}))
    BY <2>1
  <2>3. o \in c.lits /\ o # l
    BY DEF Inv, ControlOK, DataOK
  <2>4. Paired(Attached(c.lits, {o, l}))
    BY <2>3 DEF Paired, Attached
  <2> QED BY <1>2, <2>2, <2>4 DEF DB, Rewatch
<1>6. CASE Learn
  <2>1. PICK u, k, c :
          UNCHANGED learnts \/ (/\ u \in c
            /\ \E l \in Second(c, u, k) :
                       learnts' = learnts \cup {Attached(c, {u, l})})
    <3>1. PICK u \in out_learnt, k \in 0..decisionLevel :
            LET c == BinaryMinimized(u, Minimized(u)) IN
            IF c = {u} THEN UNCHANGED learnts
            ELSE \E l \in Second(c, u, k) :
                   learnts' = learnts \cup {Attached(c, {u, l})}
      BY <1>6 DEF Learn
    <3>2. u \in BinaryMinimized(u, Minimized(u))
      BY DEF BinaryMinimized, Minimized
    <3> QED BY <3>1, <3>2
  <2>2. UNCHANGED clauses
    BY <1>6 DEF Learn
  <2>3. CASE UNCHANGED learnts
    BY <1>1, <2>2, <2>3 DEF DB
  <2>4. ASSUME u \in c, NEW l \in Second(c, u, k),
               learnts' = learnts \cup {Attached(c, {u, l})}
        PROVE  PairedOK'
    <3>1. l \in c /\ l # u
      BY <2>4 DEF Second, AtLevel
    <3>2. Paired(Attached(c, {u, l}))
      BY <2>4, <3>1 DEF Paired, Attached
    <3> QED BY <1>2, <2>2, <2>4, <3>2 DEF DB
  <2> QED BY <2>1, <2>3, <2>4
<1>7. CASE Decide(Variable \ eliminated)
  BY <1>1, <1>7 DEF Decide, DB, Unsatisfied
<1>8. CASE UNCHANGED learnts /\ clauses' \subseteq clauses
  BY <1>1, <1>8 DEF DB
<1> QED BY <1>3, <1>4, <1>5, <1>6, <1>7, <1>8
  DEF Next, Step, Terminated, Preprocess, Finish, Propagate, Search, ParseDone,
      GatherTouched, EliminateDone, SubsumeInterrupted, PopQueue, PopAssign,
      RemoveSubsumed, StrengthenToUnit, ScanDone, SubsumeDone, VarsInterrupted,
      VarsDone, SkipVariable, Eliminate, RemoveOld, PropagateNext, SkipClause,
      EnqueueUnit, ConflictFound, PropagateDone, StartAnalyze, Resolve, Restart,
      AllAssigned, ConflictAtRoot, StoreModel, ExtendModel, PrintModel,
      PrintIndeterminate, Interrupt, vars, coreVars, dbVars

\* Which of the entries of the trail have been propagated.
QueueOK ==
  /\ qhead \in 0..Len(trail)
  /\ pc \notin {"propagate", "conflict", "analyze", "done"} => qhead = Len(trail)
  /\ pc = "propagate" =>
       \A i \in 1..Len(trail) :
         i > qhead \/ (i = qhead /\ todo # {}) => trail[i].level = decisionLevel
  /\ pc = "propagate" /\ todo # {} =>
       qhead > 0 /\ \A c \in todo : -trail[qhead].lit \in c.watch

LEMMA StillQueue ==
  ASSUME Inv, QueueOK, UNCHANGED <<trail, qhead, decisionLevel, todo>>,
         \/ pc \notin {"propagate", "conflict", "analyze", "done"}
         \/ pc' = pc \/ pc' \in {"analyze", "done"}
  PROVE  QueueOK'
<1>1. pc \notin {"propagate", "done"} => todo = {}
  BY DEF Inv, ControlOK, PcOK
<1>2. Len(trail) \in Nat
  BY DEF Inv, TrailOK, TrailIs
<1> QED BY <1>1, <1>2 DEF QueueOK

\* A literal more, where nothing else was left to propagate or at this level.
LEMMA GrownQueue ==
  ASSUME Inv, QueueOK, NEW e \in EntryType, trail' = Append(trail, e),
         pc' = "propagate", e.level = decisionLevel', qhead' = qhead,
         \/ todo' = {} /\ pc \notin {"propagate", "conflict", "analyze", "done"}
         \/ todo' \subseteq todo /\ pc = "propagate" /\ UNCHANGED decisionLevel
  PROVE  QueueOK'
<1>1. trail \in Seq(EntryType)
  BY DEF Inv, TrailOK, TrailIs
<1>2. /\ Len(trail) \in Nat /\ Len(trail') = Len(trail) + 1
      /\ \A i \in 1..Len(trail) : trail'[i] = trail[i]
      /\ trail'[Len(trail) + 1] = e
  BY <1>1, AppendFacts
<1>3. \A i \in 1..Len(trail') : i \in 1..Len(trail) \/ i = Len(trail) + 1
  BY <1>2
<1>4. qhead' \in 0..Len(trail')
  BY <1>2 DEF QueueOK
<1>5. \A i \in 1..Len(trail') :
        i > qhead' \/ (i = qhead' /\ todo' # {}) => trail'[i].level = decisionLevel'
  <2> SUFFICES ASSUME NEW i \in 1..Len(trail'),
                      i > qhead \/ (i = qhead /\ todo' # {})
               PROVE  trail'[i].level = decisionLevel'
    OBVIOUS
  <2>1. CASE i = Len(trail) + 1
    BY <2>1, <1>2
  <2>2. CASE i \in 1..Len(trail)
    <3>1. pc = "propagate" /\ todo' \subseteq todo /\ UNCHANGED decisionLevel
      BY <2>2, <1>2 DEF QueueOK
    <3> QED BY <2>2, <3>1, <1>2 DEF QueueOK
  <2> QED BY <2>1, <2>2, <1>3
<1>6. todo' # {} => qhead' > 0 /\ \A c \in todo' : -trail'[qhead'].lit \in c.watch
  <2> SUFFICES ASSUME todo' # {}
               PROVE  qhead > 0 /\ \A c \in todo' : -trail'[qhead].lit \in c.watch
    OBVIOUS
  <2>1. qhead > 0 /\ \A c \in todo' : -trail[qhead].lit \in c.watch
    BY DEF QueueOK
  <2>2. qhead \in 1..Len(trail)
    BY <2>1, <1>2 DEF QueueOK
  <2> QED BY <2>1, <2>2, <1>2
<1> QED BY <1>4, <1>5, <1>6 DEF QueueOK

\* The entries up to level k are those kept by a cut to that level.
LEMMA CutKeeps ==
  ASSUME TrailOK, NEW k \in Nat, NEW n \in 0..Len(trail), CutsTo(n, k)
  PROVE  \A i \in 1..Len(trail) : trail[i].level <= k <=> i <= n
<1> SUFFICES ASSUME NEW i \in 1..Len(trail)
             PROVE  trail[i].level <= k <=> i <= n
  OBVIOUS
<1>1. Len(trail) \in Nat
  BY DEF TrailOK, TrailIs
<1>2. ASSUME i <= n PROVE trail[i].level <= k
  BY <1>1, <1>2 DEF CutsTo
<1>3. ASSUME ~(i <= n) PROVE ~(trail[i].level <= k)
  <2>1. n + 1 \in 1..Len(trail) /\ n + 1 <= i /\ n < Len(trail)
    BY <1>1, <1>3
  <2>2. trail[n + 1].level > k /\ trail[n + 1].level <= trail[i].level
    BY <2>1 DEF CutsTo, TrailOK, TrailIs, Grows
  <2>3. trail[n + 1].level \in Nat /\ trail[i].level \in Nat
    BY <2>1, TrailEntry
  <2> QED BY <2>2, <2>3
<1> QED BY <1>2, <1>3

LEMMA CutQhead ==
  ASSUME TrailOK, qhead \in 0..Len(trail), NEW k \in 0..decisionLevel,
         NEW n \in 0..Len(trail), CutsTo(n, k)
  PROVE  /\ QheadAt(n, k) \in 0..n
         /\ qhead = Len(trail) \/ decisionLevel > k => QheadAt(n, k) = n
<1>1. Len(trail) \in Nat /\ decisionLevel \in Nat /\ k \in Nat
  BY DEF TrailOK, TrailIs
<1>2. CASE decisionLevel > k
  BY <1>1, <1>2 DEF QheadAt
<1>3. CASE ~(decisionLevel > k)
  <2>1. k = decisionLevel
    BY <1>1, <1>3
  <2>2. n = Len(trail)
    <3> SUFFICES ASSUME n # Len(trail) PROVE FALSE
      OBVIOUS
    <3>1. Len(trail) \in 1..Len(trail) /\ ~(Len(trail) <= n)
      BY <1>1
    <3>2. trail[Len(trail)].level <= k
      BY <2>1, <3>1, TrailEntry
    <3> QED BY <1>1, <3>1, <3>2, CutKeeps
  <2> QED BY <1>3, <2>2 DEF QheadAt
<1> QED BY <1>2, <1>3

LEMMA InitQueue == Init => QueueOK
<1> SUFFICES ASSUME Init PROVE QueueOK
  OBVIOUS
<1>1. trail = << >> /\ Len(trail) = 0 /\ qhead = 0 /\ pc = "parse" /\ todo = {}
  BY DEF Init
<1> QED BY <1>1 DEF QueueOK

\* Back to level 0.
LEMMA RootCutQueue ==
  ASSUME Inv, QueueOK, Restart \/ StoreModel
  PROVE  QueueOK'
<1>1. PICK n \in 0..Len(trail) :
        CutsTo(n, 0) /\ trail' = SubSeq(trail, 1, n) /\ qhead' = QheadAt(n, 0)
  BY DEF Restart, StoreModel
<1>2. /\ pc \in {"search", "model"} /\ decisionLevel' = 0 /\ todo' = todo
      /\ pc' \in {"propagate", "interrupted", "extend"}
  BY DEF Restart, StoreModel
<1>3. /\ Len(trail) \in Nat /\ Len(trail') = n /\ n \in Nat
      /\ decisionLevel \in Nat /\ TrailOK /\ trail \in Seq(EntryType)
  BY <1>1, CutFacts DEF Inv, TrailOK, TrailIs
<1>4. qhead = Len(trail) /\ 0 \in 0..decisionLevel
  BY <1>2, <1>3 DEF QueueOK
<1>5. qhead' = n
  BY <1>1, <1>3, <1>4, CutQhead DEF QueueOK
<1>6. todo' = {}
  BY <1>2 DEF Inv, ControlOK, PcOK
<1> QED BY <1>2, <1>3, <1>5, <1>6 DEF QueueOK

\* What analyze() does: it learns clause c, cuts the trail to n entries of level
\* k and below, and asserts the literal u.
LearnsTo(u, k, n, c) ==
  /\ u \in c /\ c \subseteq out_learnt /\ out_learnt' = c
  /\ k < decisionLevel /\ decisionLevel' = k /\ CutsTo(n, k)
  /\ Len(trail') = n + 1
  /\ \A i \in 1..n : /\ i \in 1..Len(trail) /\ trail'[i] = trail[i]
                     /\ trail[i].lit # u /\ trail[i].lit # -u
  /\ trail'[n + 1].lit = u /\ trail'[n + 1].level = k
  /\ qhead' = n
  /\ \A x \in c \ {u} : \E j \in 1..n : trail[j].lit = -x
  /\ \/ UNCHANGED learnts
     \/ \E l \in c \ {u} : /\ LevelIs(l, k)
                           /\ learnts' = learnts \cup {Attached(c, {u, l})}

LEMMA LearnFacts ==
  ASSUME Inv, QueueOK, Learn
  PROVE  \E u \in Lit, k \in Nat, n \in 0..Len(trail), c \in Clause :
           LearnsTo(u, k, n, c)
<1>1. PICK u \in out_learnt, k \in 0..decisionLevel, n \in 0..Len(trail) :
        LET c == BinaryMinimized(u, Minimized(u)) IN
        /\ AtLevel(out_learnt, decisionLevel) = {u}
        /\ IsBackjump(c \ {u}, k) /\ CutsTo(n, k)
        /\ trail' = Append(SubSeq(trail, 1, n),
                           Entry(u, k, IF c = {u} THEN NoReason ELSE c))
        /\ IF c = {u} THEN UNCHANGED learnts
           ELSE \E l \in Second(c, u, k) :
                  learnts' = learnts \cup {Attached(c, {u, l})}
        /\ out_learnt' = c
        /\ qhead' = QheadAt(n, k) /\ decisionLevel' = k
  BY DEF Learn
<1> DEFINE c == BinaryMinimized(u, Minimized(u))
           r == IF c = {u} THEN NoReason ELSE c
           t == SubSeq(trail, 1, n)
           e == Entry(u, k, r)
<1>2. pc = "analyze"
  BY DEF Learn
<1>3. /\ u \in c /\ c \subseteq out_learnt /\ c \in Clause /\ u \in Lit
      /\ r \in Clause
  BY <1>2, LearntHolds DEF Inv, ControlOK, DataOK, Clause, NoReason
<1>4. /\ trail \in Seq(EntryType) /\ Len(trail) \in Nat /\ decisionLevel \in Nat
      /\ TrailOK /\ k \in Nat
  BY DEF Inv, TrailOK, TrailIs
<1>5. /\ t \in Seq(EntryType) /\ Len(t) = n /\ n \in Nat
      /\ \A i \in 1..n : t[i] = trail[i] /\ i \in 1..Len(trail)
  BY <1>4, CutFacts
<1>6. e \in EntryType /\ e.lit = u /\ e.level = k
  BY <1>3, <1>4, EntryIsTyped
<1>7. trail' = Append(t, e)
  BY <1>1
<1>8. /\ IsBackjump(c \ {u}, k) /\ CutsTo(n, k) /\ out_learnt' = c
      /\ \/ UNCHANGED learnts
         \/ \E l \in c \ {u} : /\ LevelIs(l, k)
                               /\ learnts' = learnts \cup {Attached(c, {u, l})}
  BY <1>1 DEF Second, AtLevel
<1>9. /\ AtLevel(out_learnt, decisionLevel) = {u}
      /\ qhead' = QheadAt(n, k) /\ decisionLevel' = k
  BY <1>1
<1>10. qhead \in 0..Len(trail)
  BY DEF QueueOK
<1> HIDE DEF c, r, t, e
<1> HIDE <1>1
<1>11. /\ Len(trail') = n + 1 /\ trail'[n + 1] = e
      /\ \A i \in 1..n : trail'[i] = t[i]
  BY <1>5, <1>6, <1>7, AppendFacts
<1>12. /\ k < decisionLevel
       /\ \A i \in 1..n : trail[i].lit # u /\ trail[i].lit # -u
       /\ \A x \in c \ {u} : \E j \in 1..n : trail[j].lit = -x
  BY <1>2, <1>3, <1>8, <1>9, LearntPlaces
<1>13. qhead' = n
  BY <1>4, <1>8, <1>9, <1>10, <1>12, CutQhead
<1>14. /\ u \in c /\ c \subseteq out_learnt /\ out_learnt' = c
       /\ k < decisionLevel /\ decisionLevel' = k /\ CutsTo(n, k)
       /\ Len(trail') = n + 1
       /\ \A i \in 1..n : /\ i \in 1..Len(trail) /\ trail'[i] = trail[i]
                          /\ trail[i].lit # u /\ trail[i].lit # -u
       /\ trail'[n + 1].lit = u /\ trail'[n + 1].level = k
  BY <1>3, <1>5, <1>6, <1>8, <1>11, <1>12, <1>9
<1>15. LearnsTo(u, k, n, c)
  BY <1>8, <1>12, <1>13, <1>14 DEF LearnsTo
<1> QED BY <1>3, <1>4, <1>15

LEMMA LearnQueue ==
  ASSUME Inv, QueueOK, Learn
  PROVE  QueueOK'
<1>1. PICK u \in Lit, k \in Nat, n \in 0..Len(trail), c \in Clause :
        LearnsTo(u, k, n, c)
  BY LearnFacts
<1>2. pc' = "propagate" /\ todo' = {}
  BY DEF Learn, Inv, ControlOK, PcOK
<1>3. n \in Nat
  BY DEF Inv, TrailOK, TrailIs
<1>4. \A i \in 1..Len(trail') : i > qhead' => i = n + 1
  BY <1>1, <1>3 DEF LearnsTo
<1> QED BY <1>1, <1>2, <1>3, <1>4 DEF QueueOK, LearnsTo

LEMMA PropagateQueue ==
  ASSUME Inv, QueueOK, Propagate
  PROVE  QueueOK'
<1>1. pc = "propagate" /\ decisionLevel' = decisionLevel
  BY DEF Propagate, PropagateNext, SkipClause, MoveWatch, EnqueueUnit,
         ConflictFound, PropagateDone, trailVars
<1>2. Len(trail) \in Nat /\ decisionLevel \in Nat
  BY DEF Inv, TrailOK, TrailIs
<1>3. CASE PropagateNext
  BY <1>1, <1>2, <1>3 DEF PropagateNext, QueueOK
<1>4. CASE SkipClause \/ MoveWatch
  <2>1. UNCHANGED <<pc, trail, qhead, decisionLevel>> /\ todo' \subseteq todo
    BY <1>4 DEF SkipClause, MoveWatch, trailVars
  <2> QED BY <1>1, <2>1 DEF QueueOK
<1>5. CASE EnqueueUnit
  <2>1. PICK c \in todo, o \in Lit :
          trail' = Append(trail, Entry(o, decisionLevel, c.lits))
    BY <1>5 DEF EnqueueUnit, Inv, ControlOK, DataOK, Clause
  <2>2. o \in Lit /\ c.lits \in Clause
    BY DEF Inv, ControlOK, DataOK, Clause
  <2> DEFINE e == Entry(o, decisionLevel, c.lits)
  <2>3. e \in EntryType /\ e.level = decisionLevel
    BY <1>2, <2>2, EntryIsTyped
  <2>4. UNCHANGED <<pc, qhead, decisionLevel>> /\ todo' \subseteq todo
    BY <1>5 DEF EnqueueUnit
  <2>5. trail' = Append(trail, e)
    BY <2>1
  <2> HIDE DEF e
  <2> QED BY <1>1, <2>3, <2>4, <2>5, GrownQueue
<1>6. CASE ConflictFound
  BY <1>1, <1>2, <1>6 DEF ConflictFound, QueueOK
<1>7. CASE PropagateDone
  BY <1>1, <1>2, <1>7 DEF PropagateDone, QueueOK, trailVars, Inv, ControlOK, PcOK
<1> QED BY <1>3, <1>4, <1>5, <1>6, <1>7 DEF Propagate

\* A literal asserted at level 0.
LEMMA AssertQueue ==
  ASSUME Inv, QueueOK, NEW l \in Lit, trail' = Assert(l),
         pc \in {"parse", "subsume", "resolve"}, pc' = "propagate",
         UNCHANGED <<qhead, decisionLevel, todo>>
  PROVE  QueueOK'
<1>1. decisionLevel = 0 /\ todo = {}
  BY AtRoot
<1> DEFINE e == Entry(l, 0, NoReason)
<1>2. NoReason \in Clause
  BY DEF NoReason, Clause
<1>3. e \in EntryType /\ e.level = 0
  BY <1>2, EntryIsTyped
<1>4. trail' = Append(trail, e)
  BY DEF Assert
<1> HIDE DEF e
<1> QED BY <1>1, <1>3, <1>4, GrownQueue

LEMMA NextQueue == Inv /\ QueueOK /\ [Next]_vars => QueueOK'
<1> SUFFICES ASSUME Inv, QueueOK, [Next]_vars PROVE QueueOK'
  OBVIOUS
<1>1. CASE ReadClause \/ AddResolvent
  <2>1. UNCHANGED <<qhead, decisionLevel, todo>> /\ pc \in {"parse", "resolve"}
    BY <1>1 DEF ReadClause, AddResolvent
  <2>2. PICK c \in Clause : AddClause(c)
    BY <1>1 DEF ReadClause, AddResolvent, Inv, ControlOK, DataOK
  <2>3. CASE AddUnit(c)
    <3>1. PICK l \in c : trail' = Assert(l)
      BY <2>3 DEF AddUnit
    <3> QED BY <2>1, <2>3, <3>1, AssertQueue DEF AddUnit, Clause
  <2>4. CASE UNCHANGED trail /\ pc' \in {pc, "done"}
    BY <2>1, <2>4, StillQueue
  <2> QED BY <2>2, <2>3, <2>4 DEF AddClause, AddNothing, AddEmpty, AddLong
<1>2. CASE StrengthenToUnit
  <2>1. UNCHANGED <<qhead, decisionLevel, todo>> /\ pc = "subsume"
    BY <1>2 DEF StrengthenToUnit
  <2>2. PICK o \in Lit :
          IF Undef(o) THEN trail' = Assert(o) /\ pc' = "propagate"
          ELSE UNCHANGED trail /\ (IF True(o) THEN UNCHANGED pc ELSE pc' = "done")
    BY <1>2 DEF StrengthenToUnit
  <2> QED BY <2>1, <2>2, AssertQueue, StillQueue
<1>3. CASE Decide(Variable \ eliminated)
  <2>1. PICK v \in Variable :
          trail' = Append(trail, Entry(Phase(v), decisionLevel + 1, NoReason))
    BY <1>3 DEF Decide
  <2> DEFINE l == Phase(v)
             e == Entry(l, decisionLevel + 1, NoReason)
  <2>2. l \in Lit /\ NoReason \in Clause
    BY PhaseIsLiteral DEF NoReason, Clause
  <2>3. decisionLevel + 1 \in Nat
    BY DEF Inv, TrailOK, TrailIs
  <2>4. e \in EntryType /\ e.level = decisionLevel + 1
    BY <2>2, <2>3, EntryIsTyped
  <2>5. /\ pc = "search" /\ pc' = "propagate" /\ UNCHANGED <<qhead, todo>>
        /\ decisionLevel' = decisionLevel + 1
    BY <1>3 DEF Decide
  <2>6. trail' = Append(trail, e)
    BY <2>1
  <2>7. todo' = {}
    BY <2>5 DEF Inv, ControlOK, PcOK
  <2> HIDE DEF e
  <2> QED BY <2>4, <2>5, <2>6, <2>7, GrownQueue
<1>4. CASE /\ UNCHANGED <<trail, qhead, decisionLevel, todo>>
           /\ \/ pc \notin {"propagate", "conflict", "analyze", "done"}
              \/ pc' = pc \/ pc' \in {"analyze", "done"}
  BY <1>4, StillQueue
<1>5. CASE Propagate
  BY <1>5, PropagateQueue
<1> QED BY <1>1, <1>2, <1>3, <1>4, <1>5, LearnQueue, RootCutQueue
  DEF Next, Step, Terminated, Preprocess, Finish, Search, ParseDone,
      GatherTouched, EliminateDone, SubsumeInterrupted, PopQueue, PopAssign,
      RemoveSubsumed, Strengthen, ScanDone, SubsumeDone, VarsInterrupted,
      VarsDone, SkipVariable, Eliminate, RemoveOld, StartAnalyze, Resolve,
      AllAssigned, ConflictAtRoot, ExtendModel, PrintModel, PrintIndeterminate,
      Interrupt, vars, coreVars, trailVars

\* The clause analysed has no literal of level 0.
AnalyzedOK == pc = "analyze" => \A l \in out_learnt : ~LevelIs(l, 0)

LEMMA NextAnalyzed == Inv /\ AnalyzedOK /\ [Next]_vars => AnalyzedOK'
<1> SUFFICES ASSUME Inv, AnalyzedOK, [Next]_vars, pc' = "analyze"
             PROVE  AnalyzedOK'
  BY DEF AnalyzedOK
<1>1. CASE StartAnalyze
  <2>1. out_learnt' = AboveRoot(out_learnt) /\ UNCHANGED trail
    BY <1>1 DEF StartAnalyze, trailVars
  <2> QED BY <2>1 DEF AnalyzedOK, AboveRoot, LevelIs
<1>2. CASE Resolve
  <2>1. PICK c : out_learnt' \subseteq out_learnt \cup AboveRoot(c)
    BY <1>2 DEF Resolve
  <2>2. UNCHANGED trail /\ pc = "analyze"
    BY <1>2 DEF Resolve, trailVars
  <2> QED BY <2>1, <2>2 DEF AnalyzedOK, AboveRoot, LevelIs
<1>3. CASE UNCHANGED <<pc, out_learnt, trail>>
  BY <1>3 DEF AnalyzedOK, LevelIs
<1>4. CASE ReadClause \/ AddResolvent
  BY <1>4 DEF ReadClause, AddResolvent, AddClause, AddNothing, AddEmpty,
              AddUnit, AddLong
<1>5. CASE Propagate
  BY <1>5 DEF Propagate, PropagateNext, SkipClause, MoveWatch, EnqueueUnit,
              ConflictFound, PropagateDone, Inv, ControlOK, PcOK
<1> QED BY <1>1, <1>2, <1>3, <1>4, <1>5
  DEF Next, Step, Terminated, Preprocess, Finish, Search, ParseDone,
      GatherTouched, EliminateDone, SubsumeInterrupted, PopQueue, PopAssign,
      RemoveSubsumed, Strengthen, StrengthenToUnit, ScanDone, SubsumeDone,
      VarsInterrupted, VarsDone, SkipVariable, Eliminate, RemoveOld, Learn,
      Restart, Decide, AllAssigned, ConflictAtRoot, StoreModel, ExtendModel,
      PrintModel, PrintIndeterminate, Interrupt, vars, coreVars, trailVars

-----------------------------------------------------------------------------
(* Eliminated variables. *)

\* Above level 0 none is assigned.
FreeTrail ==
  \A i \in 1..Len(trail) :
    trail[i].level > 0 => trail[i].lit \notin eliminated
                          /\ -trail[i].lit \notin eliminated

ElimOK ==
  /\ \A c \in DB : Vars(c.lits) \cap eliminated \subseteq {elimvar}
  /\ \A c \in adding : Vars(c) \cap eliminated = {}
  /\ InConflict => Vars(out_learnt) \cap eliminated \subseteq {elimvar}
  /\ FreeTrail

\* Outside eliminateVar no variable is being eliminated.
LEMMA NotEliminating ==
  ASSUME Inv, PhaseOK, pc # "done", ~Resolving
  PROVE  elimvar = 0 /\ adding = {}
  BY DEF PhaseOK

LEMMA VarsOfPart ==
  ASSUME NEW c, NEW d, c \subseteq d
  PROVE  Vars(c) \subseteq Vars(d)
  BY DEF Vars

LEMMA VarOfLit ==
  ASSUME NEW l \in Lit, NEW S \in SUBSET Variable
  PROVE  l \notin S /\ -l \notin S <=> Vars({l}) \cap S = {}
<1>1. \A v \in Variable : v \in Int /\ (v = -l <=> -v = l)
  BY SolverAssumption DEF Lit, Variable
<1>2. Vars({l}) = {v \in Variable : v = l \/ -v = l}
  BY DEF Vars
<1> QED BY <1>1, <1>2

\* A resolvent on v mentions neither v nor a variable eliminated before.
LEMMA ResolventVars ==
  ASSUME Inv, NEW v \in Variable, NEW r \in Resolvents(v), NEW S,
         \A c \in clauses : Vars(c.lits) \cap S = {}
  PROVE  Vars(r) \cap (S \cup {v}) = {}
<1>1. PICK c \in clauses, d \in clauses :
        v \in c.lits /\ -v \in d.lits /\ r = Merge(c, d, v)
  BY DEF Resolvents, Product, Pos, Neg
<1>2. -v \notin c.lits /\ v \notin d.lits
  <2>1. ~Tautology(c.lits) /\ ~Tautology(d.lits) /\ -(-v) = v
    BY LitNeg, SolverAssumption DEF Inv, ControlOK, DataOK, Variable
  <2> QED BY <1>1, <2>1 DEF Tautology
<1>3. v # -v
  BY SolverAssumption DEF Variable
<1>4. v \notin r /\ -v \notin r
  BY <1>1, <1>2, <1>3 DEF Merge
<1>5. r \subseteq c.lits \cup d.lits
  BY <1>1 DEF Merge
<1>6. Vars(r) \subseteq Vars(c.lits) \cup Vars(d.lits)
  BY <1>5 DEF Vars
<1> QED BY <1>4, <1>6 DEF Vars

LEMMA InitElim == Init => ElimOK
<1> SUFFICES ASSUME Init PROVE ElimOK
  OBVIOUS
<1>1. Len(trail) = 0 /\ DB = {} /\ adding = {} /\ pc = "parse"
  BY DEF Init, DB
<1> QED BY <1>1 DEF ElimOK, FreeTrail, InConflict

LEMMA FreeGrown ==
  ASSUME Inv, FreeTrail, NEW e \in EntryType, trail' = Append(trail, e),
         eliminated' = eliminated,
         e.level > 0 => e.lit \notin eliminated /\ -e.lit \notin eliminated
  PROVE  FreeTrail'
<1>1. trail \in Seq(EntryType)
  BY DEF Inv, TrailOK, TrailIs
<1>2. /\ Len(trail) \in Nat /\ Len(trail') = Len(trail) + 1
      /\ \A i \in 1..Len(trail) : trail'[i] = trail[i]
      /\ trail'[Len(trail) + 1] = e
  BY <1>1, AppendFacts
<1>3. \A i \in 1..Len(trail') : i \in 1..Len(trail) \/ i = Len(trail) + 1
  BY <1>2
<1> QED BY <1>2, <1>3 DEF FreeTrail

LEMMA FreeCut ==
  ASSUME Inv, FreeTrail, NEW n \in 0..Len(trail), trail' = SubSeq(trail, 1, n),
         eliminated' = eliminated
  PROVE  FreeTrail'
<1>1. trail \in Seq(EntryType)
  BY DEF Inv, TrailOK, TrailIs
<1>2. Len(trail') = n /\ \A i \in 1..n : trail'[i] = trail[i] /\ i \in 1..Len(trail)
  BY <1>1, CutFacts
<1> QED BY <1>2 DEF FreeTrail

LEMMA AddElim ==
  ASSUME Inv, PhaseOK, ElimOK, ReadClause \/ AddResolvent
  PROVE  ElimOK'
<1>1. /\ UNCHANGED <<eliminated, elimvar, learnts>> /\ adding' \subseteq adding
      /\ pc \in {"parse", "resolve"}
  BY DEF ReadClause, AddResolvent
<1>2. PICK c \in Clause : AddClause(c) /\ Vars(c) \cap eliminated = {}
  <2>1. CASE ReadClause
    <3>1. eliminated = {} /\ Head(input) \in Clause
      BY <2>1 DEF ReadClause, PhaseOK, Parsing, Inv, ControlOK, DataOK
    <3> QED BY <2>1, <3>1 DEF ReadClause
  <2>2. CASE AddResolvent
    BY <2>2 DEF AddResolvent, ElimOK, Inv, ControlOK, DataOK
  <2> QED BY <2>1, <2>2
<1>3. ~InConflict'
  BY <1>1, <1>2 DEF InConflict, AddClause, AddNothing, AddEmpty, AddUnit, AddLong
<1>4. FreeTrail'
  <2>1. CASE AddUnit(c)
    <3>1. PICK l \in Lit : trail' = Append(trail, Entry(l, 0, NoReason))
      BY <2>1 DEF AddUnit, Assert, Clause
    <3>2. NoReason \in Clause
      BY DEF NoReason, Clause
    <3> DEFINE e == Entry(l, 0, NoReason)
    <3>3. e \in EntryType /\ e.level = 0 /\ trail' = Append(trail, e)
      BY <3>1, <3>2, EntryIsTyped
    <3> HIDE DEF e
    <3> QED BY <1>1, <3>3, FreeGrown DEF ElimOK
  <2>2. CASE UNCHANGED trail
    BY <1>1, <2>2 DEF ElimOK, FreeTrail
  <2> QED BY <1>2, <2>1, <2>2 DEF AddClause, AddNothing, AddEmpty, AddLong
<1>5. \A d \in DB' : Vars(d.lits) \cap eliminated \subseteq {elimvar}
  <2>1. CASE AddLong(c)
    <3>1. PICK w : clauses' = clauses \cup {Attached(Remaining(c), w)}
      BY <2>1 DEF AddLong
    <3>2. Vars(Remaining(c)) \subseteq Vars(c)
      BY VarsOfPart DEF Remaining
    <3>3. \A d \in DB' : d \in DB \/ d.lits = Remaining(c)
      BY <1>1, <3>1 DEF DB, Attached
    <3> QED BY <1>2, <3>2, <3>3 DEF ElimOK
  <2>2. CASE UNCHANGED clauses
    BY <1>1, <2>2 DEF ElimOK, DB
  <2> QED BY <1>2, <2>1, <2>2 DEF AddClause, AddNothing, AddEmpty, AddUnit
<1> QED BY <1>1, <1>3, <1>4, <1>5 DEF ElimOK

LEMMA SubsumeElim ==
  ASSUME Inv, ElimOK, RemoveSubsumed \/ Strengthen \/ StrengthenToUnit
  PROVE  ElimOK'
<1>1. UNCHANGED <<eliminated, elimvar, learnts, adding>>
  BY DEF RemoveSubsumed, Strengthen, StrengthenToUnit
<1>2. ~InConflict'
  BY DEF RemoveSubsumed, Strengthen, StrengthenToUnit, InConflict
<1>3. FreeTrail'
  <2>1. CASE StrengthenToUnit
    <3>1. PICK o \in Lit : \/ trail' = Append(trail, Entry(o, 0, NoReason))
                           \/ UNCHANGED trail
      BY <2>1 DEF StrengthenToUnit, Assert
    <3>2. NoReason \in Clause
      BY DEF NoReason, Clause
    <3> DEFINE e == Entry(o, 0, NoReason)
    <3>3. e \in EntryType /\ e.level = 0
          /\ (trail' = Append(trail, e) \/ UNCHANGED trail)
      BY <3>1, <3>2, EntryIsTyped
    <3> HIDE DEF e
    <3>4. UNCHANGED trail => FreeTrail'
      BY <1>1 DEF ElimOK, FreeTrail
    <3> QED BY <1>1, <3>3, <3>4, FreeGrown DEF ElimOK
  <2>2. CASE UNCHANGED trail
    BY <1>1, <2>2 DEF ElimOK, FreeTrail
  <2> QED BY <2>1, <2>2 DEF RemoveSubsumed, Strengthen, trailVars
<1>4. \A d \in DB' : \E e \in DB : d.lits \subseteq e.lits
  <2>1. CASE RemoveSubsumed \/ StrengthenToUnit
    BY <1>1, <2>1 DEF RemoveSubsumed, StrengthenToUnit, DB
  <2>2. CASE Strengthen
    <3>1. PICK d \in clauses, l \in cur : \E w \in SUBSET Without(d, l) :
            clauses' = (clauses \ {d}) \cup {Attached(Without(d, l), w)}
      BY <2>2 DEF Strengthen
    <3>2. \A c \in clauses' : c \in clauses \/ c.lits = Without(d, l)
      BY <3>1 DEF Attached
    <3> QED BY <1>1, <3>2 DEF DB, Without
  <2> QED BY <2>1, <2>2
<1>5. \A d \in DB' : Vars(d.lits) \cap eliminated \subseteq {elimvar}
  BY <1>4, VarsOfPart DEF ElimOK
<1> QED BY <1>1, <1>2, <1>3, <1>5 DEF ElimOK

LEMMA EliminateElim ==
  ASSUME Inv, PhaseOK, ElimOK, Eliminate
  PROVE  ElimOK'
<1>1. PICK v \in Variable : /\ eliminated' = eliminated \cup {v}
                            /\ elimvar' = v /\ adding' = Resolvents(v)
  BY DEF Eliminate, PhaseOK
<1>2. UNCHANGED <<clauses, learnts, trail, decisionLevel>> /\ pc = "vars"
      /\ pc' = "resolve"
  BY DEF Eliminate, dbVars, trailVars
<1>3. elimvar = 0 /\ ~(0 \in Variable)
  BY <1>2, NotEliminating DEF Resolving, InLoop, Variable
<1>4. \A c \in DB : Vars(c.lits) \cap eliminated = {}
  BY <1>3 DEF ElimOK, PhaseOK
<1>5. \A c \in DB' : Vars(c.lits) \cap eliminated' \subseteq {v}
  BY <1>1, <1>2, <1>4 DEF DB
<1>6. \A c \in clauses : Vars(c.lits) \cap eliminated = {}
  BY <1>4 DEF DB
<1>7. \A r \in adding' : Vars(r) \cap eliminated' = {}
  BY <1>1, <1>6, ResolventVars
<1>8. FreeTrail'
  <2>1. \A i \in 1..Len(trail) : ~(trail[i].level > 0)
    BY <1>2, RootReasons, AtRoot
  <2> QED BY <1>2, <2>1 DEF FreeTrail
<1> QED BY <1>1, <1>2, <1>5, <1>7, <1>8 DEF ElimOK, InConflict

LEMMA RemoveOldElim ==
  ASSUME Inv, PhaseOK, ElimOK, RemoveOld
  PROVE  ElimOK'
<1>1. /\ UNCHANGED <<eliminated, learnts, adding, trail>> /\ elimvar' = 0
      /\ clauses' = clauses \ Occurs(elimvar)
      /\ pc = "resolve" /\ pc' = "subsume"
  BY DEF RemoveOld, OldClauses, trailVars
<1>2. learnts = {}
  BY <1>1 DEF PhaseOK, Preprocessing
<1>3. \A c \in DB' : c \in DB /\ ~(elimvar \in Vars(c.lits))
  BY <1>1, <1>2 DEF DB, Occurs
<1>4. \A c \in DB' : Vars(c.lits) \cap eliminated = {}
  BY <1>3 DEF ElimOK
<1> QED BY <1>1, <1>4 DEF ElimOK, InConflict, FreeTrail

\* Above level 0 the variable of no clause is eliminated.
LEMMA CleanAboveRoot ==
  ASSUME Inv, PhaseOK, ElimOK, decisionLevel > 0, pc # "done"
  PROVE  /\ \A c \in DB : Vars(c.lits) \cap eliminated = {}
         /\ InConflict => Vars(out_learnt) \cap eliminated = {}
<1>1. ~Resolving
  BY DEF Inv, ControlOK, PcOK, Preprocessing, Resolving, InLoop
<1>2. elimvar = 0 /\ eliminated \subseteq Variable /\ ~(0 \in Variable)
  BY <1>1, NotEliminating DEF PhaseOK, Variable
<1> QED BY <1>2 DEF ElimOK

LEMMA LiteralFree ==
  ASSUME PhaseOK, NEW c \in Clause, Vars(c) \cap eliminated = {}, NEW l \in c
  PROVE  l \notin eliminated /\ -l \notin eliminated
<1>1. l \in Lit /\ eliminated \in SUBSET Variable /\ {l} \subseteq c
  BY DEF Clause, PhaseOK
<1>2. Vars({l}) \subseteq Vars(c)
  BY <1>1, VarsOfPart
<1> QED BY <1>1, <1>2, VarOfLit

LEMMA PropagateElim ==
  ASSUME Inv, PhaseOK, ElimOK, Propagate, UNCHANGED Rest
  PROVE  ElimOK'
<1>1. UNCHANGED <<eliminated, elimvar, adding>> /\ pc = "propagate"
  BY DEF Rest, simpVars, Propagate, PropagateNext, SkipClause, MoveWatch,
         EnqueueUnit, ConflictFound, PropagateDone
<1>2. \A d \in DB' : \E e \in DB : d.lits = e.lits
  <2>1. CASE MoveWatch
    <3>1. PICK c \in todo : \E w :
            /\ clauses' = Rewatch(clauses, c, Attached(c.lits, w))
            /\ learnts' = Rewatch(learnts, c, Attached(c.lits, w))
      BY <2>1 DEF MoveWatch
    <3>2. c \in DB
      BY DEF Inv, ControlOK, DataOK
    <3> QED BY <3>1, <3>2 DEF DB, Rewatch, Attached
  <2>2. CASE UNCHANGED <<clauses, learnts>>
    BY <2>2 DEF DB
  <2> QED BY <2>1, <2>2 DEF Propagate, PropagateNext, SkipClause, EnqueueUnit,
                            ConflictFound, PropagateDone, dbVars
<1>3. \A d \in DB' : Vars(d.lits) \cap eliminated \subseteq {elimvar}
  BY <1>2 DEF ElimOK
<1>4. InConflict' => Vars(out_learnt') \cap eliminated \subseteq {elimvar}
  <2>1. CASE ConflictFound
    <3>1. PICK c \in todo : out_learnt' = c.lits
      BY <2>1 DEF ConflictFound
    <3>2. c \in DB
      BY DEF Inv, ControlOK, DataOK
    <3> QED BY <3>1, <3>2 DEF ElimOK
  <2>2. CASE ~ConflictFound
    BY <2>2 DEF InConflict, Propagate, PropagateNext, SkipClause, MoveWatch,
                EnqueueUnit, PropagateDone, Inv, ControlOK, PcOK
  <2> QED BY <2>1, <2>2
<1>5. FreeTrail'
  <2>1. CASE EnqueueUnit
    <3>1. PICK c \in todo, o \in Lit :
            /\ o \in c.lits
            /\ trail' = Append(trail, Entry(o, decisionLevel, c.lits))
      BY <2>1 DEF EnqueueUnit, Inv, ControlOK, DataOK, Clause
    <3>2. c \in DB /\ c.lits \in Clause /\ decisionLevel \in Nat
      BY DEF Inv, ControlOK, DataOK, TrailOK, TrailIs
    <3> DEFINE e == Entry(o, decisionLevel, c.lits)
    <3>3. e \in EntryType /\ e.lit = o /\ e.level = decisionLevel
      BY <3>2, EntryIsTyped
    <3>4. trail' = Append(trail, e)
      BY <3>1
    <3> HIDE DEF e
    <3>5. decisionLevel > 0 => o \notin eliminated /\ -o \notin eliminated
      BY <1>1, <3>1, <3>2, CleanAboveRoot, LiteralFree
    <3>6. FreeTrail
      BY DEF ElimOK
    <3> QED BY <1>1, <3>3, <3>4, <3>5, <3>6, FreeGrown
  <2>2. CASE UNCHANGED trail
    BY <1>1, <2>2 DEF ElimOK, FreeTrail
  <2> QED BY <2>1, <2>2 DEF Propagate, PropagateNext, SkipClause, MoveWatch,
                            ConflictFound, PropagateDone, trailVars
<1> QED BY <1>1, <1>3, <1>4, <1>5 DEF ElimOK

LEMMA AnalyzeElim ==
  ASSUME Inv, PhaseOK, ElimOK, AnalyzedOK, StartAnalyze \/ Resolve,
         UNCHANGED Rest
  PROVE  ElimOK'
<1>1. UNCHANGED <<eliminated, elimvar, adding, clauses, learnts, trail>>
  BY DEF Rest, simpVars, StartAnalyze, Resolve, dbVars, trailVars
<1>2. InConflict /\ decisionLevel > 0 /\ pc # "done"
  BY DEF StartAnalyze, Resolve, InConflict, Inv, ControlOK, PcOK
<1>3. Vars(out_learnt) \cap eliminated = {}
  BY <1>2, CleanAboveRoot
<1>4. Vars(out_learnt') \cap eliminated = {}
  <2>1. CASE StartAnalyze
    <3>1. out_learnt' \subseteq out_learnt
      BY <2>1 DEF StartAnalyze, AboveRoot
    <3> QED BY <1>3, <3>1, VarsOfPart
  <2>2. CASE Resolve
    <3>1. PICK i \in 1..Len(trail) :
            /\ -trail[i].lit \in out_learnt /\ trail[i].from # NoReason
            /\ out_learnt' = (out_learnt \ {-trail[i].lit})
                               \cup AboveRoot(trail[i].from \ {trail[i].lit})
      BY <2>2 DEF Resolve
    <3>2. ~LevelIs(-trail[i].lit, 0) /\ trail[i].lit \in Lit
          /\ trail[i].level \in Nat
      BY <2>2, <3>1, TrailEntry DEF AnalyzedOK, Resolve, Inv
    <3>3. trail[i].level # 0
      BY <3>2, LitNeg DEF LevelIs
    <3>4. PICK c \in DB : c.lits = trail[i].from
      BY <3>1, <3>2, <3>3 DEF Inv, ReasonsHeld
    <3>5. Vars(c.lits) \cap eliminated = {}
      BY <1>2, CleanAboveRoot
    <3>6. out_learnt' \subseteq out_learnt \cup c.lits
      BY <3>1, <3>4 DEF AboveRoot
    <3>7. Vars(out_learnt') \subseteq Vars(out_learnt) \cup Vars(c.lits)
      BY <3>6 DEF Vars
    <3> QED BY <1>3, <3>5, <3>7
  <2> QED BY <2>1, <2>2
<1>5. FreeTrail'
  BY <1>1 DEF ElimOK, FreeTrail
<1> QED BY <1>1, <1>4, <1>5 DEF ElimOK, DB

LEMMA LearnElim ==
  ASSUME Inv, PhaseOK, ElimOK, QueueOK, Learn, UNCHANGED Rest
  PROVE  ElimOK'
<1>1. UNCHANGED <<eliminated, elimvar, adding, clauses>> /\ pc = "analyze"
      /\ pc' = "propagate"
  BY DEF Rest, simpVars, Learn
<1>2. InConflict /\ decisionLevel > 0
  BY <1>1 DEF InConflict, Inv, ControlOK, PcOK
<1>3. /\ \A d \in DB : Vars(d.lits) \cap eliminated = {}
      /\ Vars(out_learnt) \cap eliminated = {} /\ out_learnt \in Clause
  BY <1>1, <1>2, CleanAboveRoot DEF Inv, ControlOK, DataOK
<1>0. PICK u \in Lit, k \in Nat, n \in 0..Len(trail), c \in Clause :
        LearnsTo(u, k, n, c)
  BY LearnFacts
<1>4. /\ u \in c /\ c \subseteq out_learnt
      /\ Len(trail') = n + 1 /\ trail'[n + 1].lit = u
      /\ \A i \in 1..n : i \in 1..Len(trail) /\ trail'[i] = trail[i]
      /\ UNCHANGED learnts \/ \E w : learnts' = learnts \cup {Attached(c, w)}
  BY <1>0 DEF LearnsTo
<1>5. \A d \in DB' : Vars(d.lits) \cap eliminated = {}
  <2>1. \A d \in DB' : d \in DB \/ d.lits = c
    BY <1>1, <1>4 DEF DB, Attached
  <2>2. Vars(c) \cap eliminated = {}
    BY <1>3, <1>4, VarsOfPart
  <2> QED BY <1>3, <2>1, <2>2
<1>6. u \notin eliminated /\ -u \notin eliminated
  BY <1>3, <1>4, LiteralFree
<1>7. n \in Nat
  BY DEF Inv, TrailOK, TrailIs
<1>8. \A i \in 1..Len(trail') : i \in 1..n \/ i = n + 1
  BY <1>4, <1>7
<1>9. FreeTrail'
  BY <1>1, <1>4, <1>6, <1>8 DEF ElimOK, FreeTrail
<1> QED BY <1>1, <1>5, <1>9 DEF ElimOK, InConflict

LEMMA DecideElim ==
  ASSUME Inv, PhaseOK, ElimOK, Decide(Variable \ eliminated), UNCHANGED Rest
  PROVE  ElimOK'
<1>1. UNCHANGED <<eliminated, elimvar, adding>> /\ pc' = "propagate"
      /\ DB' \subseteq DB
  BY DEF Rest, simpVars, Decide, DB, Unsatisfied
<1>2. PICK v \in Variable \ eliminated, l \in Lit :
        /\ l \in {v, -v}
        /\ trail' = Append(trail, Entry(l, decisionLevel + 1, NoReason))
  BY PhaseIsLiteral DEF Decide
<1> DEFINE e == Entry(l, decisionLevel + 1, NoReason)
<1>3. /\ l \in Lit /\ NoReason \in Clause /\ decisionLevel + 1 \in Nat
      /\ -(-v) = v /\ \A x \in Variable : ~(-x \in Variable)
  BY SolverAssumption
     DEF Variable, Lit, NoReason, Clause, Inv, TrailOK, TrailIs
<1>4. e \in EntryType /\ e.lit = l
  BY <1>3, EntryIsTyped
<1>5. trail' = Append(trail, e)
  BY <1>2
<1> HIDE DEF e
<1>6. l \notin eliminated /\ -l \notin eliminated
  BY <1>2, <1>3 DEF PhaseOK
<1>7. FreeTrail'
  BY <1>1, <1>4, <1>5, <1>6, FreeGrown DEF ElimOK
<1> QED BY <1>1, <1>7 DEF ElimOK, InConflict

LEMMA NextElim ==
  Inv /\ PhaseOK /\ ElimOK /\ AnalyzedOK /\ QueueOK /\ [Next]_vars => ElimOK'
<1> SUFFICES ASSUME Inv, PhaseOK, ElimOK, AnalyzedOK, QueueOK, [Next]_vars
             PROVE  ElimOK'
  OBVIOUS
<1>1. CASE (Propagate \/ Search) /\ UNCHANGED <<run, input, simpVars, outVars>>
  <2>1. CASE Restart
    <3>1. PICK n \in 0..Len(trail) : trail' = SubSeq(trail, 1, n)
      BY <2>1 DEF Restart
    <3>2. UNCHANGED <<eliminated, elimvar, adding, DB>> /\ ~InConflict'
      BY <1>1, <2>1 DEF Restart, simpVars, dbVars, DB, InConflict
    <3>3. FreeTrail'
      BY <3>1, <3>2, FreeCut DEF ElimOK
    <3> QED BY <3>2, <3>3 DEF ElimOK
  <2>2. CASE AllAssigned(Variable \ eliminated)
    BY <1>1, <2>2 DEF AllAssigned, ElimOK, FreeTrail, simpVars, dbVars,
                      trailVars, DB, InConflict
  <2> QED BY <1>1, <2>1, <2>2, PropagateElim, AnalyzeElim, LearnElim, DecideElim
          DEF Search, Rest
<1>2. CASE StoreModel
  <2>1. PICK n \in 0..Len(trail) : trail' = SubSeq(trail, 1, n)
    BY <1>2 DEF StoreModel
  <2>2. UNCHANGED <<eliminated, elimvar, adding, DB>> /\ ~InConflict'
    BY <1>2 DEF StoreModel, simpVars, dbVars, DB, InConflict
  <2>3. FreeTrail'
    BY <2>1, <2>2, FreeCut DEF ElimOK
  <2> QED BY <2>2, <2>3 DEF ElimOK
<1>3. CASE /\ UNCHANGED <<eliminated, elimvar, adding, clauses, learnts, trail>>
           /\ UNCHANGED <<pc, out_learnt>> \/ ~InConflict'
  <2>1. FreeTrail' /\ DB' = DB
    BY <1>3 DEF ElimOK, FreeTrail, DB
  <2> QED BY <1>3, <2>1 DEF ElimOK, InConflict
<1> QED BY <1>1, <1>2, <1>3, AddElim, SubsumeElim, EliminateElim, RemoveOldElim
  DEF Next, Step, Terminated, Preprocess, Finish, ParseDone,
      GatherTouched, EliminateDone, SubsumeInterrupted, PopQueue, PopAssign,
      ScanDone, SubsumeDone, VarsInterrupted, VarsDone, SkipVariable,
      ConflictAtRoot, ExtendModel, PrintModel, PrintIndeterminate, Interrupt,
      InConflict, vars, coreVars, dbVars, trailVars, simpVars

-----------------------------------------------------------------------------
(* Simplification: what cur is, and the literals of level 0 that have been  *)
(* used up.                                                                 *)

\* cur is a clause that is there, or a literal of the trail.
CurOK ==
  pc # "done" /\ cur # {} =>
    \/ \E d \in clauses : d.lits = cur
    \/ \E i \in 1..Len(trail) : cur = {trail[i].lit}

\* No clause mentions a variable of the trail that has been used up, except
\* while its literal is being used.
CleanOK ==
  Simplifying =>
    /\ bwdsub_assigns <= Len(trail)
    /\ ~asynch_interrupt =>
         \A i \in 1..bwdsub_assigns, c \in clauses :
           cur # {trail[i].lit} => trail[i].lit \notin c.lits
                                   /\ -trail[i].lit \notin c.lits

\* Where the simplification goes on, no literal leaves the trail.
LEMMA SimplifyFrame ==
  ASSUME Inv, PhaseOK, [Next]_vars, Simplifying' \/ cur' # {}, pc' # "done"
  PROVE  /\ Simplifying \/ ParseDone
         /\ Len(trail) \in Nat /\ Len(trail') \in Nat /\ Len(trail') >= Len(trail)
         /\ \A i \in 1..Len(trail) : trail'[i] = trail[i]
         /\ asynch_interrupt => asynch_interrupt'
<1> DEFINE Goal == /\ Simplifying \/ ParseDone
                   /\ UNCHANGED trail \/ \E e \in EntryType : trail' = Append(trail, e)
                   /\ asynch_interrupt => asynch_interrupt'
<1> SUFFICES Goal
  <2>1. trail \in Seq(EntryType)
    BY DEF Inv, TrailOK, TrailIs
  <2>2. ASSUME NEW e \in EntryType, trail' = Append(trail, e)
        PROVE  /\ Len(trail) \in Nat /\ Len(trail') \in Nat
               /\ Len(trail') >= Len(trail)
               /\ \A i \in 1..Len(trail) : trail'[i] = trail[i]
    BY <2>1, <2>2, AppendFacts
  <2>3. ASSUME UNCHANGED trail
        PROVE  /\ Len(trail) \in Nat /\ Len(trail') \in Nat
               /\ Len(trail') >= Len(trail)
               /\ \A i \in 1..Len(trail) : trail'[i] = trail[i]
    BY <2>1, <2>3
  <2> QED BY <2>2, <2>3
<1> USE DEF Simplifying, Subsuming, Resolving, InLoop
<1>1. NoReason \in Clause /\ 0 \in Nat
  BY DEF NoReason, Clause
<1>2. ASSUME NEW l \in Lit PROVE \E e \in EntryType : Assert(l) = Append(trail, e)
  BY <1>1, EntryIsTyped DEF Assert
<1>3. cur # {} => pc = "done" \/ Subsuming
  BY DEF PhaseOK
<1>4. CASE ReadClause
  <2>1. pc' \in {"parse", "done"} \/ (pc' = "propagate" /\ ret' = "parse")
    BY <1>4 DEF ReadClause, AddClause, AddNothing, AddEmpty, AddUnit, AddLong
  <2> QED BY <1>3, <1>4, <2>1 DEF ReadClause
<1>5. CASE AddResolvent
  <2>1. PICK c \in Clause : AddClause(c)
    BY <1>5 DEF AddResolvent, Inv, ControlOK, DataOK
  <2>2. UNCHANGED trail \/ \E l \in Lit : trail' = Assert(l)
    BY <2>1 DEF AddClause, AddNothing, AddEmpty, AddUnit, AddLong, Clause
  <2> QED BY <1>2, <1>5, <2>2 DEF AddResolvent
<1>6. CASE StrengthenToUnit
  <2>1. UNCHANGED trail \/ \E l \in Lit : trail' = Assert(l)
    BY <1>6 DEF StrengthenToUnit
  <2> QED BY <1>2, <1>6, <2>1 DEF StrengthenToUnit
<1>7. CASE Propagate /\ UNCHANGED <<run, input, simpVars, outVars>>
  <2>1. /\ pc = "propagate" /\ ret' = ret /\ asynch_interrupt' = asynch_interrupt
        /\ pc' \in {"propagate", "conflict", ret} /\ cur' = cur
    BY <1>7 DEF Propagate, PropagateNext, SkipClause, MoveWatch, EnqueueUnit,
                ConflictFound, PropagateDone, simpVars
  <2>2. Simplifying
    BY <1>3, <2>1 DEF Inv, ControlOK, PcOK
  <2>3. CASE EnqueueUnit
    <3>1. PICK c \in todo, o \in Lit :
            trail' = Append(trail, Entry(o, decisionLevel, c.lits))
      BY <2>3 DEF EnqueueUnit, Inv, ControlOK, DataOK, Clause
    <3>2. c.lits \in Clause /\ decisionLevel \in Nat
      BY DEF Inv, ControlOK, DataOK, TrailOK, TrailIs
    <3> QED BY <2>1, <2>2, <3>1, <3>2, EntryIsTyped
  <2>4. CASE UNCHANGED trail
    BY <2>1, <2>2, <2>4
  <2> QED BY <1>7, <2>3, <2>4
          DEF Propagate, PropagateNext, SkipClause, MoveWatch, ConflictFound,
              PropagateDone, trailVars
<1>8. CASE Search /\ UNCHANGED <<run, input, simpVars, outVars>>
  <2>1. /\ pc' \in {"analyze", "propagate", "interrupted", "model"}
        /\ pc' = "propagate" => ret' = "search"
        /\ pc \in {"conflict", "analyze", "search"}
        /\ pc = "conflict" => decisionLevel > 0
        /\ cur' = cur
    BY <1>8 DEF Search, StartAnalyze, Resolve, Learn, Restart, Decide,
                AllAssigned, simpVars
  <2>2. ~Subsuming
    BY <2>1 DEF Inv, ControlOK, PcOK, Preprocessing
  <2> QED BY <1>3, <2>1, <2>2
<1>9. CASE Finish
  BY <1>3, <1>9
     DEF Finish, ConflictAtRoot, StoreModel, ExtendModel, PrintModel,
         PrintIndeterminate, coreVars, trailVars, simpVars
<1>10. CASE Interrupt
  BY <1>10, <1>3 DEF Interrupt, trailVars, simpVars
<1>11. CASE UNCHANGED vars
  BY <1>11, <1>3 DEF vars, coreVars, trailVars, simpVars
<1>12. CASE Preprocess /\ ~ReadClause /\ ~AddResolvent /\ ~StrengthenToUnit
  BY <1>12
     DEF Preprocess, ParseDone, GatherTouched, EliminateDone, SubsumeInterrupted,
         PopQueue, PopAssign, RemoveSubsumed, Strengthen, ScanDone, SubsumeDone,
         VarsInterrupted, VarsDone, SkipVariable, Eliminate, RemoveOld,
         coreVars, trailVars
<1> QED BY <1>4, <1>5, <1>6, <1>7, <1>8, <1>9, <1>10, <1>11, <1>12
        DEF Next, Step, Terminated

\* The clauses that change during the simplification: d is one that was there,
\* or part of one, or its literals were not assigned.
LEMMA SimplifyClauses ==
  ASSUME Inv, PhaseOK, [Next]_vars, Simplifying, pc' # "done",
         NEW d \in clauses'
  PROVE  \/ \E c \in clauses : d.lits \subseteq c.lits
         \/ cur' = {} /\ cur = {} /\ bwdsub_assigns' = bwdsub_assigns
            /\ (\A l \in d.lits : Undef(l) /\ l \in Lit)
            /\ UNCHANGED trail
<1> USE DEF Simplifying, Subsuming, Resolving, InLoop
<1>1. CASE AddResolvent
  <2>1. PICK c \in Clause : AddClause(c)
    BY <1>1 DEF AddResolvent, Inv, ControlOK, DataOK
  <2>2. CASE UNCHANGED clauses
    BY <2>2
  <2>3. CASE AddLong(c)
    <3>1. PICK w : clauses' = clauses \cup {Attached(Remaining(c), w)}
      BY <2>3 DEF AddLong
    <3>2. d \in clauses \/ d.lits = Remaining(c)
      BY <3>1 DEF Attached
    <3>3. \A l \in Remaining(c) : Undef(l) /\ l \in Lit
      BY <2>3 DEF AddLong, Remaining, Undef, Clause
    <3>4. cur = {} /\ UNCHANGED <<cur, bwdsub_assigns, trail>>
      BY <1>1, <2>3 DEF AddResolvent, AddLong, PhaseOK
    <3> QED BY <3>2, <3>3, <3>4
  <2> QED BY <2>1, <2>2, <2>3 DEF AddClause, AddNothing, AddEmpty, AddUnit
<1>2. CASE Strengthen
  <2>1. PICK c \in clauses, l \in cur : \E w :
          clauses' = (clauses \ {c}) \cup {Attached(Without(c, l), w)}
    BY <1>2 DEF Strengthen
  <2>2. d \in clauses \/ d.lits = Without(c, l)
    BY <2>1 DEF Attached
  <2> QED BY <2>2 DEF Without
<1>3. CASE MoveWatch
  <2>1. PICK c \in todo : \E w : clauses' = Rewatch(clauses, c, Attached(c.lits, w))
    BY <1>3 DEF MoveWatch
  <2>2. d \in clauses \/ (c \in clauses /\ d.lits = c.lits)
    BY <2>1 DEF Attached, Rewatch
  <2> QED BY <2>2
<1>4. CASE clauses' \subseteq clauses
  BY <1>4
<1>5. ~ReadClause /\ ~ParseDone /\ ~(Search /\ pc # "conflict")
  BY DEF ReadClause, ParseDone, Search, StartAnalyze, Resolve, Learn, Restart,
         Decide, AllAssigned
<1>6. Search /\ pc = "conflict" => clauses' = clauses
  BY DEF Search, StartAnalyze, Resolve, Learn, Restart, Decide, AllAssigned,
         dbVars
<1> QED BY <1>1, <1>2, <1>3, <1>4, <1>5, <1>6
  DEF Next, Step, Terminated, Preprocess, Propagate, Finish,
      GatherTouched, EliminateDone, SubsumeInterrupted, PopQueue, PopAssign,
      RemoveSubsumed, StrengthenToUnit, ScanDone, SubsumeDone, VarsInterrupted,
      VarsDone, SkipVariable, Eliminate, RemoveOld, PropagateNext, SkipClause,
      EnqueueUnit, ConflictFound, PropagateDone, ConflictAtRoot, StoreModel,
      ExtendModel, PrintModel, PrintIndeterminate, Interrupt, vars, coreVars,
      dbVars

LEMMA NextCur == Inv /\ PhaseOK /\ CurOK /\ [Next]_vars => CurOK'
<1> SUFFICES ASSUME Inv, PhaseOK, CurOK, [Next]_vars, pc' # "done", cur' # {}
             PROVE  \/ \E d \in clauses' : d.lits = cur'
                    \/ \E i \in 1..Len(trail') : cur' = {trail'[i].lit}
  BY DEF CurOK
<1>1. /\ Simplifying \/ ParseDone
      /\ Len(trail) \in Nat /\ Len(trail') \in Nat /\ Len(trail') >= Len(trail)
      /\ \A i \in 1..Len(trail) : trail'[i] = trail[i]
  BY SimplifyFrame
<1>2. pc # "done" /\ cur # {} /\ ~Subsuming => FALSE
  BY DEF PhaseOK
<1>3. pc = "done" => FALSE
  BY <1>1 DEF Simplifying, Subsuming, Resolving, InLoop, ParseDone
<1>4. CASE PopQueue
  BY <1>4 DEF PopQueue, coreVars, dbVars
<1>5. CASE PopAssign
  <2>1. /\ cur' = {trail[bwdsub_assigns + 1].lit} /\ UNCHANGED trail
        /\ bwdsub_assigns + 1 \in 1..Len(trail)
    BY <1>5, <1>1 DEF PopAssign, coreVars, trailVars, Inv, ControlOK, DataOK
  <2> QED BY <2>1
<1>6. ASSUME cur' = cur, \A d \in clauses : d.lits = cur =>
               \E e \in clauses' : e.lits = cur
      PROVE  \/ \E d \in clauses' : d.lits = cur'
             \/ \E i \in 1..Len(trail') : cur' = {trail'[i].lit}
  <2>1. CASE \E i \in 1..Len(trail) : cur = {trail[i].lit}
    BY <1>1, <1>6, <2>1
  <2>2. CASE \E d \in clauses : d.lits = cur
    BY <1>6, <2>2
  <2> QED BY <1>3, <1>6, <2>1, <2>2 DEF CurOK
<1>7. CASE RemoveSubsumed
  <2>1. PICK d \in clauses : Subsumed(d) /\ clauses' = clauses \ {d}
    BY <1>7 DEF RemoveSubsumed
  <2>2. \A c \in clauses : c.lits = cur => \E e \in clauses' : e.lits = cur
    BY <2>1 DEF Subsumed
  <2>3. cur' = cur
    BY <1>7 DEF RemoveSubsumed
  <2> QED BY <1>6, <2>2, <2>3
<1>8. CASE Strengthen \/ StrengthenToUnit
  <2>1. PICK d \in clauses, l \in cur : Strengthens(l, d) /\ clauses \ {d} \subseteq clauses'
    BY <1>8 DEF Strengthen, StrengthenToUnit
  <2>2. d.lits # cur
    <3>1. ~Tautology(cur)
      BY DEF Inv, ControlOK, DataOK
    <3> QED BY <2>1, <3>1 DEF Strengthens, Tautology
  <2>3. cur' = cur
    BY <1>8 DEF Strengthen, StrengthenToUnit
  <2> QED BY <1>6, <2>1, <2>2, <2>3
<1>9. CASE MoveWatch /\ UNCHANGED <<run, input, simpVars, outVars>>
  <2>1. PICK c \in todo : \E w : clauses' = Rewatch(clauses, c, Attached(c.lits, w))
    BY <1>9 DEF MoveWatch
  <2>2. PICK b : clauses' = Rewatch(clauses, c, b) /\ b.lits = c.lits
    BY <2>1 DEF Attached
  <2>3. \A d \in clauses : d \in clauses' \/ (d = c /\ b \in clauses')
    BY <2>2 DEF Rewatch
  <2>4. cur' = cur
    BY <1>9 DEF simpVars
  <2> QED BY <1>6, <2>2, <2>3, <2>4
<1>10. CASE cur' = cur /\ clauses \subseteq clauses'
  BY <1>6, <1>10
<1>11. CASE pc \notin {"subsume", "propagate", "conflict"}
  <2>1. cur = {}
    BY <1>2, <1>3, <1>11 DEF Subsuming, InLoop
  <2>2. PopQueue \/ PopAssign \/ cur' \in {cur, {}}
    BY DEF Next, Step, Terminated, Preprocess, Finish, ReadClause, ParseDone,
      GatherTouched, EliminateDone, SubsumeInterrupted, RemoveSubsumed,
      Strengthen, StrengthenToUnit, ScanDone, SubsumeDone, VarsInterrupted,
      VarsDone, SkipVariable, Eliminate, AddResolvent, RemoveOld, StoreModel,
      ExtendModel, PrintModel, PrintIndeterminate, Interrupt, ConflictAtRoot,
      vars, simpVars
  <2> QED BY <1>11, <2>1, <2>2 DEF PopQueue, PopAssign
<1>12. pc \in {"subsume", "propagate", "conflict"} /\ Search => clauses' = clauses
  BY DEF Search, StartAnalyze, Resolve, Learn, Restart, Decide, AllAssigned,
         dbVars
<1> QED BY <1>4, <1>5, <1>7, <1>8, <1>9, <1>10, <1>11, <1>12
  DEF Next, Step, Terminated, Preprocess, Propagate, Finish, ReadClause,
      ParseDone, GatherTouched, EliminateDone, SubsumeInterrupted, ScanDone,
      SubsumeDone, VarsInterrupted, VarsDone, SkipVariable, Eliminate,
      AddResolvent, RemoveOld, PropagateNext, SkipClause, EnqueueUnit,
      ConflictFound, PropagateDone, ConflictAtRoot, StoreModel, ExtendModel,
      PrintModel, PrintIndeterminate, Interrupt, vars, coreVars, dbVars, simpVars

LEMMA NextClean ==
  Inv /\ PhaseOK /\ PairedOK /\ CleanOK /\ [Next]_vars => CleanOK'
<1> SUFFICES ASSUME Inv, PhaseOK, PairedOK, CleanOK, [Next]_vars, Simplifying'
             PROVE  /\ bwdsub_assigns' <= Len(trail')
                    /\ ~asynch_interrupt' =>
                         \A i \in 1..bwdsub_assigns', c \in clauses' :
                           cur' # {trail'[i].lit} => trail'[i].lit \notin c.lits
                                                   /\ -trail'[i].lit \notin c.lits
  BY DEF CleanOK
<1>1. pc' # "done"
  BY DEF Simplifying, Subsuming, Resolving, InLoop
<1>2. /\ Simplifying \/ ParseDone
      /\ Len(trail) \in Nat /\ Len(trail') \in Nat /\ Len(trail') >= Len(trail)
      /\ \A i \in 1..Len(trail) : trail'[i] = trail[i]
      /\ asynch_interrupt => asynch_interrupt'
  BY <1>1, SimplifyFrame
<1>3. CASE ParseDone
  <2>1. bwdsub_assigns' = 0
    BY <1>3 DEF ParseDone, simpVars, PhaseOK, Parsing
  <2> QED BY <1>2, <2>1
<1>4. ASSUME Simplifying
      PROVE  bwdsub_assigns' <= Len(trail')
  <2>1. bwdsub_assigns <= Len(trail) /\ bwdsub_assigns \in Nat
    BY <1>4 DEF CleanOK, Inv, ControlOK, DataOK
  <2>2. \/ bwdsub_assigns' = bwdsub_assigns
        \/ bwdsub_assigns' = bwdsub_assigns + 1 /\ bwdsub_assigns < Len(trail)
        \/ bwdsub_assigns' = Len(trail)
    BY DEF Next, Step, Terminated, Preprocess, Finish, ReadClause, ParseDone,
      GatherTouched, EliminateDone, SubsumeInterrupted, PopQueue, PopAssign,
      RemoveSubsumed, Strengthen, StrengthenToUnit, ScanDone, SubsumeDone,
      VarsInterrupted, VarsDone, SkipVariable, Eliminate, AddResolvent,
      RemoveOld, StoreModel, ExtendModel, PrintModel, PrintIndeterminate,
      Interrupt, ConflictAtRoot, vars, simpVars
  <2> QED BY <1>2, <2>1, <2>2
<1>5. ASSUME Simplifying, ~asynch_interrupt', NEW i \in 1..bwdsub_assigns',
             NEW d \in clauses', cur' # {trail'[i].lit}
      PROVE  trail'[i].lit \notin d.lits /\ -trail'[i].lit \notin d.lits
  <2>1. /\ bwdsub_assigns \in Nat /\ bwdsub_assigns <= Len(trail)
        /\ ~asynch_interrupt
        /\ \A j \in 1..bwdsub_assigns, c \in clauses :
             cur # {trail[j].lit} => trail[j].lit \notin c.lits
                                     /\ -trail[j].lit \notin c.lits
    BY <1>2, <1>5 DEF CleanOK, Inv, ControlOK, DataOK
  <2>2. CASE PopAssign
    <3>1. /\ cur' = {trail[bwdsub_assigns + 1].lit} /\ cur = {}
          /\ bwdsub_assigns' = bwdsub_assigns + 1 /\ UNCHANGED <<trail, clauses>>
      BY <2>2 DEF PopAssign, coreVars, trailVars, dbVars
    <3>2. i # bwdsub_assigns + 1
      BY <1>5, <3>1
    <3>3. i \in 1..bwdsub_assigns
      BY <1>5, <2>1, <3>1, <3>2
    <3> QED BY <1>5, <2>1, <3>1, <3>3
  <2>3. CASE ScanDone
    <3>1. /\ UNCHANGED <<trail, clauses, bwdsub_assigns>> /\ i \in 1..Len(trail)
          /\ \A c \in clauses : ~Subsumed(c) /\ \A l \in cur : ~Strengthens(l, c)
      BY <1>2, <1>5, <2>1, <2>3 DEF ScanDone, coreVars, trailVars, dbVars
    <3>2. CASE cur = {trail[i].lit}
      <4> DEFINE l == trail[i].lit
      <4>1. ~Subsumed(d) /\ ~Strengthens(l, d)
        BY <1>5, <3>1, <3>2
      <4>2. d.lits # cur
        <5>1. Paired(d)
          BY <1>5, <3>1 DEF PairedOK, DB
        <5> QED BY <3>2, <5>1 DEF Paired
      <4>3. l \notin d.lits
        BY <3>2, <4>1, <4>2 DEF Subsumed
      <4>4. -l \notin d.lits
        BY <3>2, <4>1 DEF Strengthens
      <4> QED BY <3>1, <4>3, <4>4
    <3>3. CASE cur # {trail[i].lit}
      BY <1>5, <2>1, <3>1, <3>3
    <3> QED BY <3>2, <3>3
  <2>4. CASE ~PopAssign /\ ~ScanDone
    <3>1. /\ bwdsub_assigns' = bwdsub_assigns
          /\ cur' = cur \/ (PopQueue /\ cur = {})
      <4>1. ~SubsumeInterrupted /\ ~VarsInterrupted
        BY <2>1 DEF SubsumeInterrupted, VarsInterrupted
      <4>2. PopQueue => cur = {} /\ bwdsub_assigns' = bwdsub_assigns
        BY DEF PopQueue
      <4>3. ~PopQueue => UNCHANGED <<bwdsub_assigns, cur>>
        BY <2>4, <4>1
        DEF Next, Step, Terminated, Preprocess, Finish, ReadClause, ParseDone,
          GatherTouched, EliminateDone, RemoveSubsumed, Strengthen,
          StrengthenToUnit, SubsumeDone, VarsDone, SkipVariable, Eliminate,
          AddResolvent, RemoveOld, StoreModel, ExtendModel, PrintModel,
          PrintIndeterminate, Interrupt, ConflictAtRoot, vars, simpVars
      <4> QED BY <4>2, <4>3
    <3>2. i \in 1..bwdsub_assigns /\ i \in 1..Len(trail) /\ trail'[i] = trail[i]
      BY <1>2, <1>5, <2>1, <3>1
    <3>3. cur # {trail[i].lit}
      BY <1>5, <3>1, <3>2
    <3>4. \A c \in clauses : trail[i].lit \notin c.lits
                             /\ -trail[i].lit \notin c.lits
      BY <2>1, <3>2, <3>3
    <3>5. CASE \E c \in clauses : d.lits \subseteq c.lits
      BY <3>2, <3>4, <3>5
    <3>6. CASE \A l \in d.lits : Undef(l) /\ l \in Lit
      <4> DEFINE x == trail[i].lit
      <4>1. x \in Lit /\ True(x)
        BY <3>2, TrailEntry DEF Inv, True
      <4>2. ~Undef(x) /\ ~Undef(-x)
        BY <4>1, LitNeg DEF Undef, False
      <4> QED BY <3>2, <3>6, <4>2
    <3> QED BY <1>1, <1>5, <3>5, <3>6, SimplifyClauses
  <2> QED BY <2>2, <2>3, <2>4
<1> QED BY <1>2, <1>3, <1>4, <1>5

-----------------------------------------------------------------------------
(* The watches.  When the negation of a watched literal has been propagated, *)
(* some literal of the clause was or became true, no later than that level.  *)
(* Literals of level 0 are exempt while the formula is simplified, when      *)
(* clauses are attached whatever the values of their literals, and for good  *)
(* once a signal has come, which can cut the simplification short.           *)

Exempt == Simplifying \/ asynch_interrupt

\* A literal of c is true at level k or below.
Witnessed(c, k) ==
  \E m \in 1..Len(trail) : trail[m].lit \in c.lits /\ trail[m].level <= k

\* propagate() has looked at clause c for entry i of the trail.  When there is
\* a conflict, it has done so for the levels below.
Visited(i, c) ==
  IF InConflict THEN trail[i].level < decisionLevel
                ELSE i < qhead \/ (i = qhead /\ c \notin todo)

WatchOK ==
  pc # "done" =>
    \A c \in DB, i \in 1..Len(trail) :
      /\ -trail[i].lit \in c.watch /\ Visited(i, c)
      /\ trail[i].level > 0 \/ ~Exempt
      => Witnessed(c, trail[i].level)

LEMMA InitWatch == Init => WatchOK
<1> SUFFICES ASSUME Init PROVE WatchOK
  OBVIOUS
<1>1. DB = {}
  BY DEF Init, DB
<1> QED BY <1>1 DEF WatchOK

\* The simplification is at level 0.
LEMMA SimplifyingWatch ==
  ASSUME Inv, Simplifying
  PROVE  WatchOK
<1>1. decisionLevel = 0
  BY DEF Inv, ControlOK, PcOK, Preprocessing, Simplifying, Subsuming, Resolving,
         InLoop
<1>2. \A i \in 1..Len(trail) : ~(trail[i].level > 0)
  BY <1>1, RootReasons
<1> QED BY <1>2 DEF WatchOK, Exempt

LEMMA ExemptStays ==
  ASSUME Inv, [Next]_vars, pc' # "done", Exempt
  PROVE  Exempt' \/ EliminateDone
<1> USE DEF Exempt, Simplifying, Subsuming, Resolving, InLoop
<1>1. asynch_interrupt => asynch_interrupt'
  BY DEF Next, Step, Terminated, Preprocess, Finish, Propagate, Search,
      ReadClause, ParseDone,
      GatherTouched, EliminateDone, SubsumeInterrupted, PopQueue, PopAssign,
      RemoveSubsumed, Strengthen, StrengthenToUnit, ScanDone, SubsumeDone,
      VarsInterrupted, VarsDone, SkipVariable, Eliminate, AddResolvent,
      RemoveOld, PropagateNext, SkipClause, MoveWatch, EnqueueUnit,
      ConflictFound, PropagateDone, StartAnalyze, Resolve, Learn, Restart,
      Decide, AllAssigned, ConflictAtRoot, StoreModel, ExtendModel, PrintModel,
      PrintIndeterminate, Interrupt, vars, coreVars
<1>2. ASSUME Simplifying, ~EliminateDone PROVE Simplifying'
  <2>1. CASE Propagate
    BY <1>2, <2>1
       DEF Propagate, PropagateNext, SkipClause, MoveWatch, EnqueueUnit,
           ConflictFound, PropagateDone
  <2>2. CASE Search
    BY <1>2, <2>2
       DEF Search, StartAnalyze, Resolve, Learn, Restart, Decide, AllAssigned,
           Inv, ControlOK, PcOK, Preprocessing
  <2>3. CASE AddResolvent
    <3>1. \E c : AddClause(c)
      BY <2>3 DEF AddResolvent
    <3> QED BY <2>3, <3>1 DEF AddResolvent, AddClause, AddNothing, AddEmpty,
                              AddUnit, AddLong
  <2>4. CASE StrengthenToUnit
    BY <2>4 DEF StrengthenToUnit
  <2>5. CASE Preprocess /\ ~AddResolvent /\ ~StrengthenToUnit
    BY <1>2, <2>5
       DEF Preprocess, ReadClause, ParseDone, GatherTouched, SubsumeInterrupted,
           PopQueue, PopAssign, RemoveSubsumed, Strengthen, ScanDone,
           SubsumeDone, VarsInterrupted, VarsDone, SkipVariable, Eliminate,
           RemoveOld, coreVars
  <2>6. CASE Finish \/ Interrupt \/ UNCHANGED vars
    BY <1>2, <2>6
       DEF Finish, ConflictAtRoot, StoreModel, ExtendModel, PrintModel,
           PrintIndeterminate, Interrupt, vars, coreVars
  <2> QED BY <2>1, <2>2, <2>3, <2>4, <2>5, <2>6 DEF Next, Step, Terminated
<1> QED BY <1>1, <1>2

\* Steps that leave the trail alone.
LEMMA WatchFrame ==
  ASSUME WatchOK, pc # "done", UNCHANGED trail, Exempt => Exempt',
         \A d \in DB', i \in 1..Len(trail) :
           -trail[i].lit \in d.watch /\ Visited(i, d)' =>
             \/ Witnessed(d, trail[i].level)
             \/ \E c \in DB : /\ c.lits = d.lits /\ -trail[i].lit \in c.watch
                              /\ Visited(i, c)
  PROVE  WatchOK'
<1> SUFFICES ASSUME NEW d \in DB', NEW i \in 1..Len(trail),
                    -trail[i].lit \in d.watch, Visited(i, d)',
                    trail[i].level > 0 \/ ~Exempt'
             PROVE  Witnessed(d, trail[i].level)
  BY DEF WatchOK, Witnessed
<1>1. CASE Witnessed(d, trail[i].level)
  BY <1>1
<1>2. ASSUME NEW c \in DB, c.lits = d.lits, -trail[i].lit \in c.watch,
             Visited(i, c)
      PROVE  Witnessed(d, trail[i].level)
  <2>1. Witnessed(c, trail[i].level)
    BY <1>2 DEF WatchOK
  <2> QED BY <1>2, <2>1 DEF Witnessed
<1> QED BY <1>1, <1>2

\* A literal more.
LEMMA WatchGrown ==
  ASSUME Inv, QueueOK, WatchOK, pc # "done", ~InConflict', Exempt => Exempt',
         NEW e \in EntryType, trail' = Append(trail, e), qhead' = qhead,
         \A d \in DB', i \in 1..Len(trail) :
           -trail[i].lit \in d.watch /\ (i < qhead \/ (i = qhead /\ d \notin todo')) =>
             \/ d \in DB /\ Visited(i, d)
             \/ e.lit \in d.lits /\ e.level <= trail[i].level
  PROVE  WatchOK'
<1>1. trail \in Seq(EntryType)
  BY DEF Inv, TrailOK, TrailIs
<1>2. /\ Len(trail) \in Nat /\ Len(trail') = Len(trail) + 1
      /\ \A i \in 1..Len(trail) : trail'[i] = trail[i]
      /\ trail'[Len(trail) + 1] = e
  BY <1>1, AppendFacts
<1> SUFFICES ASSUME NEW d \in DB', NEW i \in 1..Len(trail'),
                    -trail'[i].lit \in d.watch,
                    i < qhead \/ (i = qhead /\ d \notin todo'),
                    trail'[i].level > 0 \/ ~Exempt'
             PROVE  \E m \in 1..Len(trail') :
                      trail'[m].lit \in d.lits /\ trail'[m].level <= trail'[i].level
  BY DEF WatchOK, Witnessed, Visited
<1>3. i \in 1..Len(trail) /\ trail'[i] = trail[i]
  BY <1>2 DEF QueueOK
<1>4. CASE d \in DB /\ Visited(i, d)
  <2>1. Witnessed(d, trail[i].level)
    BY <1>3, <1>4 DEF WatchOK
  <2> QED BY <1>2, <1>3, <2>1 DEF Witnessed
<1>5. CASE e.lit \in d.lits /\ e.level <= trail[i].level
  BY <1>2, <1>3, <1>5
<1> QED BY <1>3, <1>4, <1>5

\* A cut keeps what witnesses the entries kept.
LEMMA CutWitness ==
  ASSUME TrailOK, NEW k \in Nat, NEW n \in 0..Len(trail), CutsTo(n, k),
         NEW i \in 1..n, NEW c, Witnessed(c, trail[i].level)
  PROVE  \E m \in 1..n : trail[m].lit \in c.lits /\ trail[m].level <= trail[i].level
<1>1. PICK m \in 1..Len(trail) :
        trail[m].lit \in c.lits /\ trail[m].level <= trail[i].level
  BY DEF Witnessed
<1>2. Len(trail) \in Nat /\ i \in 1..Len(trail)
  BY DEF TrailOK, TrailIs
<1>3. trail[i].level <= k
  BY DEF CutsTo
<1>4. trail[m].level \in Nat /\ trail[i].level \in Nat
  BY <1>2, TrailEntry
<1>5. m <= n
  BY <1>1, <1>3, <1>4, CutKeeps
<1> QED BY <1>1, <1>2, <1>5

LEMMA PropagateWatch ==
  ASSUME Inv, QueueOK, WatchOK, Propagate, Exempt => Exempt'
  PROVE  WatchOK'
<1>1. pc = "propagate" /\ ~InConflict
  BY DEF Propagate, PropagateNext, SkipClause, MoveWatch, EnqueueUnit,
         ConflictFound, PropagateDone, InConflict
<1>2. Len(trail) \in Nat /\ decisionLevel \in Nat /\ todo \subseteq DB
  BY DEF Inv, TrailOK, TrailIs, ControlOK, DataOK
<1>3. CASE PropagateNext
  <2>1. /\ UNCHANGED <<trail, clauses, learnts, pc>> /\ todo = {}
        /\ qhead' = qhead + 1
        /\ todo' = {c \in DB : -trail[qhead + 1].lit \in c.watch}
    BY <1>3 DEF PropagateNext, dbVars
  <2>2. \A d \in DB', i \in 1..Len(trail) :
          -trail[i].lit \in d.watch /\ Visited(i, d)' => d \in DB /\ Visited(i, d)
    BY <1>1, <1>2, <2>1 DEF Visited, DB, QueueOK, InConflict
  <2> QED BY <1>1, <2>1, <2>2, WatchFrame
<1>4. CASE SkipClause
  <2>1. PICK c \in todo : (\E l \in c.lits : True(l)) /\ todo' = todo \ {c}
    BY <1>4 DEF SkipClause
  <2>2. UNCHANGED <<trail, clauses, learnts, pc, qhead>>
    BY <1>4 DEF SkipClause, dbVars, trailVars
  <2>3. PICK m \in 1..Len(trail) : trail[m].lit \in c.lits
    BY <2>1 DEF True
  <2>4. trail[m].level <= decisionLevel
    BY TrailEntry DEF Inv
  <2>5. qhead \in 1..Len(trail) => trail[qhead].level = decisionLevel
    BY <1>1, <2>1 DEF QueueOK
  <2>6. \A d \in DB', i \in 1..Len(trail) :
          -trail[i].lit \in d.watch /\ Visited(i, d)' =>
            Witnessed(d, trail[i].level) \/ (d \in DB /\ Visited(i, d))
    <3> SUFFICES ASSUME NEW d \in DB', NEW i \in 1..Len(trail), Visited(i, d)'
                 PROVE  Witnessed(d, trail[i].level) \/ (d \in DB /\ Visited(i, d))
      OBVIOUS
    <3>1. CASE i = qhead /\ d = c
      BY <2>3, <2>4, <2>5, <3>1 DEF Witnessed
    <3>2. CASE ~(i = qhead /\ d = c)
      BY <1>1, <2>1, <2>2, <3>2 DEF Visited, InConflict, DB
    <3> QED BY <3>1, <3>2
  <2> QED BY <1>1, <2>2, <2>6, WatchFrame
<1>5. CASE MoveWatch
  <2>1. PICK c \in todo : \E o \in c.watch \ {-p}, l \in c.lits \ c.watch :
          /\ MayWatch(l)
          /\ clauses' = Rewatch(clauses, c, Attached(c.lits, {o, l}))
          /\ learnts' = Rewatch(learnts, c, Attached(c.lits, {o, l}))
          /\ todo' = todo \ {c}
    BY <1>5 DEF MoveWatch
  <2>2. PICK o \in c.watch \ {-p}, l \in c.lits \ c.watch :
          /\ MayWatch(l)
          /\ clauses' = Rewatch(clauses, c, Attached(c.lits, {o, l}))
          /\ learnts' = Rewatch(learnts, c, Attached(c.lits, {o, l}))
          /\ todo' = todo \ {c}
    BY <2>1
  <2> DEFINE b == Attached(c.lits, {o, l})
  <2>3. b.lits = c.lits /\ b.watch = {o, l}
    BY DEF Attached
  <2> HIDE DEF b
  <2>4. \A d \in DB' : d = b \/ (d \in DB /\ (d # c \/ d = b))
    BY <2>2 DEF DB, Rewatch, b
  <2>5. UNCHANGED <<trail, pc, qhead>> /\ todo' = todo \ {c} /\ c \in DB
    BY <1>2, <1>5, <2>2 DEF MoveWatch, trailVars
  <2>6. \A i \in 1..Len(trail) : -trail[i].lit # l
    <3>1. l \in Lit
      BY <2>5 DEF Inv, ControlOK, DataOK, Clause
    <3>2. \A i \in 1..Len(trail) : trail[i].lit \in Lit
      BY TrailEntry DEF Inv
    <3>3. \A i \in 1..Len(trail) : trail[i].lit # -l
      BY <2>2 DEF MayWatch, False, True
    <3> QED BY <3>1, <3>2, <3>3, LitNeg
  <2>7. \A d \in DB', i \in 1..Len(trail) :
          -trail[i].lit \in d.watch /\ Visited(i, d)' =>
            \E e \in DB : /\ e.lits = d.lits /\ -trail[i].lit \in e.watch
                          /\ Visited(i, e)
    <3> SUFFICES ASSUME NEW d \in DB', NEW i \in 1..Len(trail), Visited(i, d)',
                        -trail[i].lit \in d.watch
                 PROVE  \E e \in DB : /\ e.lits = d.lits
                                      /\ -trail[i].lit \in e.watch
                                      /\ Visited(i, e)
      OBVIOUS
    <3>1. CASE d = b
      <4>1. -trail[i].lit = o /\ i # qhead
        BY <2>3, <2>6, <3>1 DEF p
      <4>2. i < qhead
        BY <1>1, <2>5, <4>1 DEF Visited, InConflict
      <4> QED BY <1>1, <2>2, <2>3, <2>5, <3>1, <4>1, <4>2 DEF Visited
    <3>2. CASE d \in DB /\ d # c
      BY <1>1, <2>5, <3>2 DEF Visited, InConflict
    <3> QED BY <2>4, <3>1, <3>2
  <2> QED BY <1>1, <2>5, <2>7, WatchFrame
<1>6. CASE EnqueueUnit
  <2>1. PICK c \in todo, o \in Lit :
          /\ o \in c.lits /\ todo' = todo \ {c}
          /\ trail' = Append(trail, Entry(o, decisionLevel, c.lits))
    BY <1>6 DEF EnqueueUnit, Inv, ControlOK, DataOK, Clause
  <2>2. UNCHANGED <<clauses, learnts, pc, qhead>>
    BY <1>6 DEF EnqueueUnit, dbVars
  <2>3. c.lits \in Clause
    BY <1>2 DEF Inv, ControlOK, DataOK
  <2> DEFINE e == Entry(o, decisionLevel, c.lits)
  <2>4. e \in EntryType /\ e.lit = o /\ e.level = decisionLevel
    BY <1>2, <2>3, EntryIsTyped
  <2>5. trail' = Append(trail, e)
    BY <2>1
  <2> HIDE DEF e
  <2>6. qhead \in 1..Len(trail) => trail[qhead].level = decisionLevel
    BY <1>1, <2>1 DEF QueueOK
  <2>7. \A d \in DB', i \in 1..Len(trail) :
          i < qhead \/ (i = qhead /\ d \notin todo') =>
            \/ d \in DB /\ Visited(i, d)
            \/ e.lit \in d.lits /\ e.level <= trail[i].level
    BY <1>1, <1>2, <2>1, <2>2, <2>4, <2>6 DEF Visited, DB
  <2>8. ~InConflict'
    BY <1>1, <2>2 DEF InConflict
  <2> QED BY <1>1, <2>2, <2>4, <2>5, <2>7, <2>8, WatchGrown
<1>7. CASE ConflictFound
  <2>1. UNCHANGED <<trail, clauses, learnts, decisionLevel>> /\ pc' = "conflict"
        /\ todo # {}
    BY <1>7 DEF ConflictFound, dbVars
  <2>2. \A i \in 1..Len(trail) :
          trail[i].level < decisionLevel => i < qhead
    <3> SUFFICES ASSUME NEW i \in 1..Len(trail), ~(i < qhead)
                 PROVE  ~(trail[i].level < decisionLevel)
      OBVIOUS
    <3>1. trail[i].level = decisionLevel
      BY <1>1, <1>2, <2>1 DEF QueueOK
    <3> QED BY <1>2, <3>1
  <2>3. \A d \in DB', i \in 1..Len(trail) :
          Visited(i, d)' => d \in DB /\ Visited(i, d)
    BY <1>1, <2>1, <2>2 DEF Visited, DB, InConflict
  <2> QED BY <1>1, <2>1, <2>3, WatchFrame
<1>8. CASE PropagateDone
  <2>1. UNCHANGED <<trail, clauses, learnts, qhead, todo>> /\ ~InConflict'
    BY <1>8 DEF PropagateDone, dbVars, trailVars, Inv, ControlOK, PcOK, InConflict
  <2>2. \A d \in DB', i \in 1..Len(trail) :
          Visited(i, d)' => d \in DB /\ Visited(i, d)
    BY <1>1, <2>1 DEF Visited, DB
  <2> QED BY <1>1, <2>1, <2>2, WatchFrame
<1> QED BY <1>3, <1>4, <1>5, <1>6, <1>7, <1>8 DEF Propagate

LEMMA SimplifyingWatchNext == Inv' /\ Simplifying' => WatchOK'
<1>1. Inv /\ Simplifying => WatchOK
  BY SimplifyingWatch
<1> QED BY <1>1, PTL

LEMMA LearnWatch ==
  ASSUME Inv, QueueOK, WatchOK, Learn
  PROVE  WatchOK'
<1>1. PICK u \in Lit, k \in Nat, n \in 0..Len(trail), c \in Clause :
        LearnsTo(u, k, n, c)
  BY LearnFacts
<1>2. /\ u \in c /\ k < decisionLevel /\ CutsTo(n, k)
      /\ Len(trail') = n + 1 /\ qhead' = n
      /\ \A i \in 1..n : /\ i \in 1..Len(trail) /\ trail'[i] = trail[i]
                         /\ trail[i].lit # -u
      /\ trail'[n + 1].lit = u /\ trail'[n + 1].level = k
      /\ \A d \in DB' :
           \/ d \in DB
           \/ \E l \in c \ {u} : LevelIs(l, k) /\ d = Attached(c, {u, l})
  BY <1>1 DEF LearnsTo, Learn, DB
<1>3. /\ pc = "analyze" /\ pc' = "propagate" /\ ret' = "search" /\ todo' = {}
      /\ UNCHANGED asynch_interrupt
  BY DEF Learn, Inv, ControlOK, PcOK
<1>4. n \in Nat /\ decisionLevel \in Nat /\ TrailOK
  BY DEF Inv, TrailOK, TrailIs
<1>5. Exempt => Exempt'
  BY <1>3 DEF Exempt, Simplifying, Subsuming, Resolving, InLoop
<1> SUFFICES ASSUME NEW d \in DB', NEW i \in 1..Len(trail'),
                    -trail'[i].lit \in d.watch, Visited(i, d)',
                    trail'[i].level > 0 \/ ~Exempt'
             PROVE  \E m \in 1..Len(trail') :
                      trail'[m].lit \in d.lits /\ trail'[m].level <= trail'[i].level
  BY DEF WatchOK, Witnessed
<1>6. i \in 1..n
  BY <1>2, <1>3, <1>4 DEF Visited, InConflict
<1>7. /\ i \in 1..Len(trail) /\ trail'[i] = trail[i]
      /\ trail[i].lit \in Lit /\ trail[i].level \in Nat /\ trail[i].level <= k
  BY <1>2, <1>4, <1>6, TrailEntry DEF CutsTo
<1>8. CASE d \in DB
  <2>1. Visited(i, d)
    BY <1>2, <1>3, <1>4, <1>7 DEF Visited, InConflict
  <2>2. Witnessed(d, trail[i].level)
    BY <1>3, <1>5, <1>7, <1>8, <2>1 DEF WatchOK
  <2>3. PICK m \in 1..n :
          trail[m].lit \in d.lits /\ trail[m].level <= trail[i].level
    BY <1>2, <1>4, <1>6, <2>2, CutWitness
  <2> QED BY <1>2, <1>4, <1>7, <2>3
<1>9. ASSUME NEW l \in c \ {u}, LevelIs(l, k), d = Attached(c, {u, l})
      PROVE  \E m \in 1..Len(trail') :
               trail'[m].lit \in d.lits /\ trail'[m].level <= trail'[i].level
  <2>1. -trail[i].lit \in {u, l} /\ d.lits = c
    BY <1>7, <1>9 DEF Attached
  <2>2. l \in Lit
    BY DEF Clause
  <2>3. trail[i].lit = -l
    BY <1>2, <1>6, <1>7, <2>1, <2>2, LitNeg
  <2>4. PICK j \in 1..Len(trail) : trail[j].lit \in {l, -l} /\ trail[j].level = k
    BY <1>9 DEF LevelIs
  <2>5. j = i
    BY <1>4, <1>7, <2>2, <2>3, <2>4, LitNeg DEF TrailOK, TrailIs, Distinct
  <2>6. /\ n + 1 \in 1..Len(trail') /\ trail'[n + 1].lit \in d.lits
        /\ trail'[n + 1].level <= trail'[i].level
    BY <1>2, <1>4, <1>7, <2>1, <2>4, <2>5
  <2> QED BY <2>6
<1> QED BY <1>2, <1>8, <1>9

\* Back to level 0.
LEMMA CutWatch ==
  ASSUME Inv, QueueOK, WatchOK, Restart \/ StoreModel
  PROVE  WatchOK'
<1>1. PICK n \in 0..Len(trail) : CutsTo(n, 0) /\ trail' = SubSeq(trail, 1, n)
  BY DEF Restart, StoreModel
<1>2. /\ UNCHANGED <<dbVars, asynch_interrupt>> /\ pc \in {"search", "model"}
      /\ pc' \in {"propagate", "interrupted", "extend"}
      /\ pc' = "propagate" => ret' = "search"
  BY DEF Restart, StoreModel
<1>3. todo = {} /\ qhead = Len(trail) /\ TrailOK
  BY <1>2 DEF Inv, ControlOK, PcOK, QueueOK
<1>4. trail \in Seq(EntryType)
  BY DEF Inv, TrailOK, TrailIs
<1>5. /\ Len(trail') = n /\ n \in Nat /\ Len(trail) \in Nat /\ n <= Len(trail)
      /\ \A i \in 1..n : i \in 1..Len(trail) /\ trail'[i] = trail[i]
  BY <1>1, <1>4, CutFacts
<1>6. Exempt => Exempt'
  BY <1>2 DEF Exempt, Simplifying, Subsuming, Resolving, InLoop
<1> SUFFICES ASSUME NEW d \in DB', NEW i \in 1..Len(trail'),
                    -trail'[i].lit \in d.watch,
                    trail'[i].level > 0 \/ ~Exempt'
             PROVE  \E m \in 1..Len(trail') :
                      trail'[m].lit \in d.lits /\ trail'[m].level <= trail'[i].level
  BY DEF WatchOK, Witnessed
<1>7. d \in DB /\ i \in 1..n /\ i \in 1..Len(trail) /\ trail'[i] = trail[i]
  BY <1>2, <1>5 DEF DB, dbVars
<1>8. Visited(i, d)
  BY <1>2, <1>3, <1>5, <1>7 DEF Visited, InConflict
<1>9. Witnessed(d, trail[i].level)
  BY <1>2, <1>6, <1>7, <1>8 DEF WatchOK
<1>10. PICK m \in 1..n :
         trail[m].lit \in d.lits /\ trail[m].level <= trail[i].level
  <2>1. 0 \in Nat
    OBVIOUS
  <2> QED BY <1>1, <1>3, <1>7, <1>9, <2>1, CutWitness
<1> QED BY <1>5, <1>7, <1>10

LEMMA DecideWatch ==
  ASSUME Inv, QueueOK, WatchOK, Decide(Variable \ eliminated)
  PROVE  WatchOK'
<1>1. PICK v \in Variable \ eliminated :
        trail' = Append(trail, Entry(Phase(v), decisionLevel + 1, NoReason))
  BY DEF Decide
<1>2. /\ clauses' \subseteq clauses /\ learnts' \subseteq learnts
      /\ pc = "search" /\ pc' = "propagate" /\ ret' = "search"
      /\ UNCHANGED <<qhead, todo, asynch_interrupt>>
  BY DEF Decide, Unsatisfied
<1> DEFINE l == Phase(v)
           e == Entry(l, decisionLevel + 1, NoReason)
<1>3. l \in Lit /\ decisionLevel + 1 \in Nat /\ NoReason \in Clause
  BY PhaseIsLiteral DEF Inv, TrailOK, TrailIs, NoReason, Clause
<1>4. e \in EntryType
  BY <1>3, EntryIsTyped
<1>5. trail' = Append(trail, e)
  BY <1>1
<1> HIDE DEF e, l
<1>6. todo = {} /\ qhead = Len(trail)
  BY <1>2 DEF Inv, ControlOK, PcOK, QueueOK
<1>7. \A d \in DB', i \in 1..Len(trail) : d \in DB /\ Visited(i, d)
  <2>1. Len(trail) \in Nat
    BY DEF Inv, TrailOK, TrailIs
  <2> QED BY <1>2, <1>6, <2>1 DEF DB, Visited, InConflict
<1>8. Exempt => Exempt'
  BY <1>2 DEF Exempt, Simplifying, Subsuming, Resolving, InLoop
<1> QED BY <1>2, <1>4, <1>5, <1>7, <1>8, WatchGrown DEF InConflict

\* A clause that is read and attached has no literal that is assigned.
LEMMA ReadWatch ==
  ASSUME Inv, QueueOK, WatchOK, ReadClause, pc' # "done"
  PROVE  WatchOK'
<1>1. PICK c : AddClause(c) /\ c = Head(input)
  BY DEF ReadClause
<1>2. /\ pc = "parse" /\ UNCHANGED <<learnts, qhead, todo, asynch_interrupt>>
      /\ input # << >>
  BY DEF ReadClause
<1>3. todo = {} /\ qhead = Len(trail) /\ c \in Clause
  BY <1>1, <1>2 DEF Inv, ControlOK, PcOK, QueueOK, DataOK
<1>5. Exempt => Exempt'
  BY <1>2 DEF Exempt, Simplifying, Subsuming, Resolving, InLoop
<1>6. Len(trail) \in Nat
  BY DEF Inv, TrailOK, TrailIs
<1>7. CASE AddNothing(c)
  <2>1. \A d \in DB', i \in 1..Len(trail) : d \in DB /\ Visited(i, d)
    BY <1>2, <1>3, <1>6, <1>7 DEF AddNothing, DB, Visited, InConflict
  <2>2. UNCHANGED trail
    BY <1>7 DEF AddNothing
  <2> QED BY <1>2, <1>5, <2>1, <2>2, WatchFrame
<1>8. CASE AddUnit(c)
  <2>1. PICK l \in c : trail' = Append(trail, Entry(l, 0, NoReason))
    BY <1>8 DEF AddUnit, Assert
  <2>2. l \in Lit /\ NoReason \in Clause /\ 0 \in Nat
    BY <1>3 DEF Clause, NoReason
  <2> DEFINE e == Entry(l, 0, NoReason)
  <2>3. e \in EntryType
    BY <2>2, EntryIsTyped
  <2>4. trail' = Append(trail, e)
    BY <2>1
  <2> HIDE DEF e
  <2>5. pc' = "propagate" /\ UNCHANGED clauses
    BY <1>8 DEF AddUnit
  <2>6. \A d \in DB', i \in 1..Len(trail) : d \in DB /\ Visited(i, d)
    BY <1>2, <1>3, <1>6, <2>5 DEF DB, Visited, InConflict
  <2> QED BY <1>2, <1>5, <2>3, <2>4, <2>5, <2>6, WatchGrown DEF InConflict
<1>9. CASE AddLong(c)
  <2>1. PICK w \in SUBSET Remaining(c) :
          clauses' = clauses \cup {Attached(Remaining(c), w)}
    BY <1>9 DEF AddLong
  <2>2. \A l \in w : l \in Lit /\ ~False(l)
    BY <1>3 DEF Remaining, Clause
  <2>3. UNCHANGED <<trail, pc>>
    BY <1>9 DEF AddLong
  <2>4. \A i \in 1..Len(trail) : trail[i].lit \in Lit
    BY TrailEntry DEF Inv
  <2>5. \A i \in 1..Len(trail) : -trail[i].lit \notin w
    BY <2>2, <2>4, LitNeg DEF False, True
  <2>6. \A d \in DB' : d \in DB \/ d.watch = w
    BY <1>2, <2>1 DEF DB, Attached
  <2>7. \A d \in DB', i \in 1..Len(trail) :
          -trail[i].lit \in d.watch => d \in DB /\ Visited(i, d)
    BY <1>2, <1>3, <1>6, <2>5, <2>6 DEF Visited, InConflict
  <2> QED BY <1>2, <1>5, <2>3, <2>7, WatchFrame
<1>10. CASE AddEmpty(c)
  BY <1>10 DEF AddEmpty
<1> QED BY <1>1, <1>7, <1>8, <1>9, <1>10 DEF AddClause

\* Where no signal has come, every literal of the trail has been used up.
LEMMA EliminateDoneWatch ==
  ASSUME Inv, PhaseOK, CleanOK, EliminateDone
  PROVE  WatchOK'
<1>1. /\ pc = "eliminate" /\ bwdsub_assigns = Len(trail)
      /\ UNCHANGED <<trail, dbVars, asynch_interrupt>>
  BY DEF EliminateDone, trailVars
<1>2. cur = {} /\ learnts = {} /\ decisionLevel = 0 /\ Simplifying
  BY <1>1, AtRoot
     DEF PhaseOK, Preprocessing, Simplifying, Subsuming, InLoop, Inv, ControlOK
<1>3. \A i \in 1..Len(trail) : ~(trail[i].level > 0)
  BY <1>2, RootReasons
<1>4. CASE asynch_interrupt
  BY <1>1, <1>3, <1>4 DEF WatchOK, Exempt
<1>5. CASE ~asynch_interrupt
  <2>1. \A i \in 1..Len(trail), c \in clauses :
          -trail[i].lit \notin c.lits
    BY <1>1, <1>2, <1>5 DEF CleanOK
  <2>2. \A c \in DB' : c \in clauses /\ c.watch \subseteq c.lits
    BY <1>1, <1>2 DEF DB, dbVars, Inv, ControlOK, DataOK
  <2> QED BY <1>1, <2>1, <2>2 DEF WatchOK
<1> QED BY <1>4, <1>5

LEMMA NextWatch ==
  /\ Inv /\ PhaseOK /\ QueueOK /\ CleanOK /\ WatchOK /\ [Next]_vars
  => WatchOK'
<1> SUFFICES ASSUME Inv, PhaseOK, QueueOK, CleanOK, WatchOK, [Next]_vars,
                    pc' # "done", ~Simplifying'
             PROVE  WatchOK'
  BY NextInv, SimplifyingWatchNext DEF WatchOK
<1>1. pc # "done"
  BY DEF Next, Step, Terminated, Preprocess, Finish, Propagate, Search,
      ReadClause, ParseDone,
      GatherTouched, EliminateDone, SubsumeInterrupted, PopQueue, PopAssign,
      RemoveSubsumed, Strengthen, StrengthenToUnit, ScanDone, SubsumeDone,
      VarsInterrupted, VarsDone, SkipVariable, Eliminate, AddResolvent,
      RemoveOld, PropagateNext, SkipClause, MoveWatch, EnqueueUnit,
      ConflictFound, PropagateDone, StartAnalyze, Resolve, Learn, Restart,
      Decide, AllAssigned, ConflictAtRoot, StoreModel, ExtendModel, PrintModel,
      PrintIndeterminate, Interrupt, vars, coreVars
<1>2. (Exempt => Exempt') \/ EliminateDone
  BY ExemptStays
<1>3. Len(trail) \in Nat
  BY DEF Inv, TrailOK, TrailIs
<1>4. ASSUME UNCHANGED <<trail, qhead, todo, decisionLevel, dbVars, pc>>,
             Exempt => Exempt'
      PROVE  WatchOK'
  <2>1. \A d \in DB', i \in 1..Len(trail) :
          Visited(i, d)' => d \in DB /\ Visited(i, d)
    BY <1>4 DEF Visited, DB, dbVars, InConflict
  <2> QED BY <1>1, <1>4, <2>1, WatchFrame
<1>5. CASE ReadClause
  BY <1>5, ReadWatch
<1>6. CASE ParseDone
  <2>1. /\ UNCHANGED <<trail, qhead, todo, decisionLevel, dbVars>>
        /\ pc = "parse" /\ pc' \in {"eliminate", "propagate"} /\ ~EliminateDone
    BY <1>6 DEF ParseDone, trailVars, EliminateDone
  <2>2. \A d \in DB', i \in 1..Len(trail) :
          Visited(i, d)' => d \in DB /\ Visited(i, d)
    BY <2>1 DEF Visited, DB, dbVars, InConflict
  <2> QED BY <1>1, <1>2, <2>1, <2>2, WatchFrame
<1>7. CASE EliminateDone
  BY <1>7, EliminateDoneWatch
<1>8. CASE Preprocess /\ ~ReadClause /\ ~ParseDone /\ ~EliminateDone
  BY <1>8
     DEF Preprocess, GatherTouched, SubsumeInterrupted, PopQueue, PopAssign,
         RemoveSubsumed, Strengthen, StrengthenToUnit, ScanDone, SubsumeDone,
         VarsInterrupted, VarsDone, SkipVariable, Eliminate, AddResolvent,
         AddClause, AddNothing, AddEmpty, AddUnit, AddLong, RemoveOld,
         Simplifying, Subsuming, Resolving, InLoop, coreVars
<1>9. CASE Propagate
  <2>1. ~EliminateDone
    BY <1>9
       DEF Propagate, PropagateNext, SkipClause, MoveWatch, EnqueueUnit,
           ConflictFound, PropagateDone, EliminateDone
  <2> QED BY <1>2, <1>9, <2>1, PropagateWatch
<1>10. CASE Learn
  BY <1>10, LearnWatch
<1>11. CASE Restart \/ StoreModel
  BY <1>11, CutWatch
<1>12. CASE Decide(Variable \ eliminated)
  BY <1>12, DecideWatch
<1>13. CASE StartAnalyze \/ Resolve \/ AllAssigned(Variable \ eliminated)
  <2>1. /\ UNCHANGED <<trail, qhead, todo, decisionLevel, dbVars>>
        /\ InConflict' = InConflict /\ ~EliminateDone
    BY <1>13
       DEF StartAnalyze, Resolve, AllAssigned, trailVars, InConflict,
           EliminateDone
  <2>2. \A d \in DB', i \in 1..Len(trail) :
          Visited(i, d)' => d \in DB /\ Visited(i, d)
    BY <2>1 DEF Visited, DB, dbVars
  <2> QED BY <1>1, <1>2, <2>1, <2>2, WatchFrame
<1>14. CASE ExtendModel \/ UNCHANGED vars
  BY <1>1, <1>2, <1>4, <1>14
     DEF ExtendModel, EliminateDone, vars, coreVars, trailVars, dbVars
<1>15. CASE Interrupt
  BY <1>1, <1>4, <1>15 DEF Interrupt, Exempt, trailVars
<1>16. CASE PrintModel \/ PrintIndeterminate \/ ConflictAtRoot \/ Terminated
  BY <1>1, <1>16
     DEF PrintModel, PrintIndeterminate, ConflictAtRoot, Terminated
<1> QED
  BY <1>5, <1>6, <1>7, <1>8, <1>9, <1>10, <1>11, <1>12, <1>13, <1>14, <1>15,
     <1>16
     DEF Next, Step, Finish, Search

-----------------------------------------------------------------------------
(* The phases that are forced after a restart. *)

\* A variable has at most one of them.
ForcedOK ==
  newDescent \in BOOLEAN /\ forceUNSAT \in Clause /\ ~Tautology(forceUNSAT)

\* The literals of a clause that is false name each variable once.
LEMMA BumpedOK ==
  ASSUME Inv, ForcedOK, NEW c \in Clause, \A l \in c : False(l)
  PROVE  Bumped(c) \in Clause /\ ~Tautology(Bumped(c))
<1>1. \A l \in c : l \in Lit /\ -l \in Lit /\ -(-l) = l /\ -l # l
  BY LitNeg DEF Clause
<1>2. \A l \in c : -l \notin c
  <2> SUFFICES ASSUME NEW l \in c, -l \in c PROVE FALSE
    OBVIOUS
  <2>1. PICK i \in 1..Len(trail) : trail[i].lit = -l
    BY DEF False, True
  <2>2. PICK j \in 1..Len(trail) : trail[j].lit = l
    BY <1>1 DEF False, True
  <2> QED BY <1>1, <2>1, <2>2 DEF Inv, TrailOK, TrailIs, Distinct
<1>3. Bumped(c) \in Clause
  BY <1>1 DEF Bumped, ForcedOK, Clause
<1>4. ASSUME NEW l \in Bumped(c), -l \in Bumped(c)
      PROVE  FALSE
  <2>1. l \in Lit /\ -(-l) = l
    BY <1>3, LitNeg DEF Clause
  <2>2. CASE l \in forceUNSAT \ c /\ -l \in forceUNSAT \ c
    BY <2>2 DEF ForcedOK, Tautology
  <2>3. CASE -l \in c
    BY <1>1, <1>2, <1>4, <2>1, <2>3 DEF Bumped
  <2>4. CASE l \in c
    BY <1>1, <1>2, <2>1, <2>4 DEF Bumped
  <2> QED BY <1>1, <1>4, <2>1, <2>2, <2>3, <2>4 DEF Bumped
<1> QED BY <1>3, <1>4 DEF Tautology

LEMMA NextForced == Inv /\ ForcedOK /\ [Next]_vars => ForcedOK'
<1> SUFFICES ASSUME Inv, ForcedOK, [Next]_vars PROVE ForcedOK'
  OBVIOUS
<1>1. CASE StartAnalyze
  <2>1. AboveRoot(out_learnt) \in Clause
        /\ \A l \in AboveRoot(out_learnt) : False(l)
    BY <1>1 DEF StartAnalyze, AboveRoot, Inv, ControlOK, DataOK, Falsified,
                Clause
  <2> QED BY <1>1, <2>1, BumpedOK DEF StartAnalyze, ForcedOK, Tautology
<1>2. CASE Resolve
  <2>1. PICK i \in 1..Len(trail) :
          /\ trail[i].from # NoReason
          /\ forceUNSAT' = Bumped(AboveRoot(trail[i].from \ {trail[i].lit}))
    BY <1>2 DEF Resolve
  <2> DEFINE c == AboveRoot(trail[i].from \ {trail[i].lit})
  <2>2. c \in Clause /\ \A l \in c : False(l)
    BY <2>1, ReasonFalse, TrailEntry DEF AboveRoot, Inv, Clause
  <2>3. forceUNSAT' = Bumped(c) /\ UNCHANGED newDescent
    BY <1>2, <2>1 DEF Resolve
  <2> HIDE DEF c
  <2> QED BY <2>2, <2>3, BumpedOK DEF ForcedOK, Tautology
<1>3. CASE newDescent' \in BOOLEAN /\ UNCHANGED forceUNSAT
  BY <1>3 DEF ForcedOK, Tautology
<1>4. CASE UNCHANGED searchVars
  BY <1>3, <1>4 DEF searchVars, ForcedOK
<1>5. CASE Preprocess
  BY <1>3, <1>4, <1>5
     DEF Preprocess, ReadClause, ParseDone, GatherTouched, EliminateDone,
         SubsumeInterrupted, PopQueue, PopAssign, RemoveSubsumed, Strengthen,
         StrengthenToUnit, ScanDone, SubsumeDone, VarsInterrupted, VarsDone,
         SkipVariable, Eliminate, AddResolvent, RemoveOld, coreVars, ForcedOK
<1>6. CASE Propagate \/ Search
  BY <1>1, <1>2, <1>3, <1>4, <1>6
     DEF Propagate, PropagateNext, SkipClause, MoveWatch, EnqueueUnit,
         ConflictFound, PropagateDone, Search, Learn, Restart, Decide,
         AllAssigned, ForcedOK
<1>7. CASE Finish \/ Interrupt \/ Terminated \/ UNCHANGED vars
  BY <1>3, <1>4, <1>7
     DEF Finish, ConflictAtRoot, StoreModel, ExtendModel, PrintModel,
         PrintIndeterminate, Interrupt, Terminated, vars, coreVars, ForcedOK
<1> QED BY <1>5, <1>6, <1>7 DEF Next, Step

-----------------------------------------------------------------------------
(* What follows for the search. *)

SearchInv ==
  Inv /\ PhaseOK /\ PairedOK /\ QueueOK /\ AnalyzedOK /\ ElimOK /\ CurOK
      /\ CleanOK /\ WatchOK /\ ForcedOK

LEMMA InitSearch == Init => SearchInv
<1> SUFFICES ASSUME Init PROVE SearchInv
  OBVIOUS
<1>1. PairedOK
  BY DEF Init, PairedOK, DB
<1>2. AnalyzedOK /\ CurOK /\ CleanOK
  BY DEF Init, AnalyzedOK, CurOK, CleanOK, Simplifying, Subsuming, Resolving, InLoop
<1>3. ForcedOK
  BY DEF Init, ForcedOK, Clause, Tautology
<1> QED
  BY <1>1, <1>2, <1>3, InitInv, InitPhase, InitQueue, InitElim, InitWatch
     DEF SearchInv

LEMMA NextSearch == SearchInv /\ [Next]_vars => SearchInv'
BY NextInv, NextPhase, NextPaired, NextQueue, NextAnalyzed, NextElim, NextCur,
   NextClean, NextWatch, NextForced
   DEF SearchInv

\* The solver's data have their types: every clause is watched at two of its
\* literals, and no variable is on the trail twice (attachClause, uncheckedEnqueue).
THEOREM SolverTypes == Spec => []TypeOK
<1>1. SearchInv => TypeOK
  <2> SUFFICES ASSUME SearchInv PROVE TypeOK
    OBVIOUS
  <2>1. \A c \in DB : AttachedType(c)
    BY PairHasTwo
       DEF SearchInv, PairedOK, AttachedType, Inv, ControlOK, DataOK
  <2>2. /\ run \in Setup /\ todo \subseteq DB /\ out_learnt \in Clause
        /\ qhead \in 0..Len(trail)
        /\ eliminated \subseteq Variable /\ elim_heap \subseteq Variable
    BY DEF SearchInv, Inv, ControlOK, DataOK, QueueOK, PhaseOK
  <2>3. \A i \in 1..Len(trail) :
          trail[i].lit \in Lit /\ trail[i].level \in 0..decisionLevel
                               /\ trail[i].from \in Clause
    BY TrailEntry DEF SearchInv, Inv
  <2>4. \A i, j \in 1..Len(trail) :
          i # j => trail[i].lit \notin {trail[j].lit, -trail[j].lit}
    BY DEF SearchInv, Inv, TrailOK, TrailIs, Distinct
  <2>5. ForcedOK
    BY DEF SearchInv
  <2> QED BY <2>1, <2>2, <2>3, <2>4, <2>5 DEF TypeOK, ForcedOK
<1> QED BY <1>1, InitSearch, NextSearch, PTL DEF Spec

\* Once the clauses of an eliminated variable have been replaced, no clause
\* mentions it, and it is assigned only by extendModel (eliminateVar).
THEOREM EliminatedAreGone == Spec => []EliminatedGone
<1>1. SearchInv => EliminatedGone
  BY DEF SearchInv, EliminatedGone, ElimOK, FreeTrail, PhaseOK, Variable
<1> QED BY <1>1, InitSearch, NextSearch, PTL DEF Spec

\* Propagation misses nothing: with no conflict found, every clause has a true
\* literal or two that are not assigned, or the signal has left it watched at a
\* literal false from the start (propagate, strengthenClause).
THEOREM PropagationIsComplete == Spec => []PropagationComplete
<1>1. SearchInv => PropagationComplete
  <2> SUFFICES ASSUME SearchInv, pc = "search", NEW c \in DB,
                      \A l \in c.lits : ~True(l),
                      ~(asynch_interrupt /\ \E l \in c.watch : FalseAtRoot(l))
               PROVE  Cardinality({l \in c.lits : Undef(l)}) >= 2
    BY DEF PropagationComplete
  <2>1. qhead = Len(trail) /\ todo = {} /\ ~InConflict /\ Len(trail) \in Nat
    BY DEF SearchInv, QueueOK, Inv, ControlOK, PcOK, InConflict, TrailOK, TrailIs
  <2>2. \A k : ~Witnessed(c, k)
    BY DEF Witnessed, True
  <2>3. \A l \in c.watch : ~False(l)
    <3> SUFFICES ASSUME NEW l \in c.watch, NEW i \in 1..Len(trail),
                        trail[i].lit = -l
                 PROVE  FALSE
      BY DEF False, True
    <3>1. l \in Lit
      BY DEF SearchInv, Inv, ControlOK, DataOK, Clause
    <3>2. -trail[i].lit \in c.watch /\ Visited(i, c)
      BY <2>1, <3>1, LitNeg DEF Visited
    <3>3. ~(trail[i].level > 0) /\ Exempt
      BY <2>2, <3>2 DEF SearchInv, WatchOK
    <3>4. trail[i].level = 0
      BY <3>3, TrailEntry DEF SearchInv, Inv
    <3>5. asynch_interrupt
      BY <3>3 DEF Exempt, Simplifying, Subsuming, Resolving, InLoop
    <3> QED BY <3>4, <3>5 DEF FalseAtRoot
  <2>4. PICK a, b \in c.lits : a # b /\ c.watch = {a, b}
    BY DEF SearchInv, PairedOK, Paired
  <2>5. {a, b} \subseteq {l \in c.lits : Undef(l)}
    BY <2>3, <2>4 DEF Undef
  <2>6. IsFiniteSet({l \in c.lits : Undef(l)})
    <3>1. IsFiniteSet(-NV..NV)
      BY SolverAssumption, FS_Interval
    <3>2. {l \in c.lits : Undef(l)} \subseteq -NV..NV
      BY DEF SearchInv, Inv, ControlOK, DataOK, Clause, Lit
    <3> QED BY <3>1, <3>2, FS_Subset
  <2>7. Cardinality({a, b}) = 2
    BY <2>4, PairHasTwo DEF SearchInv, PairedOK
  <2> QED BY <2>5, <2>6, <2>7, FS_Subset, FS_CardinalityType
<1> QED BY <1>1, InitSearch, NextSearch, PTL DEF Spec

\* No clause the solver has is part of the clause it learns, so that no clause
\* is learnt twice (analyze, litRedundant).
THEOREM LearntAreNew == Spec => LearntIsNew
<1>1. SearchInv /\ [Next]_vars =>
        [pc = "analyze" /\ pc' = "propagate" =>
           \A c \in DB : ~(c.lits \subseteq out_learnt')]_vars
  <2> SUFFICES ASSUME SearchInv, [Next]_vars, pc = "analyze", pc' = "propagate",
                      NEW d \in DB, d.lits \subseteq out_learnt'
               PROVE  FALSE
    OBVIOUS
  <2>1. Learn
    BY DEF Next, Step, Terminated, Preprocess, Finish, Propagate, Search,
        ReadClause, ParseDone,
        GatherTouched, EliminateDone, SubsumeInterrupted, PopQueue, PopAssign,
        RemoveSubsumed, Strengthen, StrengthenToUnit, ScanDone, SubsumeDone,
        VarsInterrupted, VarsDone, SkipVariable, Eliminate, AddResolvent,
        RemoveOld, PropagateNext, SkipClause, MoveWatch, EnqueueUnit,
        ConflictFound, PropagateDone, StartAnalyze, Resolve, Restart,
        Decide, AllAssigned, ConflictAtRoot, StoreModel, ExtendModel,
        PrintModel, PrintIndeterminate, Interrupt, vars, coreVars
  <2>2. PICK u \in Lit, k \in Nat, n \in 0..Len(trail), c \in Clause :
          LearnsTo(u, k, n, c)
    BY <2>1, LearnFacts DEF SearchInv
  <2>3. /\ c \subseteq out_learnt /\ d.lits \subseteq c
        /\ k < decisionLevel /\ CutsTo(n, k)
        /\ \A x \in c \ {u} : \E j \in 1..n : trail[j].lit = -x
    BY <2>2 DEF LearnsTo
  <2>4. PICK w \in d.watch : w # u /\ w \in d.lits
    BY DEF SearchInv, PairedOK, Paired
  <2>5. PICK j \in 1..n : trail[j].lit = -w
    BY <2>3, <2>4
  <2>6. /\ j \in 1..Len(trail) /\ w \in Lit /\ trail[j].level <= k
        /\ decisionLevel \in Nat
    BY <2>3, <2>4 DEF CutsTo, Clause, SearchInv, Inv, TrailOK, TrailIs
  <2>7. trail[j].level > 0 /\ trail[j].level < decisionLevel
    <3>1. trail[j].level # 0
      BY <2>3, <2>4, <2>5, <2>6 DEF SearchInv, AnalyzedOK, LevelIs
    <3> QED BY <2>3, <2>6, <3>1, TrailEntry DEF SearchInv, Inv
  <2>8. Witnessed(d, trail[j].level)
    <3>1. -trail[j].lit \in d.watch
      BY <2>4, <2>5, <2>6, LitNeg
    <3> QED BY <2>6, <2>7, <3>1 DEF SearchInv, WatchOK, Visited, InConflict
  <2>9. PICK m \in 1..Len(trail) : trail[m].lit \in out_learnt
    BY <2>3, <2>8 DEF Witnessed
  <2>10. PICK i \in 1..Len(trail) : trail[i].lit = -trail[m].lit
    BY <2>9 DEF SearchInv, Inv, ControlOK, Falsified, False, True
  <2>11. trail[m].lit \in Lit
    BY TrailEntry DEF SearchInv, Inv
  <2> QED BY <2>10, <2>11, LitNeg DEF SearchInv, Inv, TrailOK, TrailIs, Distinct
<1> QED BY <1>1, InitSearch, NextSearch, PTL DEF Spec, LearntIsNew

-----------------------------------------------------------------------------
(* What is kept for extendModel, and the model.                              *)

VarOf(e) == IF e.lit > 0 THEN e.lit ELSE -e.lit

RecordType == [lit : Lit, rests : SUBSET Clause]

\* The clauses kept of a variable mention neither it nor one eliminated before.
RecordsOK ==
  /\ elimclauses \in Seq(RecordType)
  /\ eliminated = {VarOf(elimclauses[i]) : i \in 1..Len(elimclauses)}
  /\ \A i \in 1..Len(elimclauses) : \A j \in 1..i, r \in elimclauses[i].rests :
       VarOf(elimclauses[j]) \notin Vars(r)

\* The variables with one value in the model: at first those not eliminated.
ModelOK ==
  /\ pc = "model" => \A v \in Variable \ eliminated : ~Undef(v)
  /\ pc = "extend" =>
       /\ left \in 0..Len(elimclauses)
       /\ \A v \in Variable :
            (\A i \in 1..left : VarOf(elimclauses[i]) # v) =>
              (v \in model <=> -v \notin model)

LEMMA VarLit ==
  ASSUME NEW v \in Variable
  PROVE  v \in Lit /\ -v \in Lit /\ v > 0 /\ v \in Int /\ -v # v /\ ~(-v > 0)
BY SolverAssumption DEF Variable, Lit

LEMMA KeptRecord ==
  ASSUME Inv, NEW v \in Variable
  PROVE  /\ Kept(v) \in RecordType /\ VarOf(Kept(v)) = v
         /\ Kept(v).lit \in {v, -v}
         /\ Kept(v).rests =
              {c.lits \ {Kept(v).lit} : c \in {d \in clauses : Kept(v).lit \in d.lits}}
         /\ \A r \in Kept(v).rests : v \notin Vars(r)
                                     /\ \E c \in clauses : r \subseteq c.lits
<1> DEFINE k == Kept(v)
<1>1. /\ k.lit \in {v, -v}
      /\ k.rests = {c.lits \ {k.lit} : c \in {d \in clauses : k.lit \in d.lits}}
      /\ k = [lit |-> k.lit, rests |-> k.rests]
  BY DEF Kept, Pos, Neg
<1> HIDE DEF k
<1>2. \A c \in clauses : c.lits \in Clause /\ ~Tautology(c.lits)
  BY DEF Inv, ControlOK, DataOK, DB
<1>3. /\ v \in Lit /\ -v \in Lit /\ v > 0 /\ v \in Int /\ -v # v /\ ~(-v > 0)
      /\ -(-v) = v
  BY VarLit, LitNeg
<1>4. k \in RecordType
  <2>1. k.rests \subseteq Clause
    BY <1>1, <1>2 DEF Clause
  <2> QED BY <1>1, <1>3, <2>1 DEF RecordType
<1>5. VarOf(k) = v
  BY <1>1, <1>3 DEF VarOf
<1>6. \A r \in k.rests : v \notin Vars(r) /\ \E c \in clauses : r \subseteq c.lits
  <2> SUFFICES ASSUME NEW c \in clauses, k.lit \in c.lits
               PROVE  v \notin Vars(c.lits \ {k.lit})
    BY <1>1
  <2>1. -k.lit \notin c.lits
    BY <1>2 DEF Tautology
  <2> QED BY <1>1, <1>3, <2>1 DEF Vars
<1> QED BY <1>1, <1>4, <1>5, <1>6 DEF k

LEMMA RecordIsTyped ==
  ASSUME RecordsOK, NEW i \in 1..Len(elimclauses)
  PROVE  elimclauses[i].lit \in Lit /\ elimclauses[i].rests \subseteq Clause
<1>1. elimclauses[i] \in RecordType
  BY DEF RecordsOK
<1> QED BY <1>1 DEF RecordType

LEMMA NextRecords ==
  Inv /\ PhaseOK /\ ElimOK /\ RecordsOK /\ [Next]_vars => RecordsOK'
<1> SUFFICES ASSUME Inv, PhaseOK, ElimOK, RecordsOK, [Next]_vars
             PROVE  RecordsOK'
  OBVIOUS
<1>1. CASE Eliminate
  <2>1. PICK v \in Variable :
          /\ v \notin eliminated /\ eliminated' = eliminated \cup {v}
          /\ elimclauses' = Append(elimclauses, Kept(v))
    BY <1>1 DEF Eliminate, PhaseOK
  <2>2. pc = "vars"
    BY <1>1 DEF Eliminate
  <2>3. elimvar = 0 /\ ~(0 \in Variable)
    BY <2>2, NotEliminating DEF Resolving, InLoop, Variable
  <2>4. \A c \in clauses : Vars(c.lits) \cap eliminated = {}
    BY <2>3 DEF ElimOK, PhaseOK, DB
  <2> DEFINE k == Kept(v)
             m == Len(elimclauses)
  <2>5. /\ k \in RecordType /\ VarOf(k) = v
        /\ \A r \in k.rests : v \notin Vars(r)
                              /\ \E c \in clauses : r \subseteq c.lits
    BY KeptRecord
  <2>6. elimclauses' = Append(elimclauses, k)
    BY <2>1
  <2> HIDE DEF k
  <2>7. /\ elimclauses' \in Seq(RecordType) /\ m \in Nat
        /\ Len(elimclauses') = m + 1
        /\ \A i \in 1..m : elimclauses'[i] = elimclauses[i]
        /\ elimclauses'[m + 1] = k
    BY <2>5, <2>6 DEF RecordsOK
  <2> HIDE DEF m
  <2>8. eliminated' = {VarOf(elimclauses'[i]) : i \in 1..Len(elimclauses')}
    <3>1. eliminated = {VarOf(elimclauses'[i]) : i \in 1..m}
      BY <2>7 DEF RecordsOK, m
    <3>2. 1..(m + 1) = (1..m) \cup {m + 1}
      BY <2>7
    <3>3. {VarOf(elimclauses'[i]) : i \in 1..(m + 1)} =
            {VarOf(elimclauses'[i]) : i \in 1..m} \cup {VarOf(elimclauses'[m + 1])}
      BY <3>2
    <3> QED BY <2>1, <2>5, <2>7, <3>1, <3>3
  <2>9. \A r \in k.rests : \A w \in eliminated' : w \notin Vars(r)
    <3> SUFFICES ASSUME NEW r \in k.rests, NEW w \in eliminated, w \in Vars(r)
                 PROVE  FALSE
      BY <2>1, <2>5
    <3>1. PICK c \in clauses : r \subseteq c.lits
      BY <2>5
    <3> QED BY <2>4, <3>1, VarsOfPart
  <2>10. ASSUME NEW i \in 1..(m + 1), NEW j \in 1..i,
                NEW r \in elimclauses'[i].rests
         PROVE  VarOf(elimclauses'[j]) \notin Vars(r)
    <3>1. CASE i = m + 1
      BY <2>7, <2>8, <2>9, <3>1
    <3>2. CASE i \in 1..m
      BY <2>7, <3>2 DEF RecordsOK, m
    <3> QED BY <2>7, <3>1, <3>2
  <2> QED BY <2>7, <2>8, <2>10 DEF RecordsOK
<1>2. CASE UNCHANGED <<elimclauses, eliminated>>
  BY <1>2 DEF RecordsOK
<1> QED
  BY <1>1, <1>2
     DEF Next, Step, Terminated, Preprocess, Finish, ReadClause, ParseDone,
         GatherTouched, EliminateDone, SubsumeInterrupted, PopQueue, PopAssign,
         RemoveSubsumed, Strengthen, StrengthenToUnit, ScanDone, SubsumeDone,
         VarsInterrupted, VarsDone, SkipVariable, AddResolvent, RemoveOld,
         ConflictAtRoot, StoreModel, ExtendModel, PrintModel,
         PrintIndeterminate, Interrupt, vars, simpVars

LEMMA NextModel ==
  Inv /\ RecordsOK /\ ModelOK /\ [Next]_vars => ModelOK'
<1> SUFFICES ASSUME Inv, RecordsOK, ModelOK, [Next]_vars
             PROVE  ModelOK'
  OBVIOUS
<1>1. CASE AllAssigned(Variable \ eliminated) /\ UNCHANGED Rest
  BY <1>1 DEF AllAssigned, ModelOK, Undef, False, True, trailVars, Rest, simpVars
<1>2. CASE StoreModel
  <2>1. /\ pc = "model" /\ pc' = "extend" /\ left' = Len(elimclauses)
        /\ elimclauses' = elimclauses
        /\ model' = {trail[i].lit : i \in 1..Len(trail)}
    BY <1>2 DEF StoreModel, simpVars
  <2>2. left' \in 0..Len(elimclauses)
    BY <2>1 DEF RecordsOK
  <2>3. ASSUME NEW v \in Variable,
               \A i \in 1..Len(elimclauses) : VarOf(elimclauses[i]) # v
        PROVE  v \in model' <=> -v \notin model'
    <3>1. v \notin eliminated
      BY <2>3 DEF RecordsOK
    <3>2. v \in model' \/ -v \in model'
      BY <2>1, <3>1 DEF ModelOK, Undef, False, True
    <3>3. ASSUME v \in model', -v \in model' PROVE FALSE
      <4>1. PICK i \in 1..Len(trail), j \in 1..Len(trail) :
              trail[i].lit = v /\ trail[j].lit = -v
        BY <2>1, <3>3
      <4> QED BY <4>1, VarLit DEF Inv, TrailOK, TrailIs, Distinct
    <3> QED BY <3>2, <3>3
  <2> QED BY <2>1, <2>2, <2>3 DEF ModelOK
<1>3. CASE ExtendModel
  <2> DEFINE e == elimclauses[left]
  <2>1. PICK x \in {e.lit, -e.lit} : model' = (model \ {-x}) \cup {x}
    BY <1>3 DEF ExtendModel
  <2>2. /\ pc = "extend" /\ pc' = "extend" /\ left > 0 /\ left' = left - 1
        /\ elimclauses' = elimclauses /\ left \in 0..Len(elimclauses)
        /\ Len(elimclauses) \in Nat
    BY <1>3 DEF ExtendModel, simpVars, coreVars, ModelOK, RecordsOK
  <2>3. e.lit \in Lit
    BY <2>2, RecordIsTyped
  <2> HIDE DEF e
  <2>4. ASSUME NEW v \in Variable,
               \A i \in 1..(left - 1) : VarOf(elimclauses[i]) # v
        PROVE  v \in model' <=> -v \notin model'
    <3>1. v \in Int /\ v > 0 /\ e.lit \in Int /\ e.lit # 0
      BY <2>3, VarLit DEF Lit
    <3>2. CASE VarOf(e) = v
      <4>1. e.lit \in {v, -v}
        BY <3>1, <3>2 DEF VarOf
      <4>2. x \in {v, -v}
        BY <3>1, <4>1
      <4> QED BY <2>1, <3>1, <4>2
    <3>3. CASE VarOf(e) # v
      <4>1. v \in model <=> -v \notin model
        <5>1. \A i \in 1..left : i \in 1..(left - 1) \/ i = left
          BY <2>2
        <5> QED BY <2>2, <2>4, <3>3, <5>1 DEF ModelOK, e
      <4>2. x # v /\ x # -v /\ -x # v /\ -x # -v
        BY <3>1, <3>3 DEF VarOf
      <4> QED BY <2>1, <4>1, <4>2
    <3> QED BY <3>2, <3>3
  <2>5. left' \in 0..Len(elimclauses)
    BY <2>2
  <2> QED BY <2>2, <2>4, <2>5 DEF ModelOK
<1>4. CASE pc' \notin {"model", "extend"}
  BY <1>4 DEF ModelOK
<1>5. CASE pc' = pc /\ UNCHANGED <<trail, eliminated, elimclauses, left, model>>
  BY <1>5 DEF ModelOK, Undef, False, True
<1>6. PropagateDone => pc' \notin {"model", "extend"}
  BY DEF PropagateDone, Inv, ControlOK, PcOK
<1>7. AddResolvent \/ ReadClause => pc' \notin {"model", "extend"}
  BY DEF AddResolvent, ReadClause, AddClause, AddNothing, AddEmpty, AddUnit,
         AddLong
<1> QED
  BY <1>1, <1>2, <1>3, <1>4, <1>5, <1>6, <1>7
     DEF Next, Step, Terminated, Preprocess, Finish, Propagate, Search, ParseDone,
         GatherTouched, EliminateDone, SubsumeInterrupted, PopQueue, PopAssign,
         RemoveSubsumed, Strengthen, StrengthenToUnit, ScanDone, SubsumeDone,
         VarsInterrupted, VarsDone, SkipVariable, Eliminate, RemoveOld,
         PropagateNext, SkipClause, MoveWatch, EnqueueUnit, ConflictFound,
         StartAnalyze, Resolve, Learn, Restart, Decide, ConflictAtRoot,
         PrintModel, PrintIndeterminate, Interrupt, vars, coreVars, trailVars,
         simpVars, outVars, Rest

-----------------------------------------------------------------------------
(* Extending a model to the variables eliminated.                            *)

Needed(A, e) == \E r \in e.rests : \A l \in r : ~Holds(A, l)

\* A with the value that extendModel gives the variable of record e.
Extended(A, e) ==
  [v \in Variable |-> IF v = VarOf(e) THEN Needed(A, e) <=> e.lit > 0 ELSE A[v]]

\* G[i] holds assignments that extendModel makes models of the file when it has
\* the first i records still to read.
IsChain(G) ==
  /\ G \in [0..Len(elimclauses) -> SUBSET Assignment]
  /\ G[0] \subseteq Models
  /\ \A i \in 1..Len(elimclauses) : \A A \in G[i] :
       Extended(A, elimclauses[i]) \in G[i - 1]

\* A agrees with the literals of level 0 of the variables not eliminated.
RootHolds(A) ==
  \A i \in 1..Len(trail) :
    trail[i].level = 0 /\ Vars({trail[i].lit}) \cap eliminated = {} =>
      Holds(A, trail[i].lit)

\* A satisfies what the solver has still to satisfy.
ClausesHold(A) ==
  /\ \A c \in clauses : elimvar \notin Vars(c.lits) => Satisfies(A, c.lits)
  /\ \A c \in adding : Satisfies(A, c)
  /\ \A i \in 1..Len(input) : Satisfies(A, input[i])

Meets(A) == ClausesHold(A) /\ RootHolds(A)

ModelAssignment == [v \in Variable |-> v \in model]

\* Whatever satisfies what is left is extended to a model of the file.
GoodOK ==
  /\ SatSound
  /\ pc # "done" =>
       \E G : /\ IsChain(G)
              /\ pc # "extend" =>
                   \A A \in Assignment : Meets(A) => A \in G[Len(elimclauses)]
              /\ pc = "extend" => CutShort \/ ModelAssignment \in G[left]

LEMMA ExtendedFacts ==
  ASSUME NEW A \in Assignment, NEW e, e.lit \in Lit, NEW v \in Variable,
         VarOf(e) = v
  PROVE  /\ Extended(A, e) \in Assignment
         /\ \A l \in Lit : l \notin {v, -v} => (Holds(Extended(A, e), l) <=> Holds(A, l))
         /\ Holds(Extended(A, e), e.lit) <=> Needed(A, e)
<1> DEFINE n == Needed(A, e)
           B == Extended(A, e)
<1>1. n \in BOOLEAN
  BY DEF Needed
<1>2. /\ B \in Assignment
      /\ B[v] = (n <=> e.lit > 0)
      /\ \A w \in Variable : w # v => B[w] = A[w]
  BY <1>1 DEF Extended, Assignment
<1>3. v \in Int /\ v > 0
  BY VarLit
<1> HIDE DEF n, B
<1>4. \A l \in Lit : l \notin {v, -v} => (Holds(B, l) <=> Holds(A, l))
  BY <1>2, <1>3, SolverAssumption DEF Holds, Lit, Variable
<1>5. Holds(B, e.lit) <=> n
  <2>1. e.lit \in {v, -v} /\ e.lit \in Int
    BY <1>3 DEF VarOf, Lit
  <2>2. CASE e.lit > 0
    <3>1. e.lit = v /\ Holds(B, e.lit) = B[v]
      BY <1>3, <2>1, <2>2 DEF Holds
    <3> QED BY <1>1, <1>2, <2>2, <3>1
  <2>3. CASE ~(e.lit > 0)
    <3>1. -e.lit = v /\ Holds(B, e.lit) = ~B[v]
      BY <1>3, <2>1, <2>3 DEF Holds
    <3> QED BY <1>1, <1>2, <2>3, <3>1
  <2> QED BY <2>2, <2>3
<1> QED BY <1>2, <1>4, <1>5 DEF n, B

\* The resolvents and the record of v stand for the clauses of v.
LEMMA EliminatedHold ==
  ASSUME Inv, NEW v \in Variable, NEW A \in Assignment,
         \A r \in Resolvents(v) : Satisfies(A, r),
         NEW c \in clauses, v \in Vars(c.lits)
  PROVE  Satisfies(Extended(A, Kept(v)), c.lits)
<1> DEFINE k == Kept(v)
           x == k.lit
           B == Extended(A, k)
<1>1. /\ x \in {v, -v}
      /\ k.rests = {d.lits \ {x} : d \in {b \in clauses : x \in b.lits}}
      /\ VarOf(k) = v
  BY KeptRecord
<1>2. v \in Lit /\ -v \in Lit /\ -(-v) = v
  BY VarLit, LitNeg
<1>3. /\ \A l \in Lit : l \notin {v, -v} => (Holds(B, l) <=> Holds(A, l))
      /\ Holds(B, x) <=> Needed(A, k)
      /\ B \in Assignment
  <2>1. x \in Lit
    BY <1>1, <1>2
  <2> HIDE DEF k
  <2> QED BY <1>1, <2>1, ExtendedFacts
<1>4. \A d \in clauses : d.lits \subseteq Lit /\ \A l \in d.lits : -l \notin d.lits
  BY DEF Inv, ControlOK, DataOK, DB, Clause, Tautology
<1> HIDE DEF k, B
<1>5. {v, -v} = {x, -x} /\ x \in Lit /\ -(-x) = x
  BY <1>1, <1>2
<1>6. Holds(B, -x) <=> ~Needed(A, k)
  BY <1>3, <1>5, HoldsNeg
<1>7. ASSUME x \in c.lits PROVE Satisfies(B, c.lits)
  <2>1. CASE Needed(A, k)
    BY <1>3, <1>7, <2>1 DEF Satisfies
  <2>2. CASE ~Needed(A, k)
    <3>1. c.lits \ {x} \in k.rests
      BY <1>1, <1>7
    <3>2. PICK l \in c.lits \ {x} : Holds(A, l)
      BY <2>2, <3>1 DEF Needed
    <3>3. l \notin {v, -v} /\ l \in Lit
      BY <1>4, <1>5, <1>7, <3>2
    <3> QED BY <1>3, <3>2, <3>3 DEF Satisfies
  <2> QED BY <2>1, <2>2
<1>8. ASSUME -x \in c.lits PROVE Satisfies(B, c.lits)
  <2>1. CASE ~Needed(A, k)
    BY <1>6, <1>8, <2>1 DEF Satisfies
  <2>2. CASE Needed(A, k)
    <3>1. PICK d \in clauses : x \in d.lits /\ \A l \in d.lits \ {x} : ~Holds(A, l)
      BY <1>1, <2>2 DEF Needed
    <3> DEFINE r == (d.lits \ {x}) \cup (c.lits \ {-x})
    <3>2. \E l \in c.lits \ {-x} : Holds(A, l)
      <4>1. CASE Tautology(r)
        <5>1. PICK y \in r : -y \in r
          BY <4>1 DEF Tautology
        <5>2. y \in Lit /\ -y \in Lit /\ -(-y) = y
          BY <1>4, <5>1, LitNeg
        <5>3. \/ y \in d.lits \ {x} /\ -y \in c.lits \ {-x}
              \/ -y \in d.lits \ {x} /\ y \in c.lits \ {-x}
          BY <1>4, <5>1, <5>2
        <5>4. Holds(A, -y) <=> ~Holds(A, y)
          BY <5>2, HoldsNeg
        <5> QED BY <3>1, <5>3, <5>4
      <4>2. CASE ~Tautology(r)
        <5>1. r \in Resolvents(v)
          <6>1. CASE x = v
            <7>1. d \in Pos(v) /\ c \in Neg(v) /\ r = Merge(d, c, v)
              BY <1>8, <3>1, <6>1 DEF Pos, Neg, Merge
            <7>2. <<d, c>> \in Product(v)
              BY <4>2, <7>1 DEF Product
            <7> QED BY <7>1, <7>2 DEF Resolvents
          <6>2. CASE x = -v
            <7>1. c \in Pos(v) /\ d \in Neg(v) /\ r = Merge(c, d, v)
              BY <1>2, <1>8, <3>1, <6>2 DEF Pos, Neg, Merge
            <7>2. <<c, d>> \in Product(v)
              BY <4>2, <7>1 DEF Product
            <7> QED BY <7>1, <7>2 DEF Resolvents
          <6> QED BY <1>1, <6>1, <6>2
        <5> QED BY <3>1, <5>1 DEF Satisfies
      <4> QED BY <4>1, <4>2
    <3>3. PICK l \in c.lits \ {-x} : Holds(A, l)
      BY <3>2
    <3>4. l \notin {v, -v} /\ l \in Lit
      BY <1>4, <1>5, <1>8, <3>3
    <3> QED BY <1>3, <3>3, <3>4 DEF Satisfies
  <2> QED BY <2>1, <2>2
<1>9. x \in c.lits \/ -x \in c.lits
  BY <1>1, <1>2 DEF Vars
<1> QED BY <1>7, <1>8, <1>9 DEF B, k

\* Literals of level 0 stay on the trail.
LEMMA RootStays ==
  ASSUME Inv, QueueOK, [Next]_vars
  PROVE  \A i \in 1..Len(trail) :
           trail[i].level = 0 => i \in 1..Len(trail') /\ trail'[i] = trail[i]
<1> DEFINE Goal == \A i \in 1..Len(trail) :
             trail[i].level = 0 => i \in 1..Len(trail') /\ trail'[i] = trail[i]
<1>1. trail \in Seq(EntryType) /\ Len(trail) \in Nat /\ TrailOK
  BY DEF Inv, TrailOK, TrailIs
<1>2. NoReason \in Clause /\ 0 \in Nat
  BY DEF NoReason, Clause
<1>3. ASSUME NEW l \in Lit, NEW k \in Nat, NEW c \in Clause,
             trail' = Append(trail, Entry(l, k, c))
      PROVE  Goal
  BY <1>1, <1>3, EntryIsTyped, AppendFacts
<1>4. ASSUME NEW n \in 0..Len(trail), CutsTo(n, 0), trail' = SubSeq(trail, 1, n)
      PROVE  Goal
  <2>1. /\ Len(trail') = n /\ n \in Nat
        /\ \A i \in 1..n : trail'[i] = trail[i]
    BY <1>1, <1>4, CutFacts
  <2>2. \A i \in 1..Len(trail) : trail[i].level <= 0 <=> i <= n
    BY <1>1, <1>2, <1>4, CutKeeps
  <2> QED BY <1>1, <2>1, <2>2
<1>5. CASE UNCHANGED trail
  BY <1>1, <1>5
<1>6. CASE ReadClause \/ AddResolvent
  <2>1. PICK c \in Clause : AddClause(c)
    BY <1>6 DEF ReadClause, AddResolvent, Inv, ControlOK, DataOK
  <2>2. UNCHANGED trail \/ \E l \in Lit : trail' = Append(trail, Entry(l, 0, NoReason))
    BY <2>1 DEF AddClause, AddNothing, AddEmpty, AddUnit, AddLong, Clause, Assert
  <2> QED BY <1>2, <1>3, <1>5, <2>2
<1>7. CASE StrengthenToUnit
  <2>1. UNCHANGED trail \/ \E l \in Lit : trail' = Append(trail, Entry(l, 0, NoReason))
    BY <1>7 DEF StrengthenToUnit, Assert
  <2> QED BY <1>2, <1>3, <1>5, <2>1
<1>8. CASE EnqueueUnit
  <2>1. PICK c \in todo, o \in Lit :
          trail' = Append(trail, Entry(o, decisionLevel, c.lits))
    BY <1>8 DEF EnqueueUnit, Inv, ControlOK, DataOK, Clause
  <2>2. c.lits \in Clause /\ decisionLevel \in Nat
    BY DEF Inv, ControlOK, DataOK, TrailOK, TrailIs
  <2> QED BY <1>3, <2>1, <2>2
<1>9. CASE Decide(Variable \ eliminated)
  <2>1. PICK v \in Variable :
          \E l \in {v, -v} :
            trail' = Append(trail, Entry(l, decisionLevel + 1, NoReason))
    BY <1>9, PhaseIsLiteral DEF Decide
  <2>2. v \in Lit /\ -v \in Lit /\ decisionLevel + 1 \in Nat
    BY VarLit DEF Inv, TrailOK, TrailIs
  <2> QED BY <1>2, <1>3, <2>1, <2>2
<1>10. CASE Restart \/ StoreModel
  BY <1>4, <1>10 DEF Restart, StoreModel
<1>11. CASE Learn
  <2>1. PICK u \in Lit, k \in Nat, n \in 0..Len(trail), c \in Clause :
          LearnsTo(u, k, n, c)
    BY <1>11, LearnFacts
  <2>2. /\ Len(trail') = n + 1 /\ n \in Nat /\ CutsTo(n, k)
        /\ \A i \in 1..n : trail'[i] = trail[i]
    BY <1>1, <2>1 DEF LearnsTo
  <2>3. \A i \in 1..Len(trail) : trail[i].level <= k <=> i <= n
    BY <1>1, <2>2, CutKeeps
  <2> QED BY <1>1, <2>2, <2>3
<1> QED
  BY <1>5, <1>6, <1>7, <1>8, <1>9, <1>10, <1>11
     DEF Next, Step, Terminated, Preprocess, Finish, Propagate, Search, ParseDone,
         GatherTouched, EliminateDone, SubsumeInterrupted, PopQueue, PopAssign,
         RemoveSubsumed, Strengthen, ScanDone, SubsumeDone,
         VarsInterrupted, VarsDone, SkipVariable, Eliminate, RemoveOld,
         PropagateNext, SkipClause, MoveWatch, ConflictFound, PropagateDone,
         StartAnalyze, Resolve, AllAssigned, ConflictAtRoot,
         ExtendModel, PrintModel, PrintIndeterminate, Interrupt, vars, coreVars,
         trailVars

LEMMA RootLiteral ==
  ASSUME Inv, decisionLevel = 0, NEW A, RootHolds(A), NEW c, NEW l \in c,
         Vars(c) \cap eliminated = {}, True(l)
  PROVE  Holds(A, l)
<1>1. PICK i \in 1..Len(trail) : trail[i].lit = l
  BY DEF True
<1>2. trail[i].level = 0
  BY TrailEntry DEF Inv
<1>3. Vars({l}) \subseteq Vars(c)
  BY VarsOfPart
<1> QED BY <1>1, <1>2, <1>3 DEF RootHolds

LEMMA SameChain ==
  ASSUME UNCHANGED <<run, elimclauses>>, NEW G, IsChain(G)
  PROVE  IsChain(G)'
BY DEF IsChain, Models, Solves

\* The steps at which no variable is eliminated.
LEMMA SameGood ==
  ASSUME Inv, PhaseOK, QueueOK, GoodOK, [Next]_vars,
         pc \notin {"done", "extend"}, pc' \notin {"done", "extend"},
         UNCHANGED <<run, elimclauses, eliminated>>,
         \A A \in Assignment :
           ClausesHold(A)' /\ RootHolds(A)' /\ RootHolds(A) => ClausesHold(A)
  PROVE  GoodOK'
<1>1. answer' # "SATISFIABLE"
  BY NextPhase DEF PhaseOK
<1>2. PICK G : /\ IsChain(G)
               /\ \A A \in Assignment : Meets(A) => A \in G[Len(elimclauses)]
  BY DEF GoodOK
<1>3. IsChain(G)'
  BY <1>2, SameChain
<1>4. ASSUME NEW A \in Assignment, Meets(A)' PROVE A \in G[Len(elimclauses)]
  <2>1. RootHolds(A)
    BY <1>4, RootStays DEF Meets, RootHolds
  <2> QED BY <1>2, <1>4, <2>1 DEF Meets
<1> QED BY <1>1, <1>3, <1>4 DEF GoodOK, SatSound

\* Each clause that was there has a part that still is.
LEMMA PartsHold ==
  ASSUME NEW A, ClausesHold(A)', elimvar' = elimvar, adding' = adding, input' = input,
         \A c \in clauses : \E d \in clauses' : d.lits \subseteq c.lits
  PROVE  ClausesHold(A)
<1> SUFFICES ASSUME NEW c \in clauses, elimvar \notin Vars(c.lits)
             PROVE  Satisfies(A, c.lits)
  BY DEF ClausesHold
<1>1. PICK d \in clauses' : d.lits \subseteq c.lits
  OBVIOUS
<1>2. elimvar \notin Vars(d.lits)
  BY <1>1, VarsOfPart
<1>3. Satisfies(A, d.lits)
  BY <1>2 DEF ClausesHold
<1> QED BY <1>1, <1>3 DEF Satisfies

LEMMA SubsumedHold ==
  ASSUME Inv, PhaseOK, ElimOK, CurOK, RemoveSubsumed, NEW A \in Assignment,
         ClausesHold(A)', RootHolds(A)
  PROVE  ClausesHold(A)
<1>1. PICK d \in clauses : Subsumed(d) /\ clauses' = clauses \ {d}
  BY DEF RemoveSubsumed
<1>2. /\ pc = "subsume" /\ cur # {} /\ UNCHANGED <<elimvar, adding, input>>
  BY DEF RemoveSubsumed
<1>3. decisionLevel = 0 /\ elimvar = 0
  BY <1>2, AtRoot, NotEliminating DEF Resolving, InLoop
<1>4. Vars(d.lits) \cap eliminated = {}
  BY <1>3 DEF ElimOK, DB, PhaseOK, Variable
<1>5. Satisfies(A, d.lits)
  <2>1. cur \subseteq d.lits
    BY <1>1 DEF Subsumed
  <2>2. CASE \E b \in clauses : b.lits = cur
    <3>1. PICK b \in clauses' : b.lits = cur
      BY <1>1, <2>2 DEF Subsumed
    <3>2. elimvar' \notin Vars(b.lits)
      BY <1>2, <1>3 DEF Vars, Variable
    <3>3. Satisfies(A, b.lits)
      BY <3>1, <3>2 DEF ClausesHold
    <3> QED BY <2>1, <3>1, <3>3 DEF Satisfies
  <2>3. CASE \E i \in 1..Len(trail) : cur = {trail[i].lit}
    <3>1. PICK i \in 1..Len(trail) : cur = {trail[i].lit}
      BY <2>3
    <3>2. True(trail[i].lit) /\ trail[i].lit \in d.lits
      BY <2>1, <3>1 DEF True
    <3>3. Holds(A, trail[i].lit)
      BY <1>3, <1>4, <3>2, RootLiteral
    <3> QED BY <3>2, <3>3 DEF Satisfies
  <2> QED BY <1>2, <2>2, <2>3 DEF CurOK
<1>6. \A c \in clauses : c = d \/ c \in clauses'
  BY <1>1
<1> QED BY <1>2, <1>5, <1>6 DEF ClausesHold

LEMMA UnitHold ==
  ASSUME Inv, PhaseOK, ElimOK, StrengthenToUnit, pc' # "done",
         NEW A \in Assignment,
         ClausesHold(A)', RootHolds(A)', RootHolds(A)
  PROVE  ClausesHold(A)
<1>1. PICK d \in clauses, l \in cur, o \in Lit :
        /\ Without(d, l) = {o} /\ clauses' = clauses \ {d}
        /\ IF Undef(o) THEN trail' = Assert(o)
           ELSE IF True(o) THEN UNCHANGED <<pc, answer>> ELSE pc' = "done"
  BY DEF StrengthenToUnit
<1>2. pc = "subsume" /\ UNCHANGED <<elimvar, adding, input, eliminated>>
  BY DEF StrengthenToUnit
<1>3. decisionLevel = 0 /\ elimvar = 0
  BY <1>2, AtRoot, NotEliminating DEF Resolving, InLoop
<1>4. Vars(d.lits) \cap eliminated = {} /\ o \in d.lits
  BY <1>1, <1>3 DEF ElimOK, DB, PhaseOK, Variable, Without
<1>5. Holds(A, o)
  <2>1. CASE Undef(o)
    <3> DEFINE e == Entry(o, 0, NoReason)
    <3>1. e \in EntryType /\ e.lit = o /\ e.level = 0
      <4>1. NoReason \in Clause /\ 0 \in Nat
        BY DEF NoReason, Clause
      <4> QED BY <4>1, EntryIsTyped
    <3>2. trail' = Append(trail, e) /\ trail \in Seq(EntryType)
      BY <1>1, <2>1 DEF Assert, Inv, TrailOK, TrailIs
    <3> HIDE DEF e
    <3>3. Len(trail) + 1 \in 1..Len(trail') /\ trail'[Len(trail) + 1] = e
      BY <3>1, <3>2, AppendFacts
    <3>4. Vars({o}) \cap eliminated = {}
      BY <1>4, VarsOfPart
    <3> QED BY <1>2, <3>1, <3>3, <3>4 DEF RootHolds
  <2>2. CASE True(o)
    BY <1>3, <1>4, <2>2, RootLiteral
  <2> QED BY <1>1, <2>1, <2>2
<1>6. Satisfies(A, d.lits)
  BY <1>4, <1>5 DEF Satisfies
<1>7. \A c \in clauses : c = d \/ c \in clauses'
  BY <1>1
<1> QED BY <1>2, <1>6, <1>7 DEF ClausesHold

LEMMA RemoveOldHold ==
  ASSUME RemoveOld, NEW A, ClausesHold(A)'
  PROVE  ClausesHold(A)
<1>1. /\ adding = {} /\ clauses' = clauses \ Occurs(elimvar) /\ elimvar' = 0
      /\ UNCHANGED input
  BY DEF RemoveOld, OldClauses
<1>2. \A c \in clauses : elimvar \notin Vars(c.lits) =>
        c \in clauses' /\ elimvar' \notin Vars(c.lits)
  BY <1>1 DEF Occurs, Vars, Variable
<1> QED BY <1>1, <1>2 DEF ClausesHold

LEMMA DecideHold ==
  ASSUME Inv, PhaseOK, ElimOK, Decide(Variable \ eliminated), UNCHANGED Rest,
         NEW A \in Assignment, ClausesHold(A)', RootHolds(A)
  PROVE  ClausesHold(A)
<1>1. \/ UNCHANGED clauses
      \/ decisionLevel = 0 /\ clauses' = Unsatisfied(clauses)
  BY DEF Decide, MaySimplify
<1>2. pc = "search" /\ UNCHANGED <<elimvar, adding, input>>
  BY DEF Decide, Rest, simpVars
<1>3. elimvar = 0
  BY <1>2, NotEliminating DEF Resolving, InLoop
<1> SUFFICES ASSUME NEW c \in clauses PROVE Satisfies(A, c.lits)
  BY <1>2 DEF ClausesHold
<1>4. elimvar' \notin Vars(c.lits)
  BY <1>2, <1>3 DEF Vars, Variable
<1>5. CASE c \in clauses'
  BY <1>4, <1>5 DEF ClausesHold
<1>6. CASE c \notin clauses'
  <2>1. decisionLevel = 0 /\ \E l \in c.lits : True(l)
    BY <1>1, <1>6 DEF Unsatisfied, Satisfied
  <2>2. PICK l \in c.lits : True(l)
    BY <2>1
  <2>3. Vars(c.lits) \cap eliminated = {}
    BY <1>3 DEF ElimOK, DB, PhaseOK, Variable
  <2>4. Holds(A, l)
    BY <2>1, <2>2, <2>3, RootLiteral
  <2> QED BY <2>2, <2>4 DEF Satisfies
<1> QED BY <1>5, <1>6

\* A clause that is added holds.
LEMMA AddedHolds ==
  ASSUME Inv, PhaseOK, decisionLevel = 0, NEW c \in Clause, AddClause(c),
         pc' # "done", UNCHANGED <<eliminated, elimvar>>,
         Vars(c) \cap eliminated = {},
         NEW A \in Assignment, ClausesHold(A)', RootHolds(A)', RootHolds(A)
  PROVE  Satisfies(A, c) /\ clauses \subseteq clauses'
<1>1. \A l \in c : l \in Lit
  BY DEF Clause
<1>2. CASE AddNothing(c)
  <2>1. CASE Tautology(c)
    <3>1. PICK l \in c : -l \in c
      BY <2>1 DEF Tautology
    <3>2. Holds(A, l) \/ Holds(A, -l)
      BY <1>1, HoldsNeg
    <3> QED BY <1>2, <3>1, <3>2 DEF Satisfies, AddNothing
  <2>2. CASE \E l \in c : True(l)
    <3>1. PICK l \in c : True(l)
      BY <2>2
    <3>2. Holds(A, l)
      BY <3>1, RootLiteral
    <3> QED BY <1>2, <3>2 DEF Satisfies, AddNothing
  <2> QED BY <1>2, <2>1, <2>2 DEF AddNothing
<1>3. CASE AddUnit(c)
  <2>1. PICK l \in c : trail' = Assert(l)
    BY <1>3 DEF AddUnit
  <2> DEFINE e == Entry(l, 0, NoReason)
  <2>2. e \in EntryType /\ e.lit = l /\ e.level = 0
    <3>1. NoReason \in Clause /\ 0 \in Nat /\ l \in Lit
      BY <1>1 DEF NoReason, Clause
    <3> QED BY <3>1, EntryIsTyped
  <2>3. trail' = Append(trail, e) /\ trail \in Seq(EntryType)
    BY <2>1 DEF Assert, Inv, TrailOK, TrailIs
  <2> HIDE DEF e
  <2>4. Len(trail) + 1 \in 1..Len(trail') /\ trail'[Len(trail) + 1] = e
    BY <2>2, <2>3, AppendFacts
  <2>5. Vars({l}) \cap eliminated = {}
    BY VarsOfPart
  <2>6. Holds(A, l)
    BY <2>2, <2>4, <2>5 DEF RootHolds
  <2> QED BY <1>3, <2>6 DEF Satisfies, AddUnit
<1>4. CASE AddLong(c)
  <2>1. PICK w \in SUBSET Remaining(c) :
          clauses' = clauses \cup {Attached(Remaining(c), w)}
    BY <1>4 DEF AddLong
  <2>2. PICK d \in clauses' : d.lits = Remaining(c)
    <3> DEFINE b == Attached(Remaining(c), w)
    <3>1. b \in clauses' /\ b.lits = Remaining(c)
      BY <2>1 DEF Attached
    <3> HIDE DEF b
    <3> QED BY <3>1
  <2>3. Remaining(c) \subseteq c
    BY DEF Remaining
  <2>4. elimvar' \notin Vars(d.lits)
    <3>1. Vars(d.lits) \subseteq Vars(c)
      BY <2>2, <2>3, VarsOfPart
    <3>2. Vars(c) \subseteq Variable /\ ~(0 \in Variable)
      BY DEF Vars, Variable
    <3> QED BY <3>1, <3>2 DEF PhaseOK
  <2>5. Satisfies(A, d.lits)
    BY <2>4 DEF ClausesHold
  <2> QED BY <2>1, <2>2, <2>3, <2>5 DEF Satisfies
<1>5. CASE AddEmpty(c)
  BY <1>5 DEF AddEmpty
<1> QED BY <1>2, <1>3, <1>4, <1>5 DEF AddClause

LEMMA ReadHold ==
  ASSUME Inv, PhaseOK, ReadClause, pc' # "done", NEW A \in Assignment,
         ClausesHold(A)', RootHolds(A)', RootHolds(A)
  PROVE  ClausesHold(A)
<1>1. /\ pc = "parse" /\ input # << >> /\ input' = Tail(input)
      /\ AddClause(Head(input))
      /\ UNCHANGED <<eliminated, elimvar, adding>>
  BY DEF ReadClause
<1>2. decisionLevel = 0 /\ eliminated = {}
  BY <1>1, AtRoot DEF PhaseOK, Parsing
<1>3. /\ Head(input) \in Clause /\ Head(input) = input[1] /\ Len(input) \in Nat
      /\ Len(input') = Len(input) - 1
      /\ \A i \in 1..Len(input') : input'[i] = input[i + 1]
  BY <1>1 DEF Inv, ControlOK, DataOK
<1>4. Satisfies(A, Head(input)) /\ clauses \subseteq clauses'
  BY <1>1, <1>2, <1>3, AddedHolds
<1>5. \A i \in 1..Len(input) : Satisfies(A, input[i])
  <2> SUFFICES ASSUME NEW i \in 1..Len(input) PROVE Satisfies(A, input[i])
    OBVIOUS
  <2>1. CASE i = 1
    BY <1>3, <1>4, <2>1
  <2>2. CASE i # 1
    <3>1. i - 1 \in 1..Len(input') /\ (i - 1) + 1 = i
      BY <1>3, <2>2
    <3>2. input'[i - 1] = input[i]
      BY <1>3, <3>1
    <3> QED BY <3>1, <3>2 DEF ClausesHold
  <2> QED BY <2>1, <2>2
<1> QED BY <1>1, <1>4, <1>5 DEF ClausesHold

LEMMA AddResolventHold ==
  ASSUME Inv, PhaseOK, ElimOK, AddResolvent, pc' # "done", NEW A \in Assignment,
         ClausesHold(A)', RootHolds(A)', RootHolds(A)
  PROVE  ClausesHold(A)
<1>1. PICK c \in adding : AddClause(c) /\ adding' = adding \ {c}
  BY DEF AddResolvent
<1>2. pc = "resolve" /\ UNCHANGED <<eliminated, elimvar, input>>
  BY DEF AddResolvent
<1>3. decisionLevel = 0 /\ c \in Clause /\ Vars(c) \cap eliminated = {}
  BY <1>2, AtRoot DEF Inv, ControlOK, DataOK, ElimOK
<1>4. Satisfies(A, c) /\ clauses \subseteq clauses'
  BY <1>1, <1>2, <1>3, AddedHolds
<1> QED BY <1>1, <1>2, <1>4 DEF ClausesHold

LEMMA InitGood == Init => GoodOK
<1> SUFFICES ASSUME Init PROVE GoodOK
  OBVIOUS
<1>1. /\ elimclauses = << >> /\ Len(elimclauses) = 0 /\ pc = "parse"
      /\ answer = "none" /\ input = run.formula
  BY DEF Init
<1> DEFINE G == [i \in 0..0 |-> Models]
<1>2. IsChain(G)
  BY <1>1 DEF IsChain, Models
<1>3. \A A \in Assignment : Meets(A) => A \in G[Len(elimclauses)]
  BY <1>1 DEF Meets, ClausesHold, Models, Solves
<1> HIDE DEF G
<1> QED BY <1>1, <1>2, <1>3 DEF GoodOK, SatSound

LEMMA EliminateGood ==
  ASSUME Inv, PhaseOK, ElimOK, RecordsOK, GoodOK, Eliminate
  PROVE  GoodOK'
<1>1. PICK v \in Variable :
        /\ v \notin eliminated /\ Undef(v) /\ eliminated' = eliminated \cup {v}
        /\ elimclauses' = Append(elimclauses, Kept(v))
        /\ elimvar' = v /\ adding' = Resolvents(v)
  BY DEF Eliminate, PhaseOK
<1>2. /\ pc = "vars" /\ pc' = "resolve"
      /\ UNCHANGED <<clauses, trail, input, run, answer>>
  BY DEF Eliminate, dbVars, trailVars, outVars
<1>3. elimvar = 0 /\ adding = {} /\ input = << >> /\ answer # "SATISFIABLE"
  BY <1>2, NotEliminating DEF Resolving, InLoop, PhaseOK, Parsing
<1> DEFINE k == Kept(v)
           m == Len(elimclauses)
<1>4. k \in RecordType /\ VarOf(k) = v
  BY KeptRecord
<1>5. k.lit \in Lit
  BY <1>4 DEF RecordType
<1>6. elimclauses' = Append(elimclauses, k)
  BY <1>1
<1>7. ASSUME NEW A \in Assignment, Meets(A)'
      PROVE  Extended(A, k) \in Assignment /\ Meets(Extended(A, k))
  <2> DEFINE B == Extended(A, k)
  <2>1. /\ B \in Assignment
        /\ \A l \in Lit : l \notin {v, -v} => (Holds(B, l) <=> Holds(A, l))
    <3> HIDE DEF k
    <3> QED BY <1>4, <1>5, ExtendedFacts
  <2>2. ASSUME NEW c \in clauses PROVE Satisfies(B, c.lits)
    <3>1. CASE v \in Vars(c.lits)
      <4>1. \A r \in Resolvents(v) : Satisfies(A, r)
        BY <1>1, <1>7 DEF Meets, ClausesHold
      <4> QED BY <3>1, <4>1, EliminatedHold
    <3>2. CASE v \notin Vars(c.lits)
      <4>1. c \in clauses' /\ elimvar' \notin Vars(c.lits)
        BY <1>1, <1>2, <3>2
      <4>2. PICK l \in c.lits : Holds(A, l)
        BY <1>7, <4>1 DEF Meets, ClausesHold, Satisfies
      <4>3. l \in Lit /\ l # v /\ l # -v
        BY <3>2 DEF Vars, Inv, ControlOK, DataOK, DB, Clause
      <4> HIDE DEF B
      <4> QED BY <2>1, <4>2, <4>3 DEF Satisfies
    <3> QED BY <3>1, <3>2
  <2>3. ClausesHold(B)
    BY <1>3, <2>2 DEF ClausesHold
  <2> HIDE DEF B
  <2>4. ASSUME NEW i \in 1..Len(trail), trail[i].level = 0,
               Vars({trail[i].lit}) \cap eliminated = {}
        PROVE  Holds(B, trail[i].lit)
    <3>1. trail[i].lit \in Lit
      BY TrailEntry DEF Inv
    <3>2. trail[i].lit # v /\ trail[i].lit # -v
      BY <1>1 DEF Undef, False, True
    <3>3. v \notin Vars({trail[i].lit})
      BY <3>1, <3>2, VarLit, LitNeg DEF Vars
    <3>4. Holds(A, trail[i].lit)
      BY <1>1, <1>2, <1>7, <2>4, <3>3 DEF Meets, RootHolds
    <3> QED BY <2>1, <3>1, <3>2, <3>4
  <2>5. RootHolds(B)
    BY <2>4 DEF RootHolds
  <2> QED BY <2>1, <2>3, <2>5 DEF Meets, B
<1>8. PICK G : /\ IsChain(G)
               /\ \A A \in Assignment : Meets(A) => A \in G[m]
  BY <1>2 DEF GoodOK
<1> HIDE DEF k
<1>9. /\ m \in Nat /\ Len(elimclauses') = m + 1
      /\ \A i \in 1..m : elimclauses'[i] = elimclauses[i]
      /\ elimclauses'[m + 1] = k
  BY <1>4, <1>6 DEF RecordsOK
<1> DEFINE last == {A \in Assignment : Extended(A, k) \in G[m]}
<1>10. /\ G \in [0..m -> SUBSET Assignment] /\ G[0] \subseteq Models
       /\ \A i \in 1..m : \A A \in G[i] : Extended(A, elimclauses[i]) \in G[i - 1]
  BY <1>8 DEF IsChain
<1> HIDE DEF m
<1>11. PICK H : /\ \A i \in 0..m : H[i] = G[i]
                /\ H[m + 1] = last
                /\ H \in [0..(m + 1) -> SUBSET Assignment]
  <2> DEFINE h == [i \in 0..(m + 1) |-> IF i \in 0..m THEN G[i] ELSE last]
  <2>1. /\ \A i \in 0..m : h[i] = G[i]
        /\ h[m + 1] = last
        /\ h \in [0..(m + 1) -> SUBSET Assignment]
    BY <1>9, <1>10
  <2> QED BY <2>1
<1>12. \A i \in 1..(m + 1) : \A A \in H[i] : Extended(A, elimclauses'[i]) \in H[i - 1]
  <2> SUFFICES ASSUME NEW i \in 1..(m + 1), NEW A \in H[i]
               PROVE  Extended(A, elimclauses'[i]) \in H[i - 1]
    OBVIOUS
  <2>1. CASE i \in 1..m
    <3>1. i - 1 \in 0..m /\ i \in 0..m
      BY <1>9, <2>1
    <3> QED BY <1>9, <1>10, <1>11, <2>1, <3>1
  <2>2. CASE i = m + 1
    <3>1. i - 1 = m /\ m \in 0..m
      BY <1>9, <2>2
    <3>2. A \in last
      BY <1>11, <2>2
    <3>3. Extended(A, k) \in G[m]
      BY <3>2
    <3> QED BY <1>9, <1>11, <2>2, <3>1, <3>3
  <2> QED BY <1>9, <2>1, <2>2
<1>13. H[0] \subseteq Models'
  <2>1. Models' = Models
    BY <1>2 DEF Models, Solves
  <2> QED BY <1>9, <1>10, <1>11, <2>1
<1>14. IsChain(H)'
  BY <1>9, <1>11, <1>12, <1>13 DEF IsChain
<1>15. \A A \in Assignment : Meets(A)' => A \in H[Len(elimclauses')]
  BY <1>7, <1>8, <1>9, <1>11
<1> QED BY <1>2, <1>3, <1>14, <1>15 DEF GoodOK, SatSound

\* The model found satisfies the clauses, unless the simplification was cut short.
LEMMA StoreGood ==
  ASSUME SearchInv, RecordsOK, ModelOK, GoodOK, StoreModel
  PROVE  GoodOK'
<1> USE DEF SearchInv
<1>1. /\ pc = "model" /\ pc' = "extend" /\ left' = Len(elimclauses)
      /\ model' = {trail[i].lit : i \in 1..Len(trail)}
      /\ UNCHANGED <<run, clauses, elimclauses, asynch_interrupt, answer>>
  BY DEF StoreModel, dbVars, simpVars
<1>2. /\ elimvar = 0 /\ adding = {} /\ input = << >> /\ answer # "SATISFIABLE"
      /\ todo = {} /\ qhead = Len(trail) /\ ~InConflict /\ Len(trail) \in Nat
  BY <1>1, NotEliminating
     DEF Resolving, InLoop, PhaseOK, Parsing, Inv, ControlOK, PcOK, QueueOK,
         InConflict, TrailOK, TrailIs
<1> DEFINE M == [v \in Variable |-> v \in model']
<1>3. M \in Assignment /\ \A v \in Variable : M[v] <=> v \in model'
  <2>1. M \in Assignment
    BY DEF Assignment
  <2>2. \A v \in Variable : M[v] <=> v \in model'
    OBVIOUS
  <2> QED BY <2>1, <2>2
<1> HIDE DEF M
<1>4. ASSUME NEW l \in Lit, True(l) PROVE Holds(M, l)
  <2>1. PICK i \in 1..Len(trail) : trail[i].lit = l
    BY <1>4 DEF True
  <2>2. l \in model'
    BY <1>1, <2>1
  <2>3. -l \notin model'
    <3> SUFFICES ASSUME NEW j \in 1..Len(trail), trail[j].lit = -l PROVE FALSE
      BY <1>1
    <3> QED BY <2>1, LitNeg DEF Inv, TrailOK, TrailIs, Distinct
  <2>4. l \in Int /\ l # 0 /\ l \in -NV..NV /\ NV \in Nat
    BY SolverAssumption DEF Lit
  <2>5. CASE l > 0
    BY <1>3, <2>2, <2>4, <2>5 DEF Holds, Variable
  <2>6. CASE ~(l > 0)
    BY <1>3, <2>3, <2>4, <2>6 DEF Holds, Variable
  <2> QED BY <2>5, <2>6
<1>5. ASSUME ~CutShort', NEW c \in clauses PROVE Satisfies(M, c.lits)
  <2> SUFFICES ASSUME ~Satisfies(M, c.lits) PROVE FALSE
    OBVIOUS
  <2>1. c.lits \in Clause /\ c.watch \subseteq c.lits /\ c \in DB
    BY DEF Inv, ControlOK, DataOK, DB
  <2>2. \A l \in c.lits : l \in Lit /\ ~True(l)
    BY <1>4, <2>1 DEF Satisfies, Clause
  <2>3. Vars(c.lits) \cap eliminated = {}
    BY <1>2, <2>1 DEF ElimOK, PhaseOK, Variable
  <2>4. \A l \in c.lits : False(l)
    <3> SUFFICES ASSUME NEW l \in c.lits PROVE False(l)
      OBVIOUS
    <3>1. l \notin eliminated /\ -l \notin eliminated
      BY <2>1, <2>3, LiteralFree
    <3>2. l \in Variable \/ -l \in Variable
      BY <2>2, SolverAssumption DEF Lit, Variable
    <3>3. -(-l) = l
      BY <2>2, LitNeg
    <3>4. ~Undef(l) \/ ~Undef(-l)
      BY <1>1, <3>1, <3>2 DEF ModelOK
    <3> QED BY <2>2, <3>3, <3>4 DEF Undef, False
  <2>5. \A l \in c.watch : asynch_interrupt /\ FalseAtRoot(l)'
    <3> SUFFICES ASSUME NEW l \in c.watch
                 PROVE  asynch_interrupt /\ FalseAtRoot(l)'
      OBVIOUS
    <3>1. PICK i \in 1..Len(trail) : trail[i].lit = -l
      BY <2>1, <2>4 DEF False, True
    <3>2. -trail[i].lit \in c.watch
      BY <2>1, <2>2, <3>1, LitNeg
    <3>3. ~Witnessed(c, trail[i].level)
      BY <2>2 DEF Witnessed, True
    <3>4. ~(trail[i].level > 0) /\ Exempt
      BY <1>1, <1>2, <2>1, <3>2, <3>3 DEF WatchOK, Visited
    <3>5. trail[i].level = 0
      BY <3>4, TrailEntry DEF Inv
    <3>6. asynch_interrupt
      BY <1>1, <3>4 DEF Exempt, Simplifying, Subsuming, Resolving, InLoop
    <3>7. i \in 1..Len(trail') /\ trail'[i] = trail[i]
      <4>1. [Next]_vars
        BY DEF Next, Step, Finish
      <4> QED BY <3>5, <4>1, RootStays
    <3> QED BY <3>1, <3>5, <3>6, <3>7 DEF FalseAtRoot
  <2>6. c \in clauses' /\ c.watch # {}
    BY <1>1, <2>1 DEF PairedOK, Paired
  <2>7. asynch_interrupt' /\ \A l \in c.watch : FalseAtRoot(l)'
    BY <1>1, <2>5, <2>6
  <2> QED BY <1>5, <2>6, <2>7, Zenon DEF CutShort
<1>6. ASSUME ~CutShort' PROVE Meets(M)
  <2>1. ClausesHold(M)
    BY <1>2, <1>5, <1>6 DEF ClausesHold
  <2>2. RootHolds(M)
    <3> SUFFICES ASSUME NEW i \in 1..Len(trail) PROVE Holds(M, trail[i].lit)
      BY DEF RootHolds
    <3>1. trail[i].lit \in Lit /\ True(trail[i].lit)
      BY TrailEntry DEF Inv, True
    <3> QED BY <1>4, <3>1
  <2> QED BY <2>1, <2>2 DEF Meets
<1>7. PICK G : /\ IsChain(G)
               /\ \A A \in Assignment : Meets(A) => A \in G[Len(elimclauses)]
  BY <1>1 DEF GoodOK
<1>8. IsChain(G)'
  BY <1>1, <1>7, SameChain
<1>9. CutShort' \/ ModelAssignment' \in G[left']
  BY <1>1, <1>3, <1>6, <1>7 DEF M, ModelAssignment
<1> QED BY <1>1, <1>2, <1>8, <1>9 DEF GoodOK, SatSound

LEMMA SameAssignment ==
  ASSUME NEW A \in Assignment, NEW B \in Assignment,
         \A v \in Variable : A[v] <=> B[v]
  PROVE  A = B
<1>1. \A v \in Variable : A[v] \in BOOLEAN /\ B[v] \in BOOLEAN
  BY DEF Assignment
<1>2. \A v \in Variable : A[v] = B[v]
  BY <1>1
<1> QED BY <1>2 DEF Assignment

LEMMA ModelIsTotal ==
  /\ ModelAssignment \in Assignment
  /\ \A v \in Variable : ModelAssignment[v] <=> v \in model
<1>1. ModelAssignment \in Assignment
  BY DEF ModelAssignment, Assignment
<1>2. \A v \in Variable : ModelAssignment[v] <=> v \in model
  BY DEF ModelAssignment
<1> QED BY <1>1, <1>2

LEMMA ModelIsTotalNext ==
  /\ ModelAssignment' \in Assignment
  /\ \A v \in Variable : ModelAssignment'[v] <=> v \in model'
<1>1. ModelAssignment' \in Assignment
  BY DEF ModelAssignment, Assignment
<1>2. \A v \in Variable : ModelAssignment'[v] <=> v \in model'
  BY DEF ModelAssignment
<1> QED BY <1>1, <1>2

LEMMA ExtendGood ==
  ASSUME PhaseOK, RecordsOK, ModelOK, GoodOK, ExtendModel
  PROVE  GoodOK'
<1> DEFINE e == elimclauses[left]
           M == ModelAssignment
           needs == \E r \in e.rests : \A l \in r : -l \in model
           x == IF needs THEN e.lit ELSE -e.lit
<1>1. /\ pc = "extend" /\ left > 0 /\ left' = left - 1
      /\ model' = (model \ {-x}) \cup {x}
      /\ UNCHANGED <<run, pc, clauses, trail, elimclauses, asynch_interrupt, answer>>
  BY DEF ExtendModel, coreVars, dbVars, trailVars, simpVars
<1>2. left \in 1..Len(elimclauses) /\ left \in Nat /\ Len(elimclauses) \in Nat
  BY <1>1 DEF ModelOK, RecordsOK
<1>3. e.lit \in Lit /\ e.rests \subseteq Clause
  BY <1>2, RecordIsTyped
<1>4. \A r \in e.rests : \A i \in 1..left : VarOf(elimclauses[i]) \notin Vars(r)
  BY <1>2 DEF RecordsOK
<1>5. \A v \in Variable :
        (\A i \in 1..left : VarOf(elimclauses[i]) # v) => (v \in model <=> -v \notin model)
  BY <1>1 DEF ModelOK
<1> HIDE DEF e
<1>6. Needed(M, e) <=> needs
  <2>1. ASSUME NEW r \in e.rests, NEW l \in r
        PROVE  ~Holds(M, l) <=> -l \in model
    <3>1. l \in Lit
      BY <1>3 DEF Clause
    <3>2. l \in Int /\ l # 0 /\ l \in -NV..NV /\ NV \in Nat /\ -(-l) = l
      BY <3>1, SolverAssumption, LitNeg DEF Lit
    <3>3. CASE l > 0
      <4>1. l \in Variable
        BY <3>2, <3>3 DEF Variable
      <4>2. l \in Vars(r)
        BY <4>1 DEF Vars
      <4>3. l \in model <=> -l \notin model
        BY <1>4, <1>5, <4>1, <4>2
      <4>4. Holds(M, l) <=> l \in model
        BY <3>3, <4>1, ModelIsTotal DEF Holds
      <4> QED BY <4>3, <4>4
    <3>4. CASE ~(l > 0)
      <4>1. -l \in Variable
        BY <3>2, <3>4 DEF Variable
      <4>2. Holds(M, l) <=> -l \notin model
        BY <3>4, <4>1, ModelIsTotal DEF Holds
      <4> QED BY <4>2
    <3> QED BY <3>3, <3>4
  <2> QED BY <2>1 DEF Needed
<1>7. VarOf(e) \in Variable /\ e.lit \in {VarOf(e), -VarOf(e)}
  <2>1. e.lit \in Int /\ e.lit \in -NV..NV /\ e.lit # 0 /\ NV \in Nat
    BY <1>3, SolverAssumption DEF Lit
  <2> QED BY <2>1 DEF VarOf, Variable
<1> DEFINE v == VarOf(e)
           B == Extended(M, e)
<1>8. /\ B \in Assignment
      /\ \A l \in Lit : l \notin {v, -v} => (Holds(B, l) <=> Holds(M, l))
      /\ Holds(B, e.lit) <=> Needed(M, e)
  BY <1>3, <1>7, ModelIsTotal, ExtendedFacts
<1> HIDE DEF M, B, needs
<1>9. ModelAssignment' = B
  <2>1. ASSUME NEW w \in Variable PROVE ModelAssignment'[w] <=> B[w]
    <3>1. w \in Lit /\ -w \in Lit /\ w > 0 /\ w \in Int /\ -w # w /\ ~(-w > 0)
      BY VarLit
    <3>2. Holds(B, w) <=> B[w]
      BY <3>1 DEF Holds
    <3>3. v \in Int /\ v > 0
      BY <1>7, VarLit
    <3>4. CASE w = v
      <4>1. x \in {w, -w} /\ (e.lit = w \/ e.lit = -w)
        BY <1>7, <3>1, <3>4
      <4>2. w \in model' <=> x = w
        BY <1>1, <3>1, <4>1
      <4>3. CASE e.lit = w
        <5>1. x = w <=> needs
          BY <3>1, <4>3
        <5> QED BY <1>6, <1>8, <3>2, <4>2, <4>3, <5>1, ModelIsTotalNext
      <4>4. CASE e.lit = -w
        <5>1. x = w <=> ~needs
          BY <3>1, <4>4
        <5>2. Holds(B, -w) <=> ~Holds(B, w)
          BY <1>8, <3>1, HoldsNeg
        <5> QED BY <1>6, <1>8, <3>2, <4>2, <4>4, <5>1, <5>2, ModelIsTotalNext
      <4> QED BY <4>1, <4>3, <4>4
    <3>5. CASE w # v
      <4>1. x # w /\ -x # w
        BY <1>7, <3>1, <3>3, <3>5
      <4>2. w \in model' <=> w \in model
        BY <1>1, <4>1
      <4>3. w \notin {v, -v}
        BY <3>1, <3>3, <3>5
      <4>4. Holds(B, w) <=> Holds(M, w)
        BY <1>8, <3>1, <4>3
      <4>5. Holds(M, w) <=> w \in model
        BY <3>1, ModelIsTotal DEF Holds, M
      <4> QED BY <3>2, <4>2, <4>4, <4>5, ModelIsTotalNext
    <3> QED BY <3>4, <3>5
  <2> QED BY <1>8, <2>1, ModelIsTotalNext, SameAssignment
<1>10. PICK G : IsChain(G) /\ (CutShort \/ ModelAssignment \in G[left])
  BY <1>1 DEF GoodOK
<1>11. IsChain(G)'
  BY <1>1, <1>10, SameChain
<1>12. CutShort => CutShort'
  BY <1>1 DEF CutShort, FalseAtRoot
<1>13. ModelAssignment \in G[left] => ModelAssignment' \in G[left']
  BY <1>1, <1>2, <1>9, <1>10 DEF IsChain, B, M, e
<1>14. answer # "SATISFIABLE"
  BY <1>1 DEF PhaseOK
<1> QED BY <1>1, <1>10, <1>11, <1>12, <1>13, <1>14 DEF GoodOK, SatSound

\* What is printed is the model, extended to all the variables.
LEMMA DoneGood ==
  ASSUME PhaseOK, ModelOK, GoodOK, [Next]_vars, pc' = "done"
  PROVE  GoodOK'
<1>1. CASE PrintModel
  <2>1. /\ pc = "extend" /\ left = 0
        /\ UNCHANGED <<run, clauses, trail, model, asynch_interrupt>>
    BY <1>1 DEF PrintModel, dbVars, trailVars
  <2>2. \A v \in Variable : v \in model <=> -v \notin model
    BY <2>1 DEF ModelOK
  <2>3. CutShort \/ ModelAssignment \in Models
    BY <2>1 DEF GoodOK, IsChain
  <2>4. CutShort' <=> CutShort
    BY <2>1 DEF CutShort, FalseAtRoot
  <2>5. ASSUME ~CutShort PROVE Solves(ModelAssignment)
    BY <2>3, <2>5 DEF Models
  <2>6. ASSUME ~CutShort PROVE ModelOfFile'
    BY <2>1, <2>5, <2>6 DEF ModelOfFile, Solves, ModelAssignment
  <2> QED BY <1>1, <2>1, <2>2, <2>4, <2>6 DEF GoodOK, SatSound
<1>2. CASE UNCHANGED vars
  <2>1. UNCHANGED <<answer, model, run, clauses, trail, asynch_interrupt>>
    BY <1>2 DEF vars, coreVars, dbVars, trailVars, outVars
  <2> QED BY <2>1 DEF GoodOK, SatSound, ModelOfFile, Solves, CutShort, FalseAtRoot
<1>3. CASE ~PrintModel /\ ~UNCHANGED vars
  <2>1. pc # "done"
    BY <1>3
       DEF Next, Step, Terminated, Preprocess, Finish, Propagate, Search,
           ReadClause, ParseDone, GatherTouched, EliminateDone,
           SubsumeInterrupted, PopQueue, PopAssign, RemoveSubsumed, Strengthen,
           StrengthenToUnit, ScanDone, SubsumeDone, VarsInterrupted, VarsDone,
           SkipVariable, Eliminate, AddResolvent, RemoveOld, PropagateNext,
           SkipClause, MoveWatch, EnqueueUnit, ConflictFound, PropagateDone,
           StartAnalyze, Resolve, Learn, Restart, Decide, AllAssigned,
           ConflictAtRoot, StoreModel, ExtendModel, PrintIndeterminate, Interrupt
  <2>2. answer # "SATISFIABLE"
    BY <2>1 DEF PhaseOK
  <2>3. AddResolvent \/ ReadClause => answer' \in {answer, "UNSATISFIABLE"}
    BY DEF AddResolvent, ReadClause, AddClause, AddNothing, AddEmpty, AddUnit,
           AddLong
  <2>4. answer' \in {answer, "UNSATISFIABLE", "INDETERMINATE", "killed"}
    BY <1>3, <2>3
       DEF Next, Step, Terminated, Preprocess, Finish, ParseDone, GatherTouched,
           EliminateDone, SubsumeInterrupted, PopQueue, PopAssign,
           RemoveSubsumed, Strengthen, StrengthenToUnit, ScanDone, SubsumeDone,
           VarsInterrupted, VarsDone, SkipVariable, Eliminate, RemoveOld,
           ConflictAtRoot, StoreModel, ExtendModel, PrintIndeterminate,
           Interrupt, outVars
  <2>5. answer' # "SATISFIABLE"
    BY <2>2, <2>4
  <2> QED BY <2>5 DEF GoodOK, SatSound
<1> QED BY <1>1, <1>2, <1>3

LEMMA NextGood ==
  SearchInv /\ RecordsOK /\ ModelOK /\ GoodOK /\ [Next]_vars => GoodOK'
<1> SUFFICES ASSUME SearchInv, RecordsOK, ModelOK, GoodOK, [Next]_vars,
                    pc' # "done"
             PROVE  GoodOK'
  BY DoneGood DEF SearchInv
<1> DEFINE Back == \A A \in Assignment :
             ClausesHold(A)' /\ RootHolds(A)' /\ RootHolds(A) => ClausesHold(A)
<1>1. CASE Eliminate
  BY <1>1, EliminateGood DEF SearchInv
<1>2. CASE StoreModel
  BY <1>2, StoreGood
<1>3. CASE ExtendModel
  BY <1>3, ExtendGood DEF SearchInv
<1>4. ASSUME UNCHANGED <<run, elimclauses, eliminated>>, Back,
             pc \notin {"done", "extend"}, pc' # "extend"
      PROVE  GoodOK'
  <2> HIDE DEF Back
  <2>1. \A A \in Assignment :
          ClausesHold(A)' /\ RootHolds(A)' /\ RootHolds(A) => ClausesHold(A)
    BY <1>4 DEF Back
  <2> QED BY <1>4, <2>1, SameGood DEF SearchInv
<1>5. CASE ReadClause
  <2>1. Back
    BY <1>5, ReadHold DEF SearchInv
  <2>2. UNCHANGED <<run, elimclauses, eliminated>> /\ pc = "parse" /\ pc' # "extend"
    BY <1>5 DEF ReadClause, AddClause, AddNothing, AddEmpty, AddUnit, AddLong
  <2> QED BY <1>4, <2>1, <2>2
<1>6. CASE AddResolvent
  <2>1. Back
    BY <1>6, AddResolventHold DEF SearchInv
  <2>2. UNCHANGED <<run, elimclauses, eliminated>> /\ pc = "resolve" /\ pc' # "extend"
    BY <1>6 DEF AddResolvent, AddClause, AddNothing, AddEmpty, AddUnit, AddLong
  <2> QED BY <1>4, <2>1, <2>2
<1>7. CASE RemoveSubsumed
  <2>1. Back
    BY <1>7, SubsumedHold DEF SearchInv
  <2>2. UNCHANGED <<run, elimclauses, eliminated, pc>> /\ pc = "subsume"
    BY <1>7 DEF RemoveSubsumed
  <2> QED BY <1>4, <2>1, <2>2
<1>8. CASE StrengthenToUnit
  <2>1. Back
    BY <1>8, UnitHold DEF SearchInv
  <2>2. UNCHANGED <<run, elimclauses, eliminated>> /\ pc = "subsume" /\ pc' # "extend"
    BY <1>8 DEF StrengthenToUnit
  <2> QED BY <1>4, <2>1, <2>2
<1>9. CASE RemoveOld
  <2>1. Back
    BY <1>9, RemoveOldHold
  <2>2. UNCHANGED <<run, elimclauses, eliminated>> /\ pc = "resolve" /\ pc' # "extend"
    BY <1>9 DEF RemoveOld
  <2> QED BY <1>4, <2>1, <2>2
<1>10. CASE Decide(Variable \ eliminated) /\ UNCHANGED Rest
  <2>1. Back
    BY <1>10, DecideHold DEF SearchInv
  <2>2. UNCHANGED <<run, elimclauses, eliminated>> /\ pc = "search" /\ pc' # "extend"
    BY <1>10 DEF Decide, Rest, simpVars
  <2> QED BY <1>4, <2>1, <2>2
<1>11. ASSUME UNCHANGED <<run, elimclauses, eliminated, elimvar, adding, input>>,
              \A c \in clauses : \E d \in clauses' : d.lits \subseteq c.lits,
              pc \notin {"done", "extend"}, pc' # "extend"
       PROVE  GoodOK'
  <2>1. Back
    BY <1>11, PartsHold
  <2> QED BY <1>4, <1>11, <2>1
<1>12. ASSUME UNCHANGED <<run, elimclauses, eliminated, elimvar, adding, input,
                          clauses>>,
              pc \notin {"done", "extend"}, pc' # "extend"
       PROVE  GoodOK'
  BY <1>11, <1>12
<1>13. CASE Strengthen
  <2>1. PICK d \in clauses, l \in cur :
          \E w : clauses' = (clauses \ {d}) \cup {Attached(Without(d, l), w)}
    BY <1>13 DEF Strengthen
  <2>2. PICK b : clauses' = (clauses \ {d}) \cup {b} /\ b.lits = Without(d, l)
    <3>1. PICK w : clauses' = (clauses \ {d}) \cup {Attached(Without(d, l), w)}
      BY <2>1
    <3> DEFINE a == Attached(Without(d, l), w)
    <3>2. clauses' = (clauses \ {d}) \cup {a} /\ a.lits = Without(d, l)
      BY <3>1 DEF Attached
    <3> HIDE DEF a
    <3> QED BY <3>2
  <2>3. \A c \in clauses : \E a \in clauses' : a.lits \subseteq c.lits
    BY <2>2 DEF Without
  <2>4. /\ UNCHANGED <<run, elimclauses, eliminated, elimvar, adding, input, pc>>
        /\ pc = "subsume"
    BY <1>13 DEF Strengthen
  <2> QED BY <1>11, <2>3, <2>4
<1>14. CASE MoveWatch /\ UNCHANGED Rest
  <2>1. PICK c \in todo : \E w : clauses' = Rewatch(clauses, c, Attached(c.lits, w))
    BY <1>14 DEF MoveWatch
  <2>2. PICK b : clauses' = Rewatch(clauses, c, b) /\ b.lits = c.lits
    BY <2>1 DEF Attached
  <2>3. \A d \in clauses : \E a \in clauses' : a.lits \subseteq d.lits
    BY <2>2 DEF Rewatch
  <2>4. /\ UNCHANGED <<run, elimclauses, eliminated, elimvar, adding, input, pc>>
        /\ pc = "propagate"
    BY <1>14 DEF MoveWatch, Rest, simpVars
  <2> QED BY <1>11, <2>3, <2>4
<1>15. CASE PropagateDone /\ UNCHANGED Rest
  <2>1. pc' # "extend"
    BY <1>15 DEF PropagateDone, SearchInv, Inv, ControlOK, PcOK
  <2> QED BY <1>12, <1>15, <2>1 DEF PropagateDone, Rest, simpVars, dbVars
<1>16. CASE (Propagate /\ ~MoveWatch /\ ~PropagateDone) /\ UNCHANGED Rest
  BY <1>12, <1>16
     DEF Propagate, PropagateNext, SkipClause, EnqueueUnit, ConflictFound, Rest,
         simpVars, dbVars
<1>17. CASE (Search /\ ~Decide(Variable \ eliminated)) /\ UNCHANGED Rest
  BY <1>12, <1>17
     DEF Search, StartAnalyze, Resolve, Learn, Restart, AllAssigned, Rest,
         simpVars, dbVars
<1>18. CASE ParseDone \/ GatherTouched \/ EliminateDone \/ SubsumeInterrupted
              \/ PopQueue \/ PopAssign \/ ScanDone \/ SubsumeDone
              \/ VarsInterrupted \/ VarsDone \/ SkipVariable
  BY <1>12, <1>18
     DEF ParseDone, GatherTouched, EliminateDone, SubsumeInterrupted, PopQueue,
         PopAssign, ScanDone, SubsumeDone, VarsInterrupted, VarsDone,
         SkipVariable, coreVars, dbVars, simpVars
<1>19. CASE Interrupt \/ UNCHANGED vars
  <2>1. /\ UNCHANGED <<run, elimclauses, eliminated, elimvar, adding, input,
                       clauses, pc, trail, model, left, answer>>
        /\ asynch_interrupt => asynch_interrupt'
    BY <1>19
       DEF Interrupt, vars, coreVars, dbVars, trailVars, simpVars, outVars
  <2>2. CASE pc = "extend"
    <3>1. PICK G : IsChain(G) /\ (CutShort \/ ModelAssignment \in G[left])
      BY <2>2 DEF GoodOK
    <3>2. IsChain(G)'
      BY <2>1, <3>1, SameChain
    <3>3. CutShort => CutShort'
      BY <2>1 DEF CutShort, FalseAtRoot
    <3>4. ModelAssignment' = ModelAssignment
      BY <2>1 DEF ModelAssignment
    <3>5. answer # "SATISFIABLE"
      BY <2>2 DEF SearchInv, PhaseOK
    <3> QED BY <2>1, <2>2, <3>1, <3>2, <3>3, <3>4, <3>5 DEF GoodOK, SatSound
  <2> QED BY <1>12, <2>1, <2>2
<1> QED
  BY <1>1, <1>2, <1>3, <1>5, <1>6, <1>7, <1>8, <1>9, <1>10, <1>13, <1>14, <1>15,
     <1>16, <1>17, <1>18, <1>19
     DEF Next, Step, Preprocess, Finish, Terminated, Propagate, Search, Rest,
         ConflictAtRoot, PrintModel, PrintIndeterminate

\* The model printed satisfies the file, whatever was eliminated and however the
\* search went, unless a signal cut the simplification short after a clause was
\* strengthened to false literals (extendModel, eliminateVar, printStats).
THEOREM ModelsAreRight == Spec => []SatSound
<1> DEFINE FullInv == SearchInv /\ RecordsOK /\ ModelOK /\ GoodOK
<1>1. Init => FullInv
  <2>1. Init => RecordsOK /\ ModelOK
    <3> SUFFICES ASSUME Init PROVE RecordsOK /\ ModelOK
      OBVIOUS
    <3>1. /\ elimclauses = << >> /\ eliminated = {} /\ pc = "parse"
          /\ elimclauses \in Seq(RecordType) /\ Len(elimclauses) = 0
      BY DEF Init
    <3> QED BY <3>1 DEF RecordsOK, ModelOK
  <2> QED BY <2>1, InitSearch, InitGood
<1>2. FullInv /\ [Next]_vars => FullInv'
  BY NextSearch, NextRecords, NextModel, NextGood DEF SearchInv
<1>3. FullInv => SatSound
  BY DEF GoodOK
<1> QED BY <1>1, <1>2, <1>3, PTL DEF Spec
=============================================================================
