------------------------- MODULE MonoXPsProperties -------------------------
(***************************************************************************)
(* What a run of xmono must satisfy.                                       *)
(***************************************************************************)
EXTENDS MonoXPs, FiniteSetsExt

PC == {"start", "while", "solve", "parse", "test", "axp", "cxp", "block",
       "write", "stats", "count", "digest", "exit", "killed"}

Literal == {i \in -NF..NF : i # 0}
Clauses == SUBSET SUBSET Literal
Counts == [NSAT : Nat, NSIM : Nat, AXpNum : Nat, AXpLits : Nat,
           CXpNum : Nat, CXpLits : Nat]
BoxType == [Univs : SUBSET Feature, Fixes : SUBSET Feature,
            vLB : Space, vUB : Space]

\* Every variable keeps its type: the box stays within the bounds of the
\* specification, the literals written are those of features (a 0 would end
\* the clause in the file) and the solver's answer fits the features.
TypeOK ==
  /\ kappa \in Classifier /\ vect \in Instance /\ opts \in Options
  /\ pc \in PC
  /\ mxp \in BoxType
  /\ idx \in 1..(NF + 1)
  /\ xp \in SUBSET Feature /\ xtype \in XpType
  /\ CNF \in [NC : Nat, Cls : Clauses]
  /\ fcnf \in Clauses
  /\ fout \in [status : {"SATISFIABLE", "UNSATISFIABLE", "INDETERMINATE"},
               model : UNION {[1..n -> BOOLEAN] : n \in 0..NF}]
  /\ numxp \in Nat /\ done \in BOOLEAN
  /\ stats \in Counts
  /\ report \in SUBSET (XpType \X SUBSET Feature) /\ lines \in Nat
  /\ digest \in Counts \cup {NoDigest}

Reported(type) == {e[2] : e \in {r \in report : r[1] = type}}

Enumerating == opts.mode = "enum" /\ opts.out = "w"

-----------------------------------------------------------------------------
(* Explanations. *)

\* An explanation of the prediction; or the answer of -C when there is none.
ValidXp(type, X) ==
  \/ IsXp(kappa, vect, type, X)
  \/ opts.mode = "C" /\ ConstantClassifier(kappa)

\* In both loops the box is the one its universal features determine.  While
\* compute_one_axp runs the fixed features force the prediction, and no fixed
\* feature the loop has passed can be freed any more; while compute_one_cxp
\* runs the universal features can change the prediction (if anything can),
\* and no universal feature the loop has passed can be fixed any more.  What
\* the loops return is an explanation.
LoopInv ==
  /\ pc = "start" => mxp.Univs = {} /\ mxp.Fixes = {}
  /\ pc \in {"test", "axp", "cxp"} => mxp = Box(mxp.Univs)
  /\ pc = "axp" =>
       /\ WeakAXp(kappa, vect, mxp.Fixes)
       /\ \A j \in mxp.Fixes :
            j < idx => ~WeakAXp(kappa, vect, mxp.Fixes \ {j})
  /\ pc = "cxp" =>
       /\ \/ WeakCXp(kappa, vect, mxp.Univs)
          \/ opts.mode = "C" /\ ConstantClassifier(kappa)
       /\ \A j \in mxp.Univs :
            j < idx => ~WeakCXp(kappa, vect, mxp.Univs \ {j})
  /\ pc \in {"block", "write"} => ValidXp(xtype, xp)

\* Every explanation printed under -w is an abductive or contrastive
\* explanation: changing nothing outside it is enough, and no part of it will
\* do.  Under -C this holds if the classifier is not constant, since a constant
\* one has no contrastive explanation (compute_one_cxp does not look).
SoundReport == opts.out = "w" => \A e \in report : ValidXp(e[1], e[2])

\* -l is said to "write computed explanations (as literals)" (xmono:164): the
\* features of the literals printed are those of an explanation.
LiteralsAreXps ==
  opts.out = "l" => \A e \in report : IsXp(kappa, vect, e[1], e[2])

\* No explanation is printed twice, whichever models the solver returns.
NoRepeat == opts.out = "w" => lines = Cardinality(report)

\* The first explanation of an enumeration is abductive, since write_cnf asks
\* for the all-negative model first; so the empty explanation, which ends the
\* loop, is only ever the AXp of a constant classifier, and is then the only
\* one.
FirstIsAbductive ==
  Enumerating /\ report # {} =>
    /\ Reported("AXp") # {}
    /\ (\E e \in report : e[2] = {}) =>
          ConstantClassifier(kappa) /\ report = {<<"AXp", {}>>}

\* The solver left its last call without an answer.
NoAnswer == fout.status = "INDETERMINATE"

ListsAll == opts.N = NoLimit

\* -N is said to give the "number of NNN explanations to list (the default is
\* all)" (xmono:161): no more of them are printed.
ListsAtMostN == opts.N # NoLimit => lines <= opts.N

\* An enumeration that exits, its solver having answered every call, has
\* printed every explanation or, under -N, as many as were asked for if there
\* are that many.  -N 0 is left to ListsAtMostN: it prints them all.
Complete ==
  pc = "exit" /\ Enumerating /\ ~NoAnswer /\ opts.N # 0 =>
    IF ListsAll
    THEN report = AllXps(kappa, vect)
    ELSE Cardinality(report) =
           Min({opts.N, Cardinality(AllXps(kappa, vect))})

\* compute_xps says it runs "While there are solutions of CNF formula" and "If
\* UNSAT, then terminate" (MonoXPs.pm:114 and :124), which makes every exit
\* of a full enumeration a complete one.
EndsOnUnsat ==
  pc = "exit" /\ Enumerating /\ ListsAll => report = AllXps(kappa, vect)

\* At the exit of a full enumeration the contrastive explanations printed are
\* the minimal hitting sets of the abductive ones printed, and conversely.
Duality ==
  pc = "exit" /\ Enumerating /\ ListsAll /\ ~NoAnswer =>
    \A H \in SUBSET Feature :
      /\ H \in Reported("CXp") <=> MinimalHittingSet(H, Reported("AXp"))
      /\ H \in Reported("AXp") <=> MinimalHittingSet(H, Reported("CXp"))

\* A model read back from the solver's file opens a part of the feature space
\* no explanation covers: the file the solver read was the current formula,
\* and the literals mean to mk_ref_vlb_vub what they mean to block_axp and
\* block_cxp.
FreshRegion ==
  [][pc = "parse" /\ pc' = "test" /\ Enumerating =>
       /\ \A X \in Reported("AXp") : ~(X \subseteq mxp'.Fixes)
       /\ \A Y \in Reported("CXp") : ~(Y \subseteq mxp'.Univs)]_vars

\* The clause block_axp or block_cxp adds for an explanation, and the
\* explanations the formula excludes: those printed, and the one about to be.
Clause(e) == IF e[1] = "AXp" THEN BlockAxp(e[2]) ELSE BlockCxp(e[2])
Excluded == report \cup {e \in {<<xtype, xp>>} : pc = "write"}

\* -A and -C print one explanation, at their end.
OneXp ==
  opts.mode # "enum" =>
    /\ pc \notin {"while", "solve", "parse", "test", "block", "count"}
    /\ pc \in {"start", "axp", "cxp", "write"} => report = {}

\* The formula is the clauses of what was printed, the file is the formula,
\* the answer is an answer to the file.
FormulaInv ==
  Enumerating =>
    /\ pc # "killed" => CNF.Cls = {Clause(e) : e \in Excluded}
    /\ CNF.NC > 0 <=> CNF.Cls # {}
    /\ pc \in {"solve", "parse"} => fcnf = CnfFile(CNF)
    /\ pc = "parse" => fout \in Answers(fcnf)

\* From the model to the explanation nothing that was printed fits into the
\* box, so that the explanation is a new one.
FreshInv ==
  Enumerating =>
    /\ pc = "start" => report = {} /\ lines = 0
    /\ pc \in {"test", "axp"} =>
         \A X \in Reported("AXp") : ~(X \subseteq mxp.Fixes)
    /\ pc \in {"test", "cxp"} =>
         \A Y \in Reported("CXp") : ~(Y \subseteq mxp.Univs)
    /\ pc \in {"block", "write"} => <<xtype, xp>> \notin report

\* The first box fixes every feature, so that the first explanation is
\* abductive.
FirstInv ==
  Enumerating /\ report = {} =>
    /\ pc = "test" => mxp = Box({})
    /\ pc # "cxp"
    /\ pc \in {"block", "write"} => xtype = "AXp"

\* Only the empty explanation sets $done, and the counter of -N counts the
\* lines.
EndInv ==
  Enumerating =>
    /\ pc = "write" /\ done => xp = {}
    /\ pc \in {"stats", "count", "while"} /\ done =>
         \E t \in XpType : <<t, {}>> \in report
    /\ opts.N # NoLimit /\ pc \notin {"digest", "exit", "killed"} =>
         /\ numxp = IF pc \in {"stats", "count"} THEN lines - 1 ELSE lines
         /\ opts.N > 0 => numxp < opts.N

\* Where the loop has been left, for whatever reason but a solver without an
\* answer, everything is printed or the limit of -N is met.
ExitInv ==
  pc \in {"digest", "exit"} /\ Enumerating /\ ~NoAnswer =>
    /\ report = AllXps(kappa, vect) \/ (opts.N > 0 /\ lines = opts.N)
    /\ opts.N > 0 => lines <= opts.N

\* How an enumeration hangs together: with LoopInv, SoundReport and NoRepeat
\* an inductive invariant.
EnumInv == OneXp /\ FormulaInv /\ FreshInv /\ FirstInv /\ EndInv /\ ExitInv

-----------------------------------------------------------------------------
(* Statistics. *)

Counted(st) == st.AXpNum + st.CXpNum

\* A digest printed at the exit counts exactly what was printed.
DigestMatches ==
  pc = "exit" /\ opts.s /\ opts.out = "w" =>
    /\ digest.AXpNum = Cardinality(Reported("AXp"))
    /\ digest.CXpNum = Cardinality(Reported("CXp"))
    /\ digest.AXpLits = MapThenSumSet(Cardinality, Reported("AXp"))
    /\ digest.CXpLits = MapThenSumSet(Cardinality, Reported("CXp"))

\* A digest printed by a signal may miss the last explanation printed, and no
\* more; and the formula may hold one explanation that was never printed.
InterruptedDigest ==
  pc = "killed" /\ opts.s /\ Enumerating =>
    /\ Counted(digest) <= lines /\ lines <= Counted(digest) + 1
    /\ lines <= CNF.NC /\ CNF.NC <= Counted(digest) + 1

\* The price of the answers.  -A and -C test every feature once.  In an
\* enumeration each explanation costs one call of the solver, a test of the
\* box, and one test of each of its features at least and of each feature at
\* most; the last call of the solver may bring none.
OracleCost ==
  pc = "exit" /\ opts.s =>
    IF opts.mode # "enum"
    THEN digest.NSAT = 0 /\ digest.NSIM = 2 * NF
    ELSE LET n == Counted(digest)
         IN  /\ digest.NSAT \in {n, n + 1}
             /\ digest.NSIM >= 2 * (n + digest.AXpLits + digest.CXpLits)
             /\ digest.NSIM <= 2 * n * (NF + 1)

-----------------------------------------------------------------------------
(* Liveness and refinement. *)

\* Every run ends: the models run out however the solver chooses them.
Termination == <>(pc \in {"exit", "killed"})

\* An enumeration under -w implements XpEnum, but for -N 0, which does not
\* stop at its limit (ListsAtMostN).  The exit after a call of the solver
\* without an answer is a run cut short, and -A and -C enumerate nothing.
Abstract == INSTANCE XpEnum WITH
  limit  <- IF opts.mode = "enum" THEN opts.N ELSE 0,
  found  <- IF opts.mode = "enum" THEN report ELSE {},
  count  <- IF opts.mode = "enum" THEN lines ELSE 0,
  status <- CASE pc = "exit" /\ ~NoAnswer -> "exit"
              [] pc = "killed" \/ (pc = "exit" /\ NoAnswer) -> "killed"
              [] OTHER -> "running"

ImplementsXpEnum == Abstract!Spec
=============================================================================
