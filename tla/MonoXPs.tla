------------------------------ MODULE MonoXPs ------------------------------
(***************************************************************************)
(* One run of src/scripts/xmono from the choice of what to compute         *)
(* (xmono, step 3) to its exit, with the algorithms of MonoXPs.pm:         *)
(* compute_one_axp (-A), compute_one_cxp (-C) and compute_xps (the         *)
(* enumeration driven by a SAT solver).                                    *)
(*                                                                         *)
(* The program is sequential; its environment is not.  The SAT solver is   *)
(* a child process that reads a file and answers in a file, may answer     *)
(* with any model, and may stop without an answer.  A signal may arrive    *)
(* between any two steps, and Perl runs its handler there.                 *)
(***************************************************************************)
EXTENDS FeatureSpace, FiniteSets, Sequences

CONSTANTS
  Classifier,    \* the classifiers considered
  Instance,      \* the points whose prediction is explained
  Options,       \* the command lines considered
  SolverMayFail  \* whether the solver may stop without an answer

NoLimit == -1    \* the value of opts.N when -N is not given

\* The command lines read_opts accepts, for what concerns this module: -A,
\* -C or neither, and -N only with the last; -w or -l or neither; -s; -S.
OptionType ==
  {o \in [mode : {"A", "C", "enum"}, N : Nat \cup {NoLimit},
          out : {"w", "l", "none"}, s : BOOLEAN, S : BOOLEAN] :
     o.mode # "enum" => o.N = NoLimit}

ASSUME RunAssumption ==
  /\ Classifier \subseteq MonotoneClassifier
  /\ Instance \subseteq Space
  /\ Options \subseteq OptionType
  /\ SolverMayFail \in BOOLEAN

VARIABLES
  kappa,   \* the classifier run by run_classifier
  vect,    \* $mxp->{vect}: the instance to explain
  opts,    \* %opts
  pc,      \* where control is
  mxp,     \* $mxp->{Univs}, {Fixes}, {vLB} and {vUB}
  idx,     \* $idx of the loop over the features
  xp,      \* $xp: the explanation just computed ...
  xtype,   \* ... and its type
  CNF,     \* $mxp->{CNF}: NC and the clauses Cls
  fcnf,    \* the clauses in the file outp/current_cnt.cnf
  fout,    \* the answer in the file outp/sat_output
  numxp,   \* $numxp
  done,    \* $done
  stats,   \* %stats
  report,  \* the explanations printed
  lines,   \* the number of explanations printed
  digest   \* the statistics printed by write_digest, if any

input == <<kappa, vect, opts>>
cnfVars == <<CNF, fcnf, fout>>
outVars == <<stats, report, lines, digest>>
vars == <<input, pc, mxp, idx, xp, xtype, cnfVars, numxp, done, outVars>>

-----------------------------------------------------------------------------
(* The reference box: between vLB and vUB lie the points considered. *)

\* make_feature_universal: let feature i range between its bounds.
MakeFeatureUniversal(m, i) ==
  [Univs |-> m.Univs \cup {i},
   Fixes |-> m.Fixes \ {i},
   vLB   |-> [m.vLB EXCEPT ![i] = LBs[i]],
   vUB   |-> [m.vUB EXCEPT ![i] = UBs[i]]]

\* Faulty variant: only the lower end of the box is set back.
MakeFeatureFixedHalf(m, i) ==
  [Univs |-> m.Univs \ {i},
   Fixes |-> m.Fixes \cup {i},
   vLB   |-> [m.vLB EXCEPT ![i] = vect[i]],
   vUB   |-> m.vUB]

\* make_feature_fixed: give feature i the value it has in the instance.
MakeFeatureFixed(m, i) ==
  [Univs |-> m.Univs \ {i},
   Fixes |-> m.Fixes \cup {i},
   vLB   |-> [m.vLB EXCEPT ![i] = vect[i]],
   vUB   |-> [m.vUB EXCEPT ![i] = vect[i]]]

\* The box that frees the features of U and fixes the others.
Box(U) ==
  [Univs |-> U,
   Fixes |-> Feature \ U,
   vLB   |-> [i \in Feature |-> IF i \in U THEN LBs[i] ELSE vect[i]],
   vUB   |-> [i \in Feature |-> IF i \in U THEN UBs[i] ELSE vect[i]]]

\* set_axp_vect keeps the given Univs and fixes the rest; set_cxp_vect keeps
\* the given Fixes and frees the rest.  Neither removes a feature from a set.
SetAxpVect(m) == [Box(m.Univs) EXCEPT !.Fixes = @ \cup m.Fixes]
SetCxpVect(m) == [Box(Feature \ m.Fixes) EXCEPT !.Univs = @ \cup m.Univs]

\* Faulty variant: the lower end is compared with the instance.
SameClassOneEnd(m) == kappa[m.vLB] = kappa[vect]

\* The test of every loop: the classifier at both ends of the box.
SameClass(m) == kappa[m.vLB] = kappa[m.vUB]

-----------------------------------------------------------------------------
(* Clauses.  Literal i makes feature i universal, literal -i fixes it.  The *)
(* order of the clauses and of their literals is abstracted.                *)

BlockAxp(X) == X

\* Faulty variant: the index into vect in place of the identifier.
BlockCxpIndex(X) == {-(i - 1) : i \in X}

BlockCxp(X) == {-i : i \in X}

\* A model is a sequence of truth values for the variables 1, 2, ...
Satisfies(model, clause) ==
  \/ \E i \in clause : i > 0 /\ model[i]
  \/ \E i \in clause : i < 0 /\ ~model[-i]

\* Faulty variants of write_cnf: the first clause is taken for none, and the
\* first call asks for the all-positive model.
CnfFileLate(cnf) == IF cnf.NC > 1 THEN cnf.Cls ELSE {{-i} : i \in Feature}
CnfFilePositive(cnf) == IF cnf.NC > 0 THEN cnf.Cls ELSE {{i} : i \in Feature}

\* write_cnf: with no clause to write it asks for the all-negative model.
CnfFile(cnf) == IF cnf.NC > 0 THEN cnf.Cls ELSE {{-i} : i \in Feature}

\* The solver knows the variables up to the largest that occurs in the file
\* (it does not read the number of variables in the header).
IsNumVars(file, n) ==
  /\ \A c \in file : \A l \in c : l <= n /\ -l <= n
  /\ n > 0 => \E c \in file : n \in c \/ -n \in c

\* The answers of the external solver: any model of the file; UNSATISFIABLE
\* only when there is none; and no answer at all when it is stopped.
NoModel == <<>>

Models(file) ==
  UNION {{m \in [1..n -> BOOLEAN] : \A c \in file : Satisfies(m, c)} :
           n \in {k \in 0..NF : IsNumVars(file, k)}}

Answers(file) ==
  [status : {"SATISFIABLE"}, model : Models(file)]
    \cup {a \in [status : {"UNSATISFIABLE"}, model : {NoModel}] :
            Models(file) = {}}
    \cup {a \in [status : {"INDETERMINATE"}, model : {NoModel}] :
            SolverMayFail}

\* run_sat_solver completes a short model with negative literals.
PadModel(model) ==
  [i \in Feature |-> IF i <= Len(model) THEN model[i] ELSE FALSE]

\* Faulty variant: the sign test the other way round.
MkRefVlbVubSwapped(model) == Box({i \in Feature : ~model[i]})

\* mk_ref_vlb_vub: the features of the positive literals are universal.
MkRefVlbVub(model) == Box({i \in Feature : model[i]})

-----------------------------------------------------------------------------
(* Output. *)

InitStats == [NSAT |-> 0, NSIM |-> 0, AXpNum |-> 0, AXpLits |-> 0,
              CXpNum |-> 0, CXpLits |-> 0]

NoDigest == [InitStats EXCEPT !.NSAT = -1]

\* The feature identifiers write_xp prints: those of the explanation (-w),
\* or as many identifiers from 1 on as the explanation has (-l).
Printed(X) == IF opts.out = "l" THEN 1..Cardinality(X) ELSE X

\* Faulty variants of update_stats: the last index ($#) taken for the length,
\* and the second branch left out.
AddXpLastIndex(st, X, type) ==
  IF type = "AXp"
  THEN [st EXCEPT !.AXpNum = @ + 1, !.AXpLits = @ + Cardinality(X) - 1]
  ELSE [st EXCEPT !.CXpNum = @ + 1, !.CXpLits = @ + Cardinality(X) - 1]
AddXpAxpOnly(st, X, type) ==
  IF type = "AXp"
  THEN [st EXCEPT !.AXpNum = @ + 1, !.AXpLits = @ + Cardinality(X)]
  ELSE st

\* update_stats
AddXp(st, X, type) ==
  IF type = "AXp"
  THEN [st EXCEPT !.AXpNum = @ + 1, !.AXpLits = @ + Cardinality(X)]
  ELSE [st EXCEPT !.CXpNum = @ + 1, !.CXpLits = @ + Cardinality(X)]

\* Faulty variant: the second call is not counted.
CountSimOnce ==
  stats' = IF opts.s THEN [stats EXCEPT !.NSIM = @ + 1] ELSE stats

\* The two calls of the classifier are counted when -s is given.
CountSim == stats' = IF opts.s THEN [stats EXCEPT !.NSIM = @ + 2] ELSE stats

-----------------------------------------------------------------------------
(* The initial state: the specification and the instance have been read,    *)
(* set_def_vect and init_stats have run.  Univs and Fixes are empty; vLB,   *)
(* vUB, idx, xp and xtype are not yet defined and nothing reads them before *)
(* the steps that set them; the files are left from no earlier run.         *)

Init ==
  /\ kappa \in Classifier
  /\ vect \in Instance
  /\ opts \in Options
  /\ pc = "start"
  /\ mxp = [Univs |-> {}, Fixes |-> {}, vLB |-> vect, vUB |-> vect]
  /\ idx = 1
  /\ xp = {}
  /\ xtype = "AXp"
  /\ CNF = [NC |-> 0, Cls |-> {}]
  /\ fcnf = {}
  /\ fout = [status |-> "INDETERMINATE", model |-> NoModel]
  /\ numxp = 0
  /\ done = FALSE
  /\ stats = InitStats
  /\ report = {}
  /\ lines = 0
  /\ digest = NoDigest

\* xmono, step 3.1: compute_one_axp without a starting box.
StartAxp ==
  /\ pc = "start" /\ opts.mode = "A"
  /\ mxp' = SetAxpVect(mxp)
  /\ idx' = 1
  /\ pc' = "axp"
  /\ UNCHANGED <<input, xp, xtype, cnfVars, numxp, done, outVars>>

\* xmono, step 3.2: compute_one_cxp without a starting box.
StartCxp ==
  /\ pc = "start" /\ opts.mode = "C"
  /\ mxp' = SetCxpVect(mxp)
  /\ idx' = 1
  /\ pc' = "cxp"
  /\ UNCHANGED <<input, xp, xtype, cnfVars, numxp, done, outVars>>

\* xmono, step 3.3: compute_xps calls init_cnf and sets its counters.
StartEnum ==
  /\ pc = "start" /\ opts.mode = "enum"
  /\ CNF' = [NC |-> 0, Cls |-> {}]
  /\ numxp' = 0
  /\ done' = FALSE
  /\ pc' = "while"
  /\ UNCHANGED <<input, mxp, idx, xp, xtype, fcnf, fout, outVars>>

\* The head of the loop of compute_xps: write_cnf, or leave.
WriteCnf ==
  /\ pc = "while" /\ ~done
  /\ fcnf' = CnfFile(CNF)
  /\ pc' = "solve"
  /\ UNCHANGED <<input, mxp, idx, xp, xtype, CNF, fout, numxp, done, outVars>>

LeaveLoop ==
  /\ pc = "while" /\ done
  /\ pc' = "digest"
  /\ UNCHANGED <<input, mxp, idx, xp, xtype, cnfVars, numxp, done, outVars>>

\* run_sat_solver: the child process reads the one file and writes the other.
RunSolver ==
  /\ pc = "solve"
  /\ fout' \in Answers(fcnf)
  /\ stats' = IF opts.s THEN [stats EXCEPT !.NSAT = @ + 1] ELSE stats
  /\ pc' = "parse"
  /\ UNCHANGED <<input, mxp, idx, xp, xtype, CNF, fcnf, numxp, done,
                 report, lines, digest>>

\* parse_solver_outp returns a true $outc for SATISFIABLE alone; compute_xps
\* leaves its loop on a false one ...
NoMoreModels ==
  /\ pc = "parse" /\ fout.status # "SATISFIABLE"
  /\ pc' = "digest"
  /\ UNCHANGED <<input, mxp, idx, xp, xtype, cnfVars, numxp, done, outVars>>

\* ... and builds the reference box of the model on a true one.
ReadModel ==
  /\ pc = "parse" /\ fout.status = "SATISFIABLE"
  /\ mxp' = MkRefVlbVub(PadModel(fout.model))
  /\ pc' = "test"
  /\ UNCHANGED <<input, idx, xp, xtype, cnfVars, numxp, done, outVars>>

\* Steps 2.2.2 to 2.2.4 of compute_xps: equal classes at both ends of the box
\* make its fixed features a weak AXp, different ones its universal features
\* a weak CXp.
TestRef ==
  /\ pc = "test"
  /\ CountSim
  /\ idx' = 1
  /\ pc' = IF SameClass(mxp) THEN "axp" ELSE "cxp"
  /\ UNCHANGED <<input, mxp, xp, xtype, cnfVars, numxp, done,
                 report, lines, digest>>

-----------------------------------------------------------------------------
(* The loops over the features. *)

\* Faulty variant: the loop index is not advanced.
SkipUniversalStuck ==
  /\ pc = "axp" /\ idx <= NF /\ idx \in mxp.Univs
  /\ UNCHANGED vars

\* Feature idx is universal already.
SkipUniversal ==
  /\ pc = "axp" /\ idx <= NF /\ idx \in mxp.Univs
  /\ idx' = idx + 1
  /\ UNCHANGED <<input, pc, mxp, xp, xtype, cnfVars, numxp, done, outVars>>

\* Free feature idx, and undo that if the classes then differ.
TryUniversal ==
  /\ pc = "axp" /\ idx <= NF /\ idx \notin mxp.Univs
  /\ LET m == MakeFeatureUniversal(mxp, idx)
     IN  mxp' = IF SameClass(m) THEN m ELSE MakeFeatureFixed(m, idx)
  /\ CountSim
  /\ idx' = idx + 1
  /\ UNCHANGED <<input, pc, xp, xtype, cnfVars, numxp, done,
                 report, lines, digest>>

\* Feature idx is fixed already.
SkipFixed ==
  /\ pc = "cxp" /\ idx <= NF /\ idx \in mxp.Fixes
  /\ idx' = idx + 1
  /\ UNCHANGED <<input, pc, mxp, xp, xtype, cnfVars, numxp, done, outVars>>

\* Fix feature idx, and undo that if the classes are then the same.
TryFixed ==
  /\ pc = "cxp" /\ idx <= NF /\ idx \notin mxp.Fixes
  /\ LET m == MakeFeatureFixed(mxp, idx)
     IN  mxp' = IF SameClass(m) THEN MakeFeatureUniversal(m, idx) ELSE m
  /\ CountSim
  /\ idx' = idx + 1
  /\ UNCHANGED <<input, pc, xp, xtype, cnfVars, numxp, done,
                 report, lines, digest>>

\* The explanation returned: the features left fixed, or left universal.
ReturnXp ==
  /\ pc \in {"axp", "cxp"} /\ idx > NF
  /\ xp' = IF pc = "axp" THEN mxp.Fixes ELSE mxp.Univs
  /\ xtype' = IF pc = "axp" THEN "AXp" ELSE "CXp"
  /\ pc' = IF opts.mode = "enum" THEN "block" ELSE "write"
  /\ UNCHANGED <<input, mxp, idx, cnfVars, numxp, done, outVars>>

-----------------------------------------------------------------------------
(* What is done with an explanation: process_xp, or the tail of -A and -C. *)

\* Faulty variant of the test for the empty explanation: the last index ($#)
\* is compared with 0 in place of the length.
IsEmptyLastIndex(X) == Cardinality(X) = 1

\* @{$xp} == 0
IsEmpty(X) == X = {}

\* $done, block_axp and block_cxp
BlockXp ==
  /\ pc = "block"
  /\ done' = IsEmpty(xp)
  /\ CNF' = [NC  |-> CNF.NC + 1,
             Cls |-> CNF.Cls \cup
                       {IF xtype = "AXp" THEN BlockAxp(xp) ELSE BlockCxp(xp)}]
  /\ pc' = "write"
  /\ UNCHANGED <<input, mxp, idx, xp, xtype, fcnf, fout, numxp, outVars>>

\* write_xp, under -w or -l
WriteXp ==
  /\ pc = "write"
  /\ IF opts.out = "none"
     THEN UNCHANGED <<report, lines>>
     ELSE /\ report' = report \cup {<<xtype, Printed(xp)>>}
          /\ lines' = lines + 1
  /\ pc' = "stats"
  /\ UNCHANGED <<input, mxp, idx, xp, xtype, cnfVars, numxp, done,
                 stats, digest>>

\* update_stats, under -s
UpdateStats ==
  /\ pc = "stats"
  /\ stats' = IF opts.s THEN AddXp(stats, xp, xtype) ELSE stats
  /\ pc' = IF opts.mode = "enum" THEN "count" ELSE "digest"
  /\ UNCHANGED <<input, mxp, idx, xp, xtype, cnfVars, numxp, done,
                 report, lines, digest>>

\* Faulty variants of the test of the limit: the old value of the counter, and
\* one explanation too early.
LimitReachedLate == opts.N # NoLimit /\ numxp = opts.N
LimitReachedEarly == opts.N # NoLimit /\ numxp' + 1 = opts.N

\* ++$numxp == $opts->{N}, under -N.  It never holds of -N 0.
LimitReached == opts.N # NoLimit /\ numxp' = opts.N

\* The last statement of the loop of compute_xps: count under -N, and leave
\* at the limit.
CountXp ==
  /\ pc = "count"
  /\ numxp' = IF opts.N = NoLimit THEN numxp ELSE numxp + 1
  /\ pc' = IF LimitReached THEN "digest" ELSE "while"
  /\ UNCHANGED <<input, mxp, idx, xp, xtype, cnfVars, done, outVars>>

\* write_digest, under -s, and the normal exit
Exit ==
  /\ pc = "digest"
  /\ digest' = IF opts.s THEN stats ELSE digest
  /\ pc' = "exit"
  /\ UNCHANGED <<input, mxp, idx, xp, xtype, cnfVars, numxp, done,
                 stats, report, lines>>

\* INT_handler: under -S a signal runs the callbacks registered (write_digest
\* under -s) and exits, wherever control is.
Interrupt ==
  /\ opts.S /\ pc \notin {"exit", "killed"}
  /\ digest' = IF opts.s THEN stats ELSE digest
  /\ pc' = "killed"
  /\ UNCHANGED <<input, mxp, idx, xp, xtype, cnfVars, numxp, done,
                 stats, report, lines>>

\* Nothing happens after the exit.
Terminated == pc \in {"exit", "killed"} /\ UNCHANGED vars

Step ==
  \/ StartAxp \/ StartCxp \/ StartEnum
  \/ WriteCnf \/ LeaveLoop \/ RunSolver \/ NoMoreModels \/ ReadModel \/ TestRef
  \/ SkipUniversal \/ TryUniversal \/ SkipFixed \/ TryFixed \/ ReturnXp
  \/ BlockXp \/ WriteXp \/ UpdateStats \/ CountXp \/ Exit

Next == Step \/ Interrupt \/ Terminated

Spec == Init /\ [][Next]_vars

\* The process is scheduled: it does not stop between two of its steps.
Fairness == WF_vars(Step)
FairSpec == Spec /\ Fairness
=============================================================================
