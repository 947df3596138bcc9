------------------------------- MODULE XpEnum -------------------------------
(***************************************************************************)
(* What the enumeration of xmono promises, without saying how: it reports  *)
(* the explanations of one prediction, each at most once, an abductive one *)
(* first, and ends when all are reported or when -N <NNN> of them are      *)
(* (xmono, prt_help: "number of NNN explanations to list (the default is   *)
(* all)").  A signal (under -S) or a solver that stops may cut it short.    *)
(***************************************************************************)
EXTENDS FeatureSpace

VARIABLES
  kappa,   \* the classifier
  vect,    \* the instance
  limit,   \* the number of explanations asked for; negative for all
  found,   \* the explanations reported ...
  count,   \* ... and how many
  status   \* "running", "exit" or "killed"

vars == <<kappa, vect, limit, found, count, status>>

Init ==
  /\ kappa \in MonotoneClassifier
  /\ vect \in Space
  /\ limit \in Int
  /\ found = {}
  /\ count = 0
  /\ status = "running"

Report ==
  /\ status = "running"
  /\ count # limit
  /\ \E e \in AllXps(kappa, vect) \ found :
       /\ found = {} => e[1] = "AXp"
       /\ found' = found \cup {e}
  /\ count' = count + 1
  /\ UNCHANGED <<kappa, vect, limit, status>>

Finish ==
  /\ status = "running"
  /\ found = AllXps(kappa, vect) \/ count = limit
  /\ status' = "exit"
  /\ UNCHANGED <<kappa, vect, limit, found, count>>

Kill ==
  /\ status = "running"
  /\ status' = "killed"
  /\ UNCHANGED <<kappa, vect, limit, found, count>>

Next == Report \/ Finish \/ Kill

Spec == Init /\ [][Next]_vars /\ WF_vars(Report \/ Finish)
=============================================================================
