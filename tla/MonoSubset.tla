----------------------------- MODULE MonoSubset -----------------------------
(***************************************************************************)
(* The scripts mkmono and chkmono, which prepare data sets for a monotone  *)
(* classifier of two classes.  mkmono splits the rows of a data set by the *)
(* sign of their class and moves them, one row per turn, to two sets that  *)
(* are monotone together: at each turn the least row of class 0, or the    *)
(* greatest row of class 1, that is compatible with the other set.         *)
(* chkmono names the pairs of rows that are not monotone.                  *)
(*                                                                         *)
(* Rows are numbers of equal length (the scripts stop otherwise).  The     *)
(* loops over rows are one action per row.                                 *)
(***************************************************************************)
EXTENDS Integers, Sequences, FiniteSets

CONSTANTS
  NF,       \* number of features
  Setup     \* the data sets considered

Feature == 1..NF

\* A row of a data set: the features and the class.
Row == [fs : [Feature -> Int], prd : Int]

ASSUME SubsetAssumption == NF \in Nat /\ Setup \subseteq Seq(Row)

VARIABLES
  dataset,  \* the rows of the file
  pc,       \* "split", "turn", "scan" in pick_mono_subset, or "done"
  ds,       \* $ds0, $ds1: rows not moved
  mds,      \* $mds0, $mds1: rows moved
  pok,      \* $p0ok, $p1ok: there may be rows to move
  pmx,      \* whose turn it is
  j,        \* $j (from 1)
  mx        \* $mx: the row picked so far, 0 if none

vars == <<dataset, pc, ds, mds, pok, pmx, j, mx>>

Side == {0, 1}

\* split_instances: the side of a row.
SideOf(row) == IF row.prd > 0 THEN 1 ELSE 0

gte(v1, v2) == \A k \in Feature : v1[k] >= v2[k]

\* chk_mono of chkmono.
chk_mono(inst1, inst2) ==
  ~ \/ gte(inst1.fs, inst2.fs) /\ inst1.prd < inst2.prd
    \/ gte(inst2.fs, inst1.fs) /\ inst2.prd < inst1.prd

\* The rows of a sequence.
Rows(s) == {s[k] : k \in 1..Len(s)}

\* Faulty variant: only the row moved last is compared.
compatibleLast(fs, side, rows) ==
  \A k \in {Len(rows)} \cap (1..Len(rows)) :
    IF side = 1 THEN gte(fs, rows[k].fs) ELSE gte(rows[k].fs, fs)

\* Whether fs may join the rows of its side when those of the other are rows.
compatible(fs, side, rows) ==
  \A k \in 1..Len(rows) :
    IF side = 1 THEN gte(fs, rows[k].fs) ELSE gte(rows[k].fs, fs)

\* fs is at least as good a choice as the row picked so far.
Better(fs, side) ==
  \/ mx = 0
  \/ side = 1 /\ gte(fs, ds[side][mx].fs)
  \/ side = 0 /\ gte(ds[side][mx].fs, fs)

\* The last row takes the place of row k.
SwapRemove(s, k) == SubSeq([s EXCEPT ![k] = s[Len(s)]], 1, Len(s) - 1)

-----------------------------------------------------------------------------
Init ==
  /\ dataset \in Setup
  /\ pc = "split"
  /\ ds = [s \in Side |-> <<>>]
  /\ mds = [s \in Side |-> <<>>]
  /\ pok = [s \in Side |-> TRUE]
  /\ pmx = 0
  /\ j = 1 /\ mx = 0

\* split_instances puts one row where it belongs.
Split ==
  /\ pc = "split" /\ j <= Len(dataset)
  /\ LET s == SideOf(dataset[j]) IN
     ds' = [ds EXCEPT ![s] = Append(ds[s], dataset[j])]
  /\ j' = j + 1
  /\ UNCHANGED <<dataset, pc, mds, pok, pmx, mx>>

SplitDone ==
  /\ pc = "split" /\ j > Len(dataset)
  /\ pc' = "turn"
  /\ UNCHANGED <<dataset, ds, mds, pok, pmx, j, mx>>

\* The loop of the main program, and the && in its body.
CallPick ==
  /\ pc = "turn" /\ pok[pmx]
  /\ pc' = "scan" /\ j' = 1 /\ mx' = 0
  /\ UNCHANGED <<dataset, ds, mds, pok, pmx>>

PassTurn ==
  /\ pc = "turn" /\ ~pok[pmx] /\ pok[1 - pmx]
  /\ pmx' = 1 - pmx
  /\ UNCHANGED <<dataset, pc, ds, mds, pok, j, mx>>

\* The loop ends when neither side has rows to move.
Finish ==
  /\ pc = "turn" /\ \A s \in Side : ~pok[s]
  /\ pc' = "done"
  /\ UNCHANGED <<dataset, ds, mds, pok, pmx, j, mx>>

\* pick_mono_subset looks at one row.
Scan ==
  /\ pc = "scan" /\ j <= Len(ds[pmx])
  /\ LET fsj == ds[pmx][j].fs IN
     mx' = IF Better(fsj, pmx) /\ compatible(fsj, pmx, mds[1 - pmx])
           THEN j ELSE mx
  /\ j' = j + 1
  /\ UNCHANGED <<dataset, pc, ds, mds, pok, pmx>>

\* All rows are looked at, and one is moved.
Move ==
  /\ pc = "scan" /\ j > Len(ds[pmx]) /\ mx > 0
  /\ mds' = [mds EXCEPT ![pmx] = Append(mds[pmx], ds[pmx][mx])]
  /\ ds' = [ds EXCEPT ![pmx] = SwapRemove(ds[pmx], mx)]
  /\ pc' = "turn" /\ pmx' = 1 - pmx
  /\ UNCHANGED <<dataset, pok, j, mx>>

\* No row is compatible: this side is left out from now on.
GiveUp ==
  /\ pc = "scan" /\ j > Len(ds[pmx]) /\ mx = 0
  /\ pok' = [pok EXCEPT ![pmx] = FALSE]
  /\ pc' = "turn" /\ pmx' = 1 - pmx
  /\ UNCHANGED <<dataset, ds, mds, j, mx>>

Terminated == pc = "done" /\ UNCHANGED vars

Next ==
  \/ Split
  \/ SplitDone
  \/ CallPick
  \/ PassTurn
  \/ Finish
  \/ Scan
  \/ Move
  \/ GiveUp
  \/ Terminated

Spec == Init /\ [][Next]_vars

-----------------------------------------------------------------------------
\* Of the rows moved, chkmono rejects a pair from the two sides when the two
\* are equal (mkmono compares with >=, so it keeps both), and no other.  Rows of
\* one side are not compared: with the two classes the scripts are written
\* for, they have the same class.
Monotone ==
  \A a \in Rows(mds[0]), b \in Rows(mds[1]) : chk_mono(a, b) <=> a.fs # b.fs

\* No row that was left out could still be added.
Maximal ==
  \A s \in Side : \A k \in 1..Len(ds[s]) :
    ~compatible(ds[s][k].fs, s, mds[1 - s])

\* How often a row is in a sequence.
Copies(row, s) == Cardinality({k \in 1..Len(s) : s[k] = row})

\* The rows of the file that have been split.
Seen == IF pc = "split" THEN SubSeq(dataset, 1, j - 1) ELSE dataset

\* Each row is moved or left out, on its side, as often as it is in the file.
Accounted(row) ==
  \A s \in Side :
    Copies(row, ds[s]) + Copies(row, mds[s])
      = IF SideOf(row) = s THEN Copies(row, Seen) ELSE 0

NoneLost ==
  \A row \in Rows(dataset) \cup UNION {Rows(ds[s]) \cup Rows(mds[s]) : s \in Side} :
    Accounted(row)

\* What mkmono has moved is monotone at any time, but for equal rows of
\* different classes; no row of the file is lost, copied or put on the wrong
\* side; and at the end the result is maximal although each side stops for
\* good the first time it finds nothing.
MonotoneSubset ==
  /\ Monotone
  /\ NoneLost
  /\ pc = "done" => Maximal
=============================================================================
