-------------------------- MODULE MonoSubsetProofs --------------------------
(***************************************************************************)
(* mkmono keeps a monotone and maximal set of the rows, for any number of  *)
(* features and any data set.  The invariant has three parts: every row    *)
(* moved to side 1 is at least every row moved to side 0; a side that gave *)
(* up has no compatible row, and never will, as the other side only grows; *)
(* and what the scan in progress knows of the rows it has seen.            *)
(***************************************************************************)
EXTENDS MonoSubset, FiniteSetTheorems, TLAPS

TypeOK ==
  /\ dataset \in Seq(Row)
  /\ pc \in {"split", "turn", "scan", "done"}
  /\ ds \in [Side -> Seq(Row)] /\ mds \in [Side -> Seq(Row)]
  /\ pok \in [Side -> BOOLEAN]
  /\ pmx \in Side
  /\ j \in Nat \ {0} /\ mx \in Nat

Ordered ==
  \A a \in Rows(mds[0]), b \in Rows(mds[1]) : gte(b.fs, a.fs)

\* No row of side s is compatible.
Stuck(s) == \A k \in 1..Len(ds[s]) : ~compatible(ds[s][k].fs, s, mds[1 - s])

ScanKnows ==
  /\ pok[pmx]
  /\ j <= Len(ds[pmx]) + 1 /\ mx < j
  /\ mx > 0 => compatible(ds[pmx][mx].fs, pmx, mds[1 - pmx])
  /\ mx = 0 => \A k \in 1..(j - 1) :
                 ~compatible(ds[pmx][k].fs, pmx, mds[1 - pmx])

\* NoneLost for every row there may be.
AllAccounted == \A row \in Row : Accounted(row)

Inv ==
  /\ TypeOK
  /\ Ordered
  /\ AllAccounted
  /\ \A s \in Side : ~pok[s] => Stuck(s)
  /\ pc = "split" => j <= Len(dataset) + 1 /\ \A s \in Side : pok[s]
  /\ pc = "scan" => ScanKnows
  /\ pc = "done" => \A s \in Side : ~pok[s]

-----------------------------------------------------------------------------
(* Rows of sequences. *)

LEMMA RowsOfAppend ==
  ASSUME NEW s \in Seq(Row), NEW e \in Row
  PROVE  Append(s, e) \in Seq(Row) /\ Rows(Append(s, e)) = Rows(s) \cup {e}
<1>1. /\ Append(s, e) \in Seq(Row) /\ Len(Append(s, e)) = Len(s) + 1
      /\ \A k \in 1..Len(s) : Append(s, e)[k] = s[k]
      /\ Append(s, e)[Len(s) + 1] = e
  OBVIOUS
<1>2. Len(s) \in Nat
  OBVIOUS
<1>3. 1..(Len(s) + 1) = (1..Len(s)) \cup {Len(s) + 1}
  BY <1>2
<1> QED BY <1>1, <1>2, <1>3 DEF Rows

\* SwapRemove: entry n takes place k, and the last place goes.
LEMMA SwapRemoveIs ==
  ASSUME NEW s \in Seq(Row), NEW k \in 1..Len(s)
  PROVE  /\ SwapRemove(s, k) \in Seq(Row)
         /\ Len(SwapRemove(s, k)) = Len(s) - 1
         /\ \A i \in 1..(Len(s) - 1) :
              SwapRemove(s, k)[i] = IF i = k THEN s[Len(s)] ELSE s[i]
<1> DEFINE n == Len(s)
           t == [s EXCEPT ![k] = s[n]]
<1>1. n \in Nat /\ n > 0 /\ k \in 1..n
  OBVIOUS
<1>2. t \in Seq(Row) /\ Len(t) = n
  BY <1>1
<1>3. \A i \in 1..n : t[i] = IF i = k THEN s[n] ELSE s[i]
  BY <1>1
<1> HIDE DEF t, n
<1>4. SubSeq(t, 1, n - 1) \in Seq(Row) /\ Len(SubSeq(t, 1, n - 1)) = n - 1
      /\ \A i \in 1..(n - 1) : SubSeq(t, 1, n - 1)[i] = t[i]
  BY <1>1, <1>2
<1>5. SwapRemove(s, k) = SubSeq(t, 1, n - 1)
  BY DEF SwapRemove, t, n
<1>6. \A i \in 1..(n - 1) : i \in 1..n
  BY <1>1
<1> QED BY <1>3, <1>4, <1>5, <1>6 DEF n

\* Removing row k leaves the others.
LEMMA RowsOfSwapRemove ==
  ASSUME NEW s \in Seq(Row), NEW k \in 1..Len(s)
  PROVE  /\ SwapRemove(s, k) \in Seq(Row)
         /\ Rows(SwapRemove(s, k)) \subseteq Rows(s)
         /\ Rows(SwapRemove(s, k)) \cup {s[k]} = Rows(s)
<1> DEFINE n == Len(s)
           t == [s EXCEPT ![k] = s[n]]
<1>1. n \in Nat /\ n > 0 /\ k \in 1..n
  OBVIOUS
<1>2. t \in Seq(Row) /\ Len(t) = n
  BY <1>1
<1>3. \A i \in 1..n : t[i] = IF i = k THEN s[n] ELSE s[i]
  BY <1>1
<1>4. /\ SwapRemove(s, k) \in Seq(Row) /\ Len(SwapRemove(s, k)) = n - 1
      /\ \A i \in 1..(n - 1) : SwapRemove(s, k)[i] = t[i]
  BY <1>1, <1>3, SwapRemoveIs
<1>5. \A i \in 1..n : s[i] = s[k] \/ \E m \in 1..(n - 1) : t[m] = s[i]
  <2> TAKE i \in 1..n
  <2>1. CASE i = k
    BY <2>1
  <2>2. CASE i # k /\ i = n
    <3>1. k \in 1..(n - 1) /\ t[k] = s[n]
      BY <1>1, <1>3, <2>2
    <3> QED BY <3>1, <2>2
  <2>3. CASE i # k /\ i # n
    <3>1. i \in 1..(n - 1) /\ t[i] = s[i]
      BY <1>1, <1>3, <2>3
    <3> QED BY <3>1
  <2> QED BY <2>1, <2>2, <2>3
<1>6. \A m \in 1..(n - 1) : t[m] \in Rows(s)
  BY <1>1, <1>3 DEF Rows
<1>7. Rows(SwapRemove(s, k)) = {t[m] : m \in 1..(n - 1)}
  BY <1>4 DEF Rows
<1>8. s[k] \in Rows(s)
  BY DEF Rows
<1>9. Rows(s) = {s[i] : i \in 1..n}
  BY DEF Rows
<1> HIDE DEF t, n
<1>10. Rows(SwapRemove(s, k)) \subseteq Rows(s)
  BY <1>6, <1>7
<1>11. Rows(s) \subseteq Rows(SwapRemove(s, k)) \cup {s[k]}
  BY <1>5, <1>7, <1>9
<1> QED BY <1>4, <1>8, <1>10, <1>11

\* The places of a row in a sequence.
Places(row, s) == {k \in 1..Len(s) : s[k] = row}

LEMMA CopiesIsNat ==
  ASSUME NEW row, NEW s \in Seq(Row)
  PROVE  /\ IsFiniteSet(Places(row, s)) /\ Copies(row, s) \in Nat
         /\ row \in Rows(s) => Copies(row, s) # 0
<1>1. IsFiniteSet(1..Len(s))
  BY FS_Interval
<1>2. IsFiniteSet(Places(row, s))
  BY <1>1, FS_Subset DEF Places
<1>3. Copies(row, s) = Cardinality(Places(row, s))
  BY DEF Copies, Places
<1>4. row \in Rows(s) => Places(row, s) # {}
  BY DEF Rows, Places
<1> QED BY <1>2, <1>3, <1>4, FS_CardinalityType, FS_EmptySet

LEMMA CopiesOfAppend ==
  ASSUME NEW row, NEW s \in Seq(Row), NEW e \in Row
  PROVE  Copies(row, Append(s, e)) = Copies(row, s) + (IF e = row THEN 1 ELSE 0)
<1> DEFINE n == Len(s) + 1
           P == Places(row, s)
<1>1. /\ Len(Append(s, e)) = n /\ Append(s, e)[n] = e
      /\ \A k \in 1..Len(s) : Append(s, e)[k] = s[k]
  OBVIOUS
<1>2. Len(s) \in Nat /\ 1..n = (1..Len(s)) \cup {n} /\ n \notin 1..Len(s)
  OBVIOUS
<1>3. Places(row, Append(s, e)) = IF e = row THEN P \cup {n} ELSE P
  BY <1>1, <1>2 DEF Places
<1>4. n \notin P /\ IsFiniteSet(P) /\ Cardinality(P) \in Nat
  BY <1>2, CopiesIsNat, FS_CardinalityType DEF Places
<1> HIDE DEF n, P
<1>5. Cardinality(P \cup {n}) = Cardinality(P) + 1
  BY <1>4, FS_AddElement
<1>6. /\ Copies(row, s) = Cardinality(P)
      /\ Copies(row, Append(s, e)) = Cardinality(Places(row, Append(s, e)))
  BY DEF Copies, Places, P
<1> QED BY <1>3, <1>4, <1>5, <1>6

LEMMA CopiesOfSwapRemove ==
  ASSUME NEW row, NEW s \in Seq(Row), NEW k \in 1..Len(s)
  PROVE  Copies(row, s)
           = Copies(row, SwapRemove(s, k)) + (IF s[k] = row THEN 1 ELSE 0)
<1> DEFINE n == Len(s)
           t == SwapRemove(s, k)
           P == Places(row, s)
           Q == Places(row, t)
<1>1. n \in Nat /\ n > 0 /\ k \in 1..n
  OBVIOUS
<1>2. /\ t \in Seq(Row) /\ Len(t) = n - 1
      /\ \A i \in 1..(n - 1) : t[i] = IF i = k THEN s[n] ELSE s[i]
  BY SwapRemoveIs
<1>3. /\ IsFiniteSet(P) /\ IsFiniteSet(Q)
      /\ Cardinality(P) \in Nat /\ Cardinality(Q) \in Nat
  BY <1>2, CopiesIsNat, FS_CardinalityType
<1>4. Copies(row, s) = Cardinality(P) /\ Copies(row, t) = Cardinality(Q)
  BY DEF Copies, Places
<1>5. \A i : i \in P <=> i \in 1..n /\ s[i] = row
  BY DEF Places
<1>6. \A i : i \in Q <=> i \in 1..n /\ i # n
                         /\ (IF i = k THEN s[n] ELSE s[i]) = row
  BY <1>1, <1>2 DEF Places
<1> HIDE DEF n, t, P, Q
\* The last place is one of the row: it goes, and place k becomes one.
<1>7. CASE s[n] = row
  <2>0. n \in P
    BY <1>1, <1>5, <1>7
  <2>1. Cardinality(P \ {n}) = Cardinality(P) - 1
    BY <1>3, <2>0, FS_RemoveElement
  <2>2. CASE s[k] = row
    <3>1. Q = P \ {n}
      BY <1>1, <1>5, <1>6, <1>7, <2>2
    <3> QED BY <1>3, <1>4, <2>1, <2>2, <3>1 DEF t
  <2>3. CASE s[k] # row
    <3>1. Q = (P \ {n}) \cup {k} /\ k \notin P \ {n}
      BY <1>1, <1>5, <1>6, <1>7, <2>3
    <3>2. IsFiniteSet(P \ {n})
      BY <1>3, FS_RemoveElement
    <3>3. Cardinality(Q) = Cardinality(P \ {n}) + 1
      BY <3>1, <3>2, FS_AddElement
    <3> QED BY <1>3, <1>4, <2>1, <2>3, <3>3 DEF t
  <2> QED BY <2>2, <2>3
<1>8. CASE s[n] # row
  <2>1. CASE s[k] = row
    <3>1. k \in P /\ Q = P \ {k}
      BY <1>1, <1>5, <1>6, <1>8, <2>1
    <3>2. Cardinality(Q) = Cardinality(P) - 1
      BY <1>3, <3>1, FS_RemoveElement
    <3> QED BY <1>3, <1>4, <2>1, <3>2 DEF t
  <2>2. CASE s[k] # row
    <3>1. Q \subseteq P /\ P \subseteq Q
      BY <1>1, <1>5, <1>6, <1>8, <2>2
    <3>2. Q = P
      BY <3>1
    <3> QED BY <1>3, <1>4, <2>2, <3>2 DEF t
  <2> QED BY <2>1, <2>2
<1> QED BY <1>7, <1>8

\* compatible in terms of the rows alone.
LEMMA CompatibleRows ==
  ASSUME NEW fs, NEW s \in Side, NEW r \in Seq(Row)
  PROVE  compatible(fs, s, r) <=>
           \A b \in Rows(r) : IF s = 1 THEN gte(fs, b.fs) ELSE gte(b.fs, fs)
  BY DEF compatible, Rows

\* Some row of a sequence has a property of rows, or none has.
LEMMA StuckRows ==
  ASSUME TypeOK, NEW s \in Side
  PROVE  Stuck(s) <=> \A a \in Rows(ds[s]) : ~compatible(a.fs, s, mds[1 - s])
  BY DEF Stuck, Rows

-----------------------------------------------------------------------------
LEMMA InitInv == Init => Inv
<1> SUFFICES ASSUME Init PROVE Inv OBVIOUS
<1>1. dataset \in Seq(Row)
  BY SubsetAssumption DEF Init
<1>2. TypeOK
  BY <1>1 DEF Init, TypeOK, Side
<1>3. \A s \in Side : Rows(ds[s]) = {} /\ Rows(mds[s]) = {}
  BY DEF Init, Rows
<1>4. AllAccounted
  <2>1. \A row : Copies(row, << >>) = 0
    <3>1. \A row : {k \in 1..Len(<< >>) : << >>[k] = row} = {}
      OBVIOUS
    <3> QED BY <3>1, FS_EmptySet DEF Copies
  <2>2. Seen = << >>
    BY <1>1 DEF Init, Seen
  <2>3. \A s \in Side : ds[s] = << >> /\ mds[s] = << >>
    BY DEF Init
  <2> QED BY <2>1, <2>2, <2>3 DEF AllAccounted, Accounted
<1>5. Ordered
  BY <1>3 DEF Ordered, Side
<1> QED BY <1>1, <1>2, <1>4, <1>5 DEF Init, Inv

LEMMA SplitInv == Inv /\ Split => Inv'
<1> SUFFICES ASSUME Inv, Split PROVE Inv' OBVIOUS
<1> DEFINE row == dataset[j]
           x == SideOf(row)
<1>1. j \in 1..Len(dataset) /\ row \in Row /\ x \in Side
  BY DEF Inv, TypeOK, Split, SideOf, Side
<1>2. /\ ds' = [ds EXCEPT ![x] = Append(ds[x], row)] /\ j' = j + 1
      /\ pc = "split" /\ UNCHANGED <<dataset, pc, mds, pok, pmx, mx>>
  BY DEF Split
<1> HIDE DEF x, row
<1>3. TypeOK'
  BY <1>1, <1>2, RowsOfAppend DEF Inv, TypeOK
<1>4. Ordered'
  BY <1>2 DEF Inv, Ordered
<1>5. Seen \in Seq(Row) /\ Seen' = Append(Seen, row)
  <2>1. dataset \in Seq(Row)
    BY DEF Inv, TypeOK
  <2>2. SubSeq(dataset, 1, j) = Append(SubSeq(dataset, 1, j - 1), dataset[j])
        /\ SubSeq(dataset, 1, j - 1) \in Seq(Row)
    BY <1>1, <2>1
  <2>3. j' - 1 = j
    BY <1>1, <1>2
  <2> QED BY <1>2, <2>2, <2>3 DEF Seen, row
<1>6. AllAccounted'
  <2> SUFFICES ASSUME NEW r \in Row, NEW s \in Side
               PROVE  Copies(r, ds'[s]) + Copies(r, mds'[s])
                        = IF SideOf(r) = s THEN Copies(r, Seen') ELSE 0
    BY DEF AllAccounted, Accounted, Copies
  <2> DEFINE one == IF row = r THEN 1 ELSE 0
  <2>1. Copies(r, ds[s]) + Copies(r, mds[s])
          = IF SideOf(r) = s THEN Copies(r, Seen) ELSE 0
    BY DEF Inv, AllAccounted, Accounted
  <2>2. Copies(r, Seen') = Copies(r, Seen) + one
    BY <1>1, <1>5, CopiesOfAppend
  <2>3. ds[s] \in Seq(Row) /\ mds[s] \in Seq(Row)
    BY DEF Inv, TypeOK
  <2>4. /\ Copies(r, ds[s]) \in Nat /\ Copies(r, mds[s]) \in Nat
        /\ Copies(r, Seen) \in Nat
    BY <1>5, <2>3, CopiesIsNat
  <2>5. CASE s = x
    <3>1. ds'[s] = Append(ds[s], row)
      BY <1>1, <1>2, <2>5 DEF Inv, TypeOK
    <3>2. Copies(r, ds'[s]) = Copies(r, ds[s]) + one
      BY <3>1, <1>1, <2>3, CopiesOfAppend
    <3>3. row = r => SideOf(r) = s
      BY <2>5 DEF x
    <3> QED BY <1>2, <2>1, <2>2, <2>4, <3>2, <3>3
  <2>6. CASE s # x
    <3>1. ds'[s] = ds[s]
      BY <1>1, <1>2, <2>6 DEF Inv, TypeOK
    <3>2. row = r => SideOf(r) # s
      BY <2>6 DEF x
    <3> QED BY <1>2, <2>1, <2>2, <2>4, <3>1, <3>2
  <2> QED BY <2>5, <2>6
<1>7. pc' = "split" /\ j' <= Len(dataset') + 1 /\ \A s \in Side : pok'[s]
  BY <1>1, <1>2 DEF Inv
<1> QED BY <1>3, <1>4, <1>6, <1>7 DEF Inv

\* The steps that move no row and change neither the turn's scan.
LEMMA TurnInv == Inv /\ (SplitDone \/ CallPick \/ PassTurn \/ Finish) => Inv'
<1> SUFFICES ASSUME Inv, SplitDone \/ CallPick \/ PassTurn \/ Finish PROVE Inv'
  OBVIOUS
<1>1. UNCHANGED <<dataset, ds, mds, pok>> /\ pc # "scan" /\ pc # "done"
  BY DEF SplitDone, CallPick, PassTurn, Finish
<1>2. TypeOK'
  BY DEF Inv, TypeOK, SplitDone, CallPick, PassTurn, Finish, Side
<1>3. Ordered' /\ \A s \in Side : ~pok'[s] => Stuck(s)'
  BY <1>1 DEF Inv, Ordered, Stuck, compatible, gte
<1>4. Seen' = Seen
  <2>1. CASE SplitDone
    <3>1. j - 1 = Len(dataset) /\ dataset \in Seq(Row)
      BY <2>1 DEF SplitDone, Inv, TypeOK
    <3>2. SubSeq(dataset, 1, Len(dataset)) = dataset
      BY <3>1
    <3> QED BY <2>1, <3>1, <3>2 DEF SplitDone, Seen
  <2>2. CASE CallPick \/ PassTurn \/ Finish
    BY <2>2 DEF CallPick, PassTurn, Finish, Seen
  <2> QED BY <2>1, <2>2
<1>5. AllAccounted'
  BY <1>1, <1>4 DEF Inv, AllAccounted, Accounted, Copies
<1>6. pc' # "split"
  BY DEF SplitDone, CallPick, PassTurn, Finish
<1>7. pc' = "scan" => ScanKnows'
  BY DEF SplitDone, CallPick, PassTurn, Finish, ScanKnows, Inv, TypeOK
<1>8. pc' = "done" => \A s \in Side : ~pok'[s]
  BY DEF SplitDone, CallPick, PassTurn, Finish
<1> QED BY <1>2, <1>3, <1>5, <1>6, <1>7, <1>8 DEF Inv

LEMMA ScanInv == Inv /\ Scan => Inv'
<1> SUFFICES ASSUME Inv, Scan PROVE Inv' OBVIOUS
<1>1. /\ UNCHANGED <<dataset, pc, ds, mds, pok, pmx>> /\ pc = "scan"
      /\ ScanKnows /\ j' = j + 1 /\ j <= Len(ds[pmx])
  BY DEF Scan, Inv
<1>2. mx' \in {j, mx}
  BY DEF Scan
<1>3. TypeOK'
  BY <1>1, <1>2 DEF Inv, TypeOK
<1>4. /\ Ordered' /\ AllAccounted'
      /\ \A s \in Side : ~pok'[s] => Stuck(s)'
  <2>1. Ordered' /\ \A s \in Side : ~pok'[s] => Stuck(s)'
    BY <1>1 DEF Inv, Ordered, Stuck, compatible, gte
  <2>2. Seen' = Seen
    BY <1>1 DEF Seen
  <2> QED BY <1>1, <2>1, <2>2 DEF Inv, AllAccounted, Accounted, Copies
<1>5. j \in Nat \ {0} /\ mx \in Nat /\ Len(ds[pmx]) \in Nat
  BY DEF Inv, TypeOK
<1>6. ScanKnows'
  <2>1. /\ pok'[pmx'] /\ j' <= Len(ds'[pmx']) + 1 /\ mx' < j'
    BY <1>1, <1>2, <1>5 DEF ScanKnows
  <2>2. mx' > 0 => compatible(ds[pmx][mx'].fs, pmx, mds[1 - pmx])
    BY <1>1, <1>5 DEF Scan, ScanKnows
  <2>3. mx' = 0 => mx = 0 /\ ~compatible(ds[pmx][j].fs, pmx, mds[1 - pmx])
    BY <1>5 DEF Scan, Better
  <2>4. ASSUME mx' = 0, NEW k \in 1..(j' - 1)
        PROVE  ~compatible(ds[pmx][k].fs, pmx, mds[1 - pmx])
    BY <2>3, <2>4, <1>1, <1>5 DEF ScanKnows
  <2>5. \A fs, s, r : compatible(fs, s, r)' <=> compatible(fs', s', r')
    BY DEF compatible, gte
  <2> QED BY <2>1, <2>2, <2>4, <1>1 DEF ScanKnows, compatible, gte
<1> QED BY <1>1, <1>3, <1>4, <1>6 DEF Inv

LEMMA MoveInv == Inv /\ Move => Inv'
<1> SUFFICES ASSUME Inv, Move PROVE Inv' OBVIOUS
<1> DEFINE row == ds[pmx][mx]
           y == 1 - pmx
<1>1. /\ pc = "scan" /\ pc' = "turn" /\ pmx' = y
      /\ mds' = [mds EXCEPT ![pmx] = Append(mds[pmx], row)]
      /\ ds' = [ds EXCEPT ![pmx] = SwapRemove(ds[pmx], mx)]
      /\ UNCHANGED <<dataset, pok, j, mx>>
      /\ ScanKnows /\ mx > 0
  BY DEF Move, Inv
<1>2. /\ pmx \in Side /\ y \in Side /\ y # pmx /\ Side = {pmx, y}
      /\ ds[pmx] \in Seq(Row) /\ mds[pmx] \in Seq(Row)
      /\ j \in Nat \ {0} /\ mx \in Nat /\ Len(ds[pmx]) \in Nat
  BY DEF Inv, TypeOK, Side
<1>3. mx \in 1..Len(ds[pmx])
  BY <1>1, <1>2 DEF ScanKnows
<1>4. row \in Row /\ compatible(row.fs, pmx, mds[y])
  BY <1>1, <1>2, <1>3 DEF ScanKnows
<1>5. /\ mds'[pmx] = Append(mds[pmx], row) /\ mds'[y] = mds[y]
      /\ ds'[pmx] = SwapRemove(ds[pmx], mx) /\ ds'[y] = ds[y]
  BY <1>1, <1>2 DEF Inv, TypeOK
<1> HIDE DEF row, y
<1>6. /\ mds'[pmx] \in Seq(Row) /\ Rows(mds'[pmx]) = Rows(mds[pmx]) \cup {row}
      /\ ds'[pmx] \in Seq(Row) /\ Rows(ds'[pmx]) \subseteq Rows(ds[pmx])
      /\ Rows(ds'[pmx]) \cup {row} = Rows(ds[pmx])
  BY <1>2, <1>3, <1>4, <1>5, RowsOfAppend, RowsOfSwapRemove DEF row
<1>7. TypeOK'
  BY <1>1, <1>2, <1>4, <1>3, RowsOfAppend, RowsOfSwapRemove DEF Inv, TypeOK
<1>8. Ordered'
  <2>1. \A b \in Rows(mds[y]) :
          IF pmx = 1 THEN gte(row.fs, b.fs) ELSE gte(b.fs, row.fs)
    BY <1>2, <1>4, CompatibleRows DEF Inv, TypeOK
  <2>2. Ordered
    BY DEF Inv
  <2>3. CASE pmx = 0
    <3>1. y = 1
      BY <2>3 DEF y
    <3> QED BY <2>1, <2>2, <2>3, <3>1, <1>5, <1>6 DEF Ordered
  <2>4. CASE pmx = 1
    <3>1. y = 0
      BY <2>4 DEF y
    <3> QED BY <2>1, <2>2, <2>4, <3>1, <1>5, <1>6 DEF Ordered
  <2> QED BY <2>3, <2>4, <1>2 DEF Side
<1>9. AllAccounted'
  <2> SUFFICES ASSUME NEW r \in Row, NEW s \in Side
               PROVE  Copies(r, ds'[s]) + Copies(r, mds'[s])
                        = Copies(r, ds[s]) + Copies(r, mds[s])
    <3>1. Seen' = Seen
      BY <1>1 DEF Seen
    <3> QED BY <3>1 DEF Inv, AllAccounted, Accounted, Copies
  <2>1. CASE s = pmx
    <3> DEFINE one == IF row = r THEN 1 ELSE 0
    <3>1. Copies(r, mds'[s]) = Copies(r, mds[s]) + one
      <4>1. mds[pmx] \in Seq(Row) /\ row \in Row
        BY <1>2, <1>4
      <4>2. Copies(r, Append(mds[pmx], row)) = Copies(r, mds[pmx]) + one
        BY <4>1, CopiesOfAppend
      <4> QED BY <4>2, <1>5, <2>1
    <3>2. Copies(r, ds[s]) = Copies(r, ds'[s]) + one
      BY <1>2, <1>3, <1>5, <2>1, CopiesOfSwapRemove DEF row
    <3>3. Copies(r, mds[s]) \in Nat /\ Copies(r, ds'[s]) \in Nat
      BY <1>2, <1>6, <2>1, CopiesIsNat
    <3> QED BY <3>1, <3>2, <3>3
  <2>2. CASE s = y
    BY <1>5, <2>2
  <2> QED BY <1>2, <2>1, <2>2
<1>10. ASSUME NEW s \in Side, ~pok'[s] PROVE Stuck(s)'
  <2>1. s = y /\ ~pok[s]
    BY <1>1, <1>2, <1>10 DEF ScanKnows
  <2>2. 1 - s = pmx
    BY <2>1, <1>2 DEF y, Side
  <2>3. \A a \in Rows(ds[s]) : ~compatible(a.fs, s, mds[pmx])
    BY <2>1, <2>2, StuckRows DEF Inv
  <2>4. \A fs : compatible(fs, s, mds'[pmx]) => compatible(fs, s, mds[pmx])
    BY <1>2, <1>6, CompatibleRows
  <2>5. \A a \in Rows(ds'[s]) : ~compatible(a.fs, s, mds'[pmx])
    BY <2>1, <2>3, <2>4, <1>5
  <2> QED BY <2>2, <2>5 DEF Stuck, Rows, compatible, gte
<1> QED BY <1>1, <1>7, <1>8, <1>9, <1>10 DEF Inv

LEMMA GiveUpInv == Inv /\ GiveUp => Inv'
<1> SUFFICES ASSUME Inv, GiveUp PROVE Inv' OBVIOUS
<1>1. /\ pc = "scan" /\ pc' = "turn" /\ UNCHANGED <<dataset, ds, mds, j, mx>>
      /\ pok' = [pok EXCEPT ![pmx] = FALSE] /\ pmx' = 1 - pmx
      /\ ScanKnows /\ mx = 0 /\ j > Len(ds[pmx])
  BY DEF GiveUp, Inv
<1>2. TypeOK'
  BY <1>1 DEF Inv, TypeOK, Side
<1>3. Ordered' /\ AllAccounted'
  <2>1. Ordered' /\ Seen' = Seen
    BY <1>1 DEF Inv, Ordered, gte, Rows, Seen
  <2> QED BY <1>1, <2>1 DEF Inv, AllAccounted, Accounted, Copies
<1>4. Stuck(pmx)
  <2>1. pmx \in Side /\ ds[pmx] \in Seq(Row) /\ j \in Nat
    BY DEF Inv, TypeOK
  <2>2. 1..Len(ds[pmx]) \subseteq 1..(j - 1)
    BY <1>1, <2>1
  <2> QED BY <1>1, <2>2 DEF ScanKnows, Stuck
<1>5. \A s \in Side : ~pok'[s] => Stuck(s)
  BY <1>1, <1>4 DEF Inv, TypeOK
<1>6. \A s \in Side : ~pok'[s] => Stuck(s)'
  BY <1>1, <1>5 DEF Stuck, compatible, gte
<1> QED BY <1>1, <1>2, <1>3, <1>6 DEF Inv

LEMMA NextInv == Inv /\ [Next]_vars => Inv'
<1> SUFFICES ASSUME Inv, [Next]_vars PROVE Inv' OBVIOUS
<1>1. CASE UNCHANGED vars
  <2>1. UNCHANGED <<dataset, pc, ds, mds, pok, pmx, j, mx>>
    BY <1>1 DEF vars
  <2>2. TypeOK' /\ Ordered' /\ AllAccounted'
    <3>1. TypeOK'
      BY <2>1 DEF Inv, TypeOK
    <3>2. Ordered'
      BY <2>1 DEF Inv, Ordered, gte, Rows
    <3>3. Seen' = Seen
      BY <2>1 DEF Seen, Rows
    <3>4. AllAccounted'
      BY <2>1, <3>3 DEF Inv, AllAccounted, Accounted, Copies
    <3> QED BY <3>1, <3>2, <3>4
  <2>3. \A s \in Side : ~pok'[s] => Stuck(s)'
    BY <2>1 DEF Inv, Stuck, compatible, gte
  <2>4. pc' = "scan" => ScanKnows'
    <3>1. ScanKnows => ScanKnows'
      BY <2>1 DEF ScanKnows, compatible, gte
    <3> QED BY <2>1, <3>1 DEF Inv
  <2> QED BY <2>1, <2>2, <2>3, <2>4 DEF Inv
<1>2. CASE Terminated
  BY <1>1, <1>2 DEF Terminated
<1> QED BY <1>1, <1>2, SplitInv, TurnInv, ScanInv, MoveInv, GiveUpInv DEF Next

\* A row that is moved is on its side.
LEMMA MovedOnItsSide ==
  ASSUME Inv, NEW s \in Side, NEW row \in Rows(mds[s])
  PROVE  row \in Row /\ SideOf(row) = s
<1>1. ds[s] \in Seq(Row) /\ mds[s] \in Seq(Row)
  BY DEF Inv, TypeOK
<1>2. row \in Row
  BY <1>1 DEF Rows
<1>3. Copies(row, ds[s]) \in Nat /\ Copies(row, mds[s]) \in Nat \ {0}
  BY <1>1, CopiesIsNat
<1>4. Copies(row, ds[s]) + Copies(row, mds[s]) # 0
  BY <1>3
<1> QED BY <1>2, <1>4 DEF Inv, AllAccounted, Accounted

\* A row of side 0 that is at most a row of side 1 is fine by chkmono, unless
\* the two are equal.
LEMMA OrderedIsMonotone ==
  ASSUME Inv
  PROVE  Monotone
<1> SUFFICES ASSUME NEW a \in Rows(mds[0]), NEW b \in Rows(mds[1])
             PROVE  chk_mono(a, b) <=> a.fs # b.fs
  BY DEF Monotone
<1>1. a \in Row /\ b \in Row /\ SideOf(a) = 0 /\ SideOf(b) = 1
  BY MovedOnItsSide DEF Side
<1>2. a.prd < b.prd
  BY <1>1 DEF SideOf, Row
<1>3. gte(b.fs, a.fs)
  BY DEF Inv, Ordered
<1>4. chk_mono(a, b) <=> ~gte(a.fs, b.fs)
  BY <1>1, <1>2 DEF chk_mono, Row
<1>5. gte(a.fs, b.fs) => \A k \in Feature : a.fs[k] = b.fs[k]
  BY <1>1, <1>3 DEF gte, Row
<1>6. gte(a.fs, b.fs) => a.fs = b.fs
  BY <1>1, <1>5 DEF Row
<1>7. a.fs = b.fs => gte(a.fs, b.fs)
  BY <1>3
<1> QED BY <1>4, <1>6, <1>7

\* Every row that is read is a row.
LEMMA AccountedNoneLost ==
  ASSUME Inv
  PROVE  NoneLost
<1>1. Rows(dataset) \subseteq Row
  BY DEF Inv, TypeOK, Rows
<1>2. \A s \in Side : Rows(ds[s]) \subseteq Row /\ Rows(mds[s]) \subseteq Row
  BY DEF Inv, TypeOK, Rows
<1> QED BY <1>1, <1>2 DEF NoneLost, Inv, AllAccounted

\* What mkmono moves has no two rows of different sides in the wrong order, but
\* for equal ones, which chkmono rejects; each row of the file is in one list,
\* that of its side moved or left out, as often as it is in the file; and at
\* the end no row left out can be added.  This holds for any file and in
\* whichever order the rows are picked (mkmono, pick_mono_subset).
THEOREM SubsetCorrect == Spec => []MonotoneSubset
<1>1. Inv => MonotoneSubset
  <2>1. Inv /\ pc = "done" => Maximal
    BY DEF Inv, Maximal, Stuck
  <2> QED BY <2>1, OrderedIsMonotone, AccountedNoneLost DEF MonotoneSubset
<1> QED BY <1>1, InitInv, NextInv, PTL DEF Spec
=============================================================================
