-------------------------- MODULE SimpSolverProofs --------------------------
(***************************************************************************)
(* The SAT solver is sound on formulas of any size: every clause it holds  *)
(* follows from the file, and so does "UNSATISFIABLE"; and the reasons of  *)
(* the literals on the trail are clauses it holds.                         *)
(*                                                                         *)
(* The invariant has three parts.  TrailOK is about the trail alone: its   *)
(* levels grow, no variable is on it twice, and the other literals of a    *)
(* reason are false earlier on it.  ControlOK says where the program can   *)
(* be at which level, and types what the rest needs.  Sound(A) says of a   *)
(* model A of the file that it satisfies every clause and literal that is  *)
(* derived: the clauses, the reasons, the clause being analysed, the       *)
(* resolvents, and the literals of level 0.                                *)
(***************************************************************************)
EXTENDS SimpSolverProperties, NaturalsInduction, WellFoundedInduction, TLAPS

EntryType == [lit : Lit, level : Nat, from : Clause]

\* The literal of entry i of trail t is no other entry's, nor its negation.
Distinct(t) ==
  \A i, j \in 1..Len(t) : i # j => t[i].lit # t[j].lit /\ t[i].lit # -t[j].lit

Grows(t) == \A i, j \in 1..Len(t) : i <= j => t[i].level <= t[j].level

\* The reason of entry i is unit by the entries before it.
Reasoned(t, i) ==
  t[i].from # NoReason =>
    /\ t[i].lit \in t[i].from
    /\ \A l \in t[i].from \ {t[i].lit} : \E j \in 1..(i - 1) : t[j].lit = -l

TrailIs(t, k) ==
  /\ t \in Seq(EntryType) /\ k \in Nat
  /\ Grows(t) /\ Distinct(t)
  /\ \A i \in 1..Len(t) : t[i].level <= k /\ Reasoned(t, i)

TrailOK == TrailIs(trail, decisionLevel)

Preprocessing ==
  \/ pc \in {"parse", "eliminate", "subsume", "vars", "resolve"}
  \/ pc \in {"propagate", "conflict"} /\ ret # "search"

PcOK ==
  /\ pc \in {"parse", "eliminate", "subsume", "vars", "resolve", "propagate",
             "conflict", "analyze", "search", "interrupted", "model", "extend",
             "done"}
  /\ ret \in {"parse", "subsume", "resolve", "search"}
  /\ Preprocessing => decisionLevel = 0
  /\ pc \notin {"propagate", "done"} => todo = {}
  /\ pc = "analyze" => decisionLevel > 0

DataOK ==
  /\ todo \subseteq DB
  /\ \A c \in DB : c.lits \in Clause /\ c.watch \subseteq c.lits
  /\ \A c \in clauses : ~Tautology(c.lits)
  /\ cur \in Clause /\ ~Tautology(cur)
  /\ adding \subseteq Clause
  /\ input \in Seq(Clause)
  /\ out_learnt \in Clause
  /\ bwdsub_assigns \in Nat
  /\ run \in Setup

\* The clause that is analysed is false.
Falsified ==
  pc \in {"conflict", "analyze"} => \A l \in out_learnt : False(l)

ControlOK == PcOK /\ DataOK /\ Falsified

ReasonsHeld ==
  \A i \in 1..Len(trail) :
    trail[i].level > 0 /\ trail[i].from # NoReason =>
      \E c \in DB : c.lits = trail[i].from

\* What A satisfies of the trail t.
SoundTrail(A, t) ==
  \A i \in 1..Len(t) :
    /\ t[i].level = 0 => Holds(A, t[i].lit)
    /\ t[i].from # NoReason => Satisfies(A, t[i].from)

Sound(A) ==
  /\ \A c \in DB : Satisfies(A, c.lits)
  /\ \A c \in adding : Satisfies(A, c)
  /\ cur # {} => Satisfies(A, cur)
  /\ pc \in {"conflict", "analyze"} => Satisfies(A, out_learnt)
  /\ SoundTrail(A, trail)
  /\ \A i \in 1..Len(input) : Satisfies(A, input[i])
  /\ answer # "UNSATISFIABLE"

Inv ==
  /\ TrailOK
  /\ ControlOK
  /\ ReasonsHeld
  /\ \A A \in Models : Sound(A)

-----------------------------------------------------------------------------
(* Literals and clauses. *)

LEMMA LitNeg ==
  ASSUME NEW l \in Lit
  PROVE  l \in Int /\ -l \in Lit /\ -(-l) = l /\ -l # l
  BY SolverAssumption DEF Lit

LEMMA HoldsNeg ==
  ASSUME NEW A \in Assignment, NEW l \in Lit
  PROVE  Holds(A, -l) <=> ~Holds(A, l)
<1>1. l \in Int /\ l # 0 /\ -(-l) = l
  BY SolverAssumption DEF Lit
<1>2. CASE l > 0
  <2>1. ~(-l > 0)
    BY <1>1, <1>2
  <2> QED BY <1>1, <1>2, <2>1, Zenon DEF Holds
<1>3. CASE ~(l > 0)
  <2>1. -l > 0
    BY <1>1, <1>3
  <2> QED BY <1>3, <2>1, Zenon DEF Holds
<1> QED BY <1>2, <1>3

LEMMA ModelIsAssignment == \A A \in Models : A \in Assignment
  BY DEF Models

\* A satisfies a clause and falsifies all but some of its literals.
LEMMA SatisfiesRest ==
  ASSUME NEW A, NEW c, NEW d, Satisfies(A, c),
         \A l \in c \ d : ~Holds(A, l)
  PROVE  Satisfies(A, d)
  BY DEF Satisfies

-----------------------------------------------------------------------------
(* Trails. *)

LEMMA AppendFacts ==
  ASSUME NEW t \in Seq(EntryType), NEW e \in EntryType
  PROVE  /\ Append(t, e) \in Seq(EntryType)
         /\ Len(t) \in Nat /\ Len(Append(t, e)) = Len(t) + 1
         /\ \A i \in 1..Len(t) : Append(t, e)[i] = t[i]
         /\ Append(t, e)[Len(t) + 1] = e
  OBVIOUS

LEMMA EntryIsTyped ==
  ASSUME NEW l \in Lit, NEW k \in Nat, NEW c \in Clause
  PROVE  /\ Entry(l, k, c) \in EntryType
         /\ Entry(l, k, c).lit = l /\ Entry(l, k, c).level = k
         /\ Entry(l, k, c).from = c
  BY DEF Entry, EntryType

\* A literal whose variable is not on the trail can be added to it.
LEMMA TrailAppend ==
  ASSUME NEW t, NEW k0, NEW k \in Nat, TrailIs(t, k0),
         \A i \in 1..Len(t) : t[i].level <= k,
         NEW l \in Lit, NEW c \in Clause,
         \A i \in 1..Len(t) : t[i].lit # l /\ t[i].lit # -l,
         c # NoReason =>
           l \in c /\ \A x \in c \ {l} : \E j \in 1..Len(t) : t[j].lit = -x
  PROVE  TrailIs(Append(t, Entry(l, k, c)), k)
<1> DEFINE e == Entry(l, k, c)
           u == Append(t, e)
           n == Len(t)
<1>1. e \in EntryType /\ e.lit = l /\ e.level = k /\ e.from = c
  BY EntryIsTyped
<1>2. t \in Seq(EntryType)
  BY DEF TrailIs
<1> HIDE DEF e
<1>3. /\ u \in Seq(EntryType) /\ n \in Nat /\ Len(u) = n + 1
      /\ \A i \in 1..n : u[i] = t[i]
      /\ u[n + 1] = e
  BY <1>1, <1>2, AppendFacts
<1>4. ASSUME NEW i \in 1..n PROVE t[i].lit \in Lit /\ t[i].level \in Nat
  <2>1. t[i] \in EntryType
    BY <1>2
  <2> QED BY <2>1 DEF EntryType
<1> HIDE DEF u, n
<1>5. \A i \in 1..(n + 1) : i \in 1..n \/ i = n + 1
  BY <1>3
<1>6. Grows(u)
  <2> SUFFICES ASSUME NEW i \in 1..(n + 1), NEW j \in 1..(n + 1), i <= j
               PROVE  u[i].level <= u[j].level
    BY <1>3 DEF Grows
  <2>1. CASE j \in 1..n
    <3>1. i \in 1..n
      BY <2>1, <1>3
    <3> QED BY <2>1, <3>1, <1>3 DEF TrailIs, Grows, n
  <2>2. CASE j = n + 1 /\ i \in 1..n
    BY <2>2, <1>1, <1>3 DEF n
  <2>3. CASE j = n + 1 /\ i = n + 1
    BY <2>3, <1>1, <1>3
  <2> QED BY <1>5, <2>1, <2>2, <2>3
<1>7. Distinct(u)
  <2> SUFFICES ASSUME NEW i \in 1..(n + 1), NEW j \in 1..(n + 1), i # j
               PROVE  u[i].lit # u[j].lit /\ u[i].lit # -u[j].lit
    BY <1>3 DEF Distinct
  <2>1. CASE i \in 1..n /\ j \in 1..n
    BY <2>1, <1>3 DEF TrailIs, Distinct, n
  <2>2. CASE i \in 1..n /\ j = n + 1
    BY <2>2, <1>1, <1>3 DEF n
  <2>3. CASE j \in 1..n /\ i = n + 1
    <3>1. t[j].lit # l /\ t[j].lit # -l /\ t[j].lit \in Lit
      BY <2>3, <1>4 DEF n
    <3>2. l # -t[j].lit
      BY <3>1, LitNeg
    <3> QED BY <2>3, <3>1, <3>2, <1>1, <1>3
  <2> QED BY <1>5, <2>1, <2>2, <2>3
<1>8. ASSUME NEW i \in 1..(n + 1) PROVE u[i].level <= k /\ Reasoned(u, i)
  <2>1. CASE i \in 1..n
    <3>1. \A j \in 1..(i - 1) : u[j] = t[j]
      BY <2>1, <1>3
    <3>2. u[i] = t[i] /\ Reasoned(t, i) /\ t[i].level <= k
      BY <2>1, <1>3 DEF TrailIs, n
    <3> QED BY <3>1, <3>2 DEF Reasoned
  <2>2. CASE i = n + 1
    <3>1. i - 1 = n
      BY <2>2, <1>3
    <3>2. c # NoReason =>
            l \in c /\ \A x \in c \ {l} : \E j \in 1..n : u[j].lit = -x
      BY <1>3 DEF n
    <3>3. u[i].lit = l /\ u[i].from = c /\ u[i].level = k
      BY <1>1, <1>3, <2>2
    <3>4. Reasoned(u, i)
      BY <3>1, <3>2, <3>3 DEF Reasoned
    <3>5. k <= k
      OBVIOUS
    <3> QED BY <3>3, <3>4, <3>5
  <2> QED BY <1>5, <2>1, <2>2
<1>9. TrailIs(u, k)
  BY <1>3, <1>6, <1>7, <1>8 DEF TrailIs
<1> QED BY <1>9 DEF u, e

LEMMA CutFacts ==
  ASSUME NEW t \in Seq(EntryType), NEW n \in 0..Len(t)
  PROVE  /\ SubSeq(t, 1, n) \in Seq(EntryType) /\ Len(SubSeq(t, 1, n)) = n
         /\ Len(t) \in Nat /\ n \in Nat /\ n <= Len(t)
         /\ \A i \in 1..n : SubSeq(t, 1, n)[i] = t[i] /\ i \in 1..Len(t)
  OBVIOUS

\* cancelUntil leaves a trail.
LEMMA TrailCut ==
  ASSUME TrailOK, NEW n \in 0..Len(trail), NEW k \in Nat, CutsTo(n, k)
  PROVE  TrailIs(SubSeq(trail, 1, n), k)
<1> DEFINE u == SubSeq(trail, 1, n)
<1>1. trail \in Seq(EntryType)
  BY DEF TrailOK, TrailIs
<1>2. /\ u \in Seq(EntryType) /\ Len(u) = n /\ n \in Nat
      /\ \A i \in 1..n : u[i] = trail[i] /\ i \in 1..Len(trail)
  BY <1>1, CutFacts
<1> HIDE DEF u
<1>3. Grows(u) /\ Distinct(u)
  BY <1>2 DEF TrailOK, TrailIs, Grows, Distinct
<1>4. ASSUME NEW i \in 1..n PROVE u[i].level <= k /\ Reasoned(u, i)
  <2>1. \A j \in 1..(i - 1) : u[j] = trail[j]
    BY <1>2
  <2>2. u[i] = trail[i] /\ Reasoned(trail, i)
    BY <1>2 DEF TrailOK, TrailIs
  <2>3. trail[i].level <= k
    BY DEF CutsTo
  <2> QED BY <2>1, <2>2, <2>3 DEF Reasoned
<1>5. TrailIs(u, k)
  BY <1>2, <1>3, <1>4 DEF TrailIs
<1> QED BY <1>5 DEF u

-----------------------------------------------------------------------------
(* What A satisfies. *)

LEMMA TrailEntry ==
  ASSUME TrailOK, NEW i \in 1..Len(trail)
  PROVE  /\ trail[i].lit \in Lit /\ trail[i].level \in Nat
         /\ trail[i].from \in Clause
         /\ trail[i].level <= decisionLevel /\ decisionLevel \in Nat
<1>1. trail[i] \in EntryType
  BY DEF TrailOK, TrailIs
<1> QED BY <1>1 DEF EntryType, TrailOK, TrailIs

\* A literal that is false at level 0 is false in every model.
LEMMA RootFalse ==
  ASSUME Inv, NEW A \in Models, NEW l \in Lit, False(l),
         LevelIs(l, 0) \/ decisionLevel = 0
  PROVE  ~Holds(A, l)
<1>1. PICK i \in 1..Len(trail) : trail[i].lit = -l
  BY DEF False, True
<1>2. trail[i].level = 0
  <2>1. CASE decisionLevel = 0
    BY <2>1, TrailEntry DEF Inv
  <2>2. CASE LevelIs(l, 0)
    <3>1. PICK j \in 1..Len(trail) : trail[j].lit \in {l, -l} /\ trail[j].level = 0
      BY <2>2 DEF LevelIs
    <3>2. -(-l) = l /\ -l # l
      BY LitNeg
    <3>3. j = i
      BY <1>1, <3>1, <3>2 DEF Inv, TrailOK, TrailIs, Distinct
    <3> QED BY <3>1, <3>3
  <2> QED BY <2>1, <2>2
<1>3. Holds(A, -l)
  BY <1>1, <1>2 DEF Inv, Sound, SoundTrail
<1> QED BY <1>3, HoldsNeg, ModelIsAssignment

\* The steps that leave the trail alone.
LEMMA SameTrail ==
  ASSUME Inv, ControlOK', UNCHANGED <<run, trail, decisionLevel>>,
         decisionLevel = 0 \/ \A d \in DB : \E c \in DB' : c.lits = d.lits,
         \A A \in Models :
           /\ \A c \in DB' : Satisfies(A, c.lits)
           /\ \A c \in adding' : Satisfies(A, c)
           /\ cur' # {} => Satisfies(A, cur')
           /\ pc' \in {"conflict", "analyze"} => Satisfies(A, out_learnt')
           /\ \A i \in 1..Len(input') : Satisfies(A, input'[i])
           /\ answer' # "UNSATISFIABLE"
  PROVE  Inv'
<1>1. TrailOK'
  BY DEF Inv, TrailOK
<1>2. ReasonsHeld'
  <2> SUFFICES ASSUME NEW i \in 1..Len(trail), trail[i].level > 0,
                      trail[i].from # NoReason
               PROVE  \E c \in DB' : c.lits = trail[i].from
    BY DEF ReasonsHeld
  <2>1. decisionLevel # 0
    BY TrailEntry DEF Inv
  <2> QED BY <2>1 DEF Inv, ReasonsHeld
<1>3. Models' = Models
  BY DEF Models, Solves
<1>4. ASSUME NEW A \in Models PROVE Sound(A)'
  <2>1. Sound(A)
    BY DEF Inv
  <2>2. SoundTrail(A, trail')
    BY <2>1 DEF Sound
  <2> QED BY <2>2 DEF Sound, SoundTrail
<1> QED BY <1>1, <1>2, <1>3, <1>4 DEF Inv

\* The steps that leave the trail t, the old one or a part of it, and assign
\* one literal more, for the reason c.
LEMMA GrownFrom ==
  ASSUME Inv, ControlOK', NEW t, NEW l \in Lit, NEW c \in Clause,
         UNCHANGED run, decisionLevel' \in Nat, TrailIs(t, decisionLevel'),
         \A i \in 1..Len(t) : t[i].lit # l /\ t[i].lit # -l,
         trail' = Append(t, Entry(l, decisionLevel', c)),
         c # NoReason =>
           /\ l \in c /\ \A x \in c \ {l} : \E j \in 1..Len(t) : t[j].lit = -x
           /\ \E d \in DB' : d.lits = c,
         \A i \in 1..Len(t) :
           t[i].level > 0 /\ t[i].from # NoReason =>
             \E d \in DB' : d.lits = t[i].from,
         adding' \subseteq adding, cur' \in {cur, {}},
         pc' \notin {"conflict", "analyze"},
         \A A \in Models :
           /\ SoundTrail(A, t)
           /\ \A d \in DB' : Satisfies(A, d.lits)
           /\ decisionLevel' = 0 => Holds(A, l)
           /\ c # NoReason => Satisfies(A, c)
           /\ \A i \in 1..Len(input') : Satisfies(A, input'[i])
           /\ answer' # "UNSATISFIABLE"
  PROVE  Inv'
<1> DEFINE k == decisionLevel'
           e == Entry(l, k, c)
           n == Len(t)
<1>1. e \in EntryType /\ e.lit = l /\ e.level = k /\ e.from = c
  BY EntryIsTyped
<1>2. t \in Seq(EntryType)
  BY DEF TrailIs
<1>3. /\ n \in Nat /\ Len(trail') = n + 1
      /\ \A i \in 1..n : trail'[i] = t[i]
      /\ trail'[n + 1] = e
  <2> HIDE DEF e
  <2> QED BY <1>1, <1>2, AppendFacts DEF e
<1>4. TrailOK'
  <2>1. \A i \in 1..n : t[i].level <= k
    BY DEF TrailIs
  <2>2. TrailIs(Append(t, e), k)
    BY <2>1, TrailAppend
  <2> QED BY <2>2 DEF TrailOK
<1> HIDE DEF e
<1>5. \A i \in 1..(n + 1) : i \in 1..n \/ i = n + 1
  BY <1>3
<1>6. ReasonsHeld'
  <2> SUFFICES ASSUME NEW i \in 1..(n + 1), trail'[i].level > 0,
                      trail'[i].from # NoReason
               PROVE  \E d \in DB' : d.lits = trail'[i].from
    BY <1>3 DEF ReasonsHeld
  <2>1. CASE i \in 1..n
    BY <2>1, <1>3
  <2>2. CASE i = n + 1
    BY <2>2, <1>1, <1>3
  <2> QED BY <2>1, <2>2, <1>5
<1>7. Models' = Models
  BY DEF Models, Solves
<1>8. ASSUME NEW A \in Models PROVE Sound(A)'
  <2>1. Sound(A)
    BY DEF Inv
  <2>2. SoundTrail(A, trail)'
    <3> SUFFICES ASSUME NEW i \in 1..(n + 1)
                 PROVE  /\ trail'[i].level = 0 => Holds(A, trail'[i].lit)
                        /\ trail'[i].from # NoReason =>
                             Satisfies(A, trail'[i].from)
      BY <1>3 DEF SoundTrail
    <3>1. CASE i \in 1..n
      BY <3>1, <1>3 DEF SoundTrail
    <3>2. CASE i = n + 1
      BY <3>2, <1>1, <1>3
    <3> QED BY <3>1, <3>2, <1>5
  <2>3. \A d \in adding' : Satisfies(A, d)
    BY <2>1 DEF Sound
  <2>4. cur' # {} => Satisfies(A, cur')
    BY <2>1 DEF Sound
  <2> QED BY <2>2, <2>3, <2>4 DEF Sound
<1> QED BY <1>4, <1>6, <1>7, <1>8 DEF Inv

LEMMA GrownTrail ==
  ASSUME Inv, ControlOK', NEW l \in Lit, Undef(l), NEW c \in Clause,
         UNCHANGED run, decisionLevel' \in Nat, decisionLevel' >= decisionLevel,
         trail' = Append(trail, Entry(l, decisionLevel', c)),
         c # NoReason =>
           /\ l \in c /\ \A x \in c \ {l} : False(x)
           /\ \E d \in DB' : d.lits = c,
         \A i \in 1..Len(trail) :
           trail[i].level > 0 /\ trail[i].from # NoReason =>
             \E d \in DB' : d.lits = trail[i].from,
         adding' \subseteq adding, cur' \in {cur, {}},
         pc' \notin {"conflict", "analyze"},
         \A A \in Models :
           /\ \A d \in DB' : Satisfies(A, d.lits)
           /\ decisionLevel' = 0 => Holds(A, l)
           /\ c # NoReason => Satisfies(A, c)
           /\ \A i \in 1..Len(input') : Satisfies(A, input'[i])
           /\ answer' # "UNSATISFIABLE"
  PROVE  Inv'
<1>1. \A i \in 1..Len(trail) : trail[i].lit # l /\ trail[i].lit # -l
  BY DEF Undef, True, False
<1>2. \A i \in 1..Len(trail) : trail[i].level <= decisionLevel'
  BY TrailEntry DEF Inv
<1>3. TrailIs(trail, decisionLevel')
  BY <1>2 DEF Inv, TrailOK, TrailIs
<1>4. \A x : False(x) => \E j \in 1..Len(trail) : trail[j].lit = -x
  BY DEF False, True
<1>5. \A A \in Models : SoundTrail(A, trail)
  BY DEF Inv, Sound
<1> QED BY <1>1, <1>3, <1>4, <1>5, GrownFrom

\* At level 0 no reason need be held.
LEMMA RootReasons ==
  ASSUME Inv, decisionLevel = 0
  PROVE  \A i \in 1..Len(trail) : ~(trail[i].level > 0)
  BY TrailEntry DEF Inv

\* The steps that cut the trail back to level 0.
LEMMA CutInv ==
  ASSUME Inv, PcOK', DataOK', pc' \notin {"conflict", "analyze"},
         UNCHANGED <<run, dbVars, adding, input, cur, answer>>,
         NEW n \in 0..Len(trail), CutsTo(n, 0), decisionLevel' = 0,
         trail' = SubSeq(trail, 1, n)
  PROVE  Inv'
<1>1. trail \in Seq(EntryType)
  BY DEF Inv, TrailOK, TrailIs
<1>2. /\ Len(trail') = n /\ n \in Nat
      /\ \A i \in 1..n : trail'[i] = trail[i] /\ i \in 1..Len(trail)
  BY <1>1, CutFacts
<1>3. TrailOK'
  BY TrailCut DEF Inv, TrailOK
<1>4. ReasonsHeld'
  <2>1. \A i \in 1..n : trail'[i].level <= 0 /\ trail'[i].level \in Nat
    BY <1>2, TrailEntry DEF Inv, CutsTo
  <2>2. \A i \in 1..n : ~(trail'[i].level > 0)
    BY <2>1
  <2> QED BY <1>2, <2>2 DEF ReasonsHeld
<1>5. Models' = Models /\ DB' = DB
  BY DEF Models, Solves, DB, dbVars
<1>6. ASSUME NEW A \in Models PROVE Sound(A)'
  <2>1. Sound(A)
    BY DEF Inv
  <2>2. SoundTrail(A, trail)'
    BY <1>2, <2>1 DEF Sound, SoundTrail
  <2> QED BY <1>5, <2>1, <2>2 DEF Sound
<1>7. ControlOK'
  BY DEF ControlOK, Falsified
<1> QED BY <1>3, <1>4, <1>5, <1>6, <1>7 DEF Inv

-----------------------------------------------------------------------------
(* The actions.  First those that only move on. *)

LEMMA InitInv == Init => Inv
<1> SUFFICES ASSUME Init PROVE Inv OBVIOUS
<1>1. run \in SetupType /\ input \in Seq(Clause) /\ input = run.formula
  BY RunAssumption DEF Init, SetupType
<1>2. trail = <<>> /\ Len(trail) = 0 /\ decisionLevel = 0
  BY DEF Init
<1>3. trail \in Seq(EntryType)
  BY <1>2
<1>4. TrailOK
  BY <1>2, <1>3 DEF TrailOK, TrailIs, Grows, Distinct
<1>5. {} \in Clause /\ ~Tautology({})
  BY DEF Clause, Tautology
<1>6. DB = {}
  BY DEF Init, DB
<1>7. ControlOK
  BY <1>1, <1>2, <1>5, <1>6
     DEF Init, ControlOK, PcOK, DataOK, Falsified, Preprocessing
<1>8. ReasonsHeld
  BY <1>2 DEF ReasonsHeld
<1>9. ASSUME NEW A \in Models PROVE Sound(A)
  BY <1>1, <1>2, <1>6 DEF Init, Models, Solves, Sound, SoundTrail
<1> QED BY <1>4, <1>7, <1>8, <1>9 DEF Inv

\* These leave everything derived alone.
LEMMA QuietInv ==
  ASSUME Inv, PcOK', DataOK', pc' \notin {"conflict", "analyze"},
         UNCHANGED <<run, dbVars, trail, decisionLevel, adding, input>>,
         cur' \in {cur, {}}, Models # {} => answer' # "UNSATISFIABLE"
  PROVE  Inv'
<1>1. ControlOK'
  BY DEF ControlOK, Falsified
<1>2. DB' = DB
  BY DEF DB, dbVars
<1>3. \A A \in Models : Sound(A)
  BY DEF Inv
<1> QED BY <1>1, <1>2, <1>3, SameTrail DEF Sound

LEMMA NotRefuted == Inv /\ Models # {} => answer # "UNSATISFIABLE"
  BY DEF Inv, Sound

Quiet ==
  \/ ParseDone
  \/ PrintIndeterminate
  \/ GatherTouched
  \/ EliminateDone
  \/ SubsumeInterrupted
  \/ SubsumeDone
  \/ VarsInterrupted
  \/ VarsDone
  \/ SkipVariable
  \/ ScanDone
  \/ ExtendModel
  \/ PrintModel

LEMMA QuietStep == Inv /\ Quiet => Inv'
<1> SUFFICES ASSUME Inv, Quiet PROVE Inv' OBVIOUS
<1> USE DEF Quiet, ParseDone, PrintIndeterminate, GatherTouched, EliminateDone,
            SubsumeInterrupted, SubsumeDone, VarsInterrupted, VarsDone,
            SkipVariable, ScanDone, ExtendModel, PrintModel
<1>1. UNCHANGED <<run, dbVars, trail, decisionLevel, adding, input, todo,
                  out_learnt>>
  BY DEF trailVars, simpVars, coreVars
<1>2. cur' \in {cur, {}} /\ pc' \notin {"conflict", "analyze"}
  BY DEF coreVars, simpVars
<1>3. answer' \in {answer, "INDETERMINATE", "SATISFIABLE"}
  BY DEF outVars
<1>4. bwdsub_assigns' \in {bwdsub_assigns, Len(trail)}
  BY DEF simpVars
<1>5. decisionLevel = 0 \/ pc \notin {"parse", "eliminate", "subsume", "vars"}
  BY DEF Inv, ControlOK, PcOK, Preprocessing
<1>6. PcOK'
  BY <1>1, <1>5 DEF Inv, ControlOK, PcOK, Preprocessing, coreVars
<1>7. Len(trail) \in Nat
  BY DEF Inv, TrailOK, TrailIs
<1>8. {} \in Clause /\ ~Tautology({})
  BY DEF Clause, Tautology
<1>9. DB' = DB
  BY <1>1 DEF DB, dbVars
<1>10. DataOK'
  BY <1>1, <1>2, <1>4, <1>7, <1>8, <1>9
     DEF Inv, ControlOK, DataOK, dbVars, Tautology
<1> QED BY <1>1, <1>2, <1>3, <1>6, <1>10, QuietInv, NotRefuted

LEMMA ReturnStep ==
  ASSUME Inv, PropagateDone \/ AllAssigned(Variable \ eliminated),
         UNCHANGED <<run, input, simpVars, outVars>>
  PROVE  Inv'
<1> USE DEF PropagateDone, AllAssigned
<1>1. UNCHANGED <<run, dbVars, trail, decisionLevel, adding, input, todo,
                  out_learnt, cur, answer, ret, bwdsub_assigns>>
  BY DEF trailVars, simpVars, outVars
<1>2. PcOK' /\ pc' \notin {"conflict", "analyze"}
  BY <1>1 DEF Inv, ControlOK, PcOK, Preprocessing
<1>3. DB' = DB
  BY <1>1 DEF DB, dbVars
<1>4. DataOK'
  BY <1>1, <1>3 DEF Inv, ControlOK, DataOK, dbVars, Tautology
<1> QED BY <1>1, <1>2, <1>4, QuietInv, NotRefuted

LEMMA InterruptStep == Inv /\ Interrupt => Inv'
<1> SUFFICES ASSUME Inv, Interrupt PROVE Inv' OBVIOUS
<1> USE DEF Interrupt
<1>1. UNCHANGED <<run, dbVars, trail, decisionLevel, adding, input, todo,
                  out_learnt, cur, ret, bwdsub_assigns>>
  BY DEF trailVars, simpVars, outVars
<1>2. DB' = DB
  BY <1>1 DEF DB, dbVars
<1>3. DataOK'
  BY <1>1, <1>2 DEF Inv, ControlOK, DataOK, dbVars, Tautology
<1>4. CASE Parsing
  <2>1. PcOK'
    BY <1>1, <1>4 DEF Inv, ControlOK, PcOK, Preprocessing
  <2> QED BY <1>1, <1>3, <1>4, <2>1, QuietInv
<1>5. CASE UNCHANGED <<pc, answer>>
  <2>1. ControlOK'
    BY <1>1, <1>3, <1>5
       DEF Inv, ControlOK, PcOK, Preprocessing, Falsified, False, True
  <2>2. \A A \in Models : Sound(A)
    BY DEF Inv
  <2> QED BY <1>1, <1>2, <1>5, <2>1, <2>2, SameTrail DEF Sound
<1> QED BY <1>4, <1>5

LEMMA StutterStep == Inv /\ UNCHANGED vars => Inv'
<1> SUFFICES ASSUME Inv, UNCHANGED vars PROVE Inv' OBVIOUS
<1>1. UNCHANGED <<run, clauses, learnts, trail, decisionLevel, adding, input,
                  todo, out_learnt, cur, ret, bwdsub_assigns, pc, answer>>
  BY DEF vars, coreVars, dbVars, trailVars, simpVars, outVars
<1>2. DB' = DB
  BY <1>1 DEF DB
<1>3. ControlOK'
  BY <1>1, <1>2 DEF Inv, ControlOK, PcOK, DataOK, Preprocessing, Falsified,
                    False, True, Tautology
<1>4. \A A \in Models : Sound(A)
  BY DEF Inv
<1> QED BY <1>1, <1>2, <1>3, <1>4, SameTrail DEF Sound

-----------------------------------------------------------------------------
(* Subsumption and the elimination of variables. *)

LEMMA AtRoot ==
  ASSUME Inv, pc \in {"parse", "eliminate", "subsume", "vars", "resolve"}
  PROVE  decisionLevel = 0 /\ todo = {}
  BY DEF Inv, ControlOK, PcOK, Preprocessing

LEMMA PopQueueStep == Inv /\ PopQueue => Inv'
<1> SUFFICES ASSUME Inv, PopQueue PROVE Inv' OBVIOUS
<1> USE DEF PopQueue
<1>1. UNCHANGED <<run, clauses, learnts, trail, decisionLevel, adding, input,
                  todo, out_learnt, ret, bwdsub_assigns, pc, answer>>
  BY DEF coreVars, dbVars, trailVars, outVars
<1>2. DB' = DB
  BY <1>1 DEF DB
<1>3. cur' = {} \/ \E d \in clauses : d.lits = cur'
  OBVIOUS
<1>4. ControlOK'
  <2>1. cur' \in Clause /\ ~Tautology(cur')
    BY <1>3 DEF Inv, ControlOK, DataOK, DB, Clause, Tautology
  <2> QED BY <1>1, <1>2, <2>1 DEF Inv, ControlOK, PcOK, DataOK, Preprocessing,
                                  Falsified, False, True, Tautology
<1>5. \A A \in Models : Sound(A)
  BY DEF Inv
<1>6. \A A \in Models : cur' # {} => Satisfies(A, cur')
  BY <1>3, <1>5 DEF Sound, DB
<1> QED BY <1>1, <1>2, <1>4, <1>5, <1>6, SameTrail DEF Sound

LEMMA PopAssignStep == Inv /\ PopAssign => Inv'
<1> SUFFICES ASSUME Inv, PopAssign PROVE Inv' OBVIOUS
<1> USE DEF PopAssign
<1>1. UNCHANGED <<run, clauses, learnts, trail, decisionLevel, adding, input,
                  todo, out_learnt, ret, pc, answer>>
  BY DEF coreVars, dbVars, trailVars, outVars
<1>2. DB' = DB
  BY <1>1 DEF DB
<1> DEFINE i == bwdsub_assigns + 1
<1>3. i \in 1..Len(trail) /\ bwdsub_assigns' \in Nat
  BY DEF Inv, ControlOK, DataOK, TrailOK, TrailIs
<1>4. trail[i].lit \in Lit /\ trail[i].level = 0
  BY <1>3, TrailEntry, AtRoot DEF Inv
<1>5. cur' = {trail[i].lit}
  OBVIOUS
<1> HIDE DEF i
<1>6. ControlOK'
  <2>1. cur' \in Clause /\ ~Tautology(cur')
    BY <1>4, <1>5, LitNeg DEF Clause, Tautology
  <2> QED BY <1>1, <1>2, <1>3, <2>1
          DEF Inv, ControlOK, PcOK, DataOK, Preprocessing, Falsified, False,
              True, Tautology
<1>7. \A A \in Models : Sound(A)
  BY DEF Inv
<1>8. \A A \in Models : Satisfies(A, cur')
  BY <1>3, <1>4, <1>5, <1>7 DEF Sound, SoundTrail, Satisfies
<1> QED BY <1>1, <1>2, <1>6, <1>7, <1>8, SameTrail DEF Sound

\* Clauses go.
LEMMA RemovalStep == Inv /\ (RemoveSubsumed \/ RemoveOld) => Inv'
<1> SUFFICES ASSUME Inv, RemoveSubsumed \/ RemoveOld PROVE Inv' OBVIOUS
<1> USE DEF RemoveSubsumed, RemoveOld
<1>1. UNCHANGED <<run, learnts, trail, decisionLevel, adding, input, cur,
                  todo, out_learnt, ret, bwdsub_assigns, answer>>
  BY DEF trailVars, outVars
<1>2. clauses' \subseteq clauses /\ DB' \subseteq DB
  BY <1>1 DEF DB
<1>3. pc \in {"subsume", "resolve"} /\ pc' = "subsume"
  OBVIOUS
<1>4. decisionLevel = 0 /\ todo = {}
  BY <1>3, AtRoot
<1>5. ControlOK'
  BY <1>1, <1>2, <1>3, <1>4
     DEF Inv, ControlOK, PcOK, DataOK, Preprocessing, Falsified, Tautology
<1>6. \A A \in Models : Sound(A)
  BY DEF Inv
<1> QED BY <1>1, <1>2, <1>3, <1>4, <1>5, <1>6, SameTrail DEF Sound

\* The clause without the literal follows from it and from cur.
LEMMA StrengthenedHolds ==
  ASSUME Inv, NEW A \in Models, NEW d \in clauses, NEW l \in cur,
         cur # {}, Strengthens(l, d)
  PROVE  Satisfies(A, Without(d, l))
<1>1. Satisfies(A, cur) /\ Satisfies(A, d.lits)
  BY DEF Inv, Sound, DB
<1>2. cur \subseteq Lit /\ ~Tautology(cur)
  BY DEF Inv, ControlOK, DataOK, Clause
<1>3. CASE Holds(A, l)
  <2>1. ~Holds(A, -l)
    BY <1>2, <1>3, HoldsNeg, ModelIsAssignment
  <2> QED BY <1>1, <2>1 DEF Satisfies, Without
<1>4. CASE ~Holds(A, l)
  <2>1. PICK x \in cur : Holds(A, x)
    BY <1>1 DEF Satisfies
  <2>2. x # l /\ x # -l
    BY <2>1, <1>4, <1>2 DEF Tautology
  <2>3. x \in d.lits
    BY <2>2 DEF Strengthens
  <2> QED BY <2>1, <2>2, <2>3 DEF Satisfies, Without
<1> QED BY <1>3, <1>4

LEMMA StrengthenStep == Inv /\ Strengthen => Inv'
<1> SUFFICES ASSUME Inv, Strengthen PROVE Inv' OBVIOUS
<1>1. UNCHANGED <<run, learnts, trail, decisionLevel, adding, input, cur,
                  todo, out_learnt, ret, bwdsub_assigns, pc, answer>>
  BY DEF Strengthen, trailVars, outVars
<1>2. pc = "subsume" /\ cur # {}
  BY DEF Strengthen
<1>a. PICK d \in clauses, l \in cur :
        /\ Strengthens(l, d)
        /\ \E w \in SUBSET Without(d, l) :
             clauses' = (clauses \ {d}) \cup {Attached(Without(d, l), w)}
  BY DEF Strengthen
<1>b. PICK w \in SUBSET Without(d, l) :
        clauses' = (clauses \ {d}) \cup {Attached(Without(d, l), w)}
  BY <1>a
<1>3. /\ Strengthens(l, d) /\ w \subseteq Without(d, l)
      /\ clauses' = (clauses \ {d}) \cup {Attached(Without(d, l), w)}
  BY <1>a, <1>b
<1>4. decisionLevel = 0 /\ todo = {}
  BY <1>2, AtRoot
<1> DEFINE b == Attached(Without(d, l), w)
<1>5. b.lits = Without(d, l) /\ b.watch \subseteq b.lits
  BY <1>3 DEF Attached
<1>6. \A c \in DB' : c \in DB \/ c = b
  BY <1>1, <1>3 DEF DB
<1>7. \A c \in clauses' : c \in clauses \/ c = b
  BY <1>3
<1> HIDE DEF b
<1>8. b.lits \subseteq d.lits /\ d.lits \in Clause /\ ~Tautology(d.lits)
  BY <1>5 DEF Without, Inv, ControlOK, DataOK, DB
<1>9. b.lits \in Clause /\ ~Tautology(b.lits)
  BY <1>8 DEF Clause, Tautology
<1>10. ControlOK'
  BY <1>1, <1>2, <1>4, <1>5, <1>6, <1>7, <1>9
     DEF Inv, ControlOK, PcOK, DataOK, Preprocessing, Falsified, Tautology
<1>11. \A A \in Models : Sound(A) /\ Satisfies(A, b.lits)
  BY <1>2, <1>3, <1>5, StrengthenedHolds DEF Inv
<1>12. \A A \in Models : \A c \in DB' : Satisfies(A, c.lits)
  BY <1>6, <1>11 DEF Sound
<1> QED BY <1>1, <1>2, <1>4, <1>10, <1>11, <1>12, SameTrail DEF Sound

LEMMA StrengthenToUnitStep == Inv /\ StrengthenToUnit => Inv'
<1> SUFFICES ASSUME Inv, StrengthenToUnit PROVE Inv' OBVIOUS
<1>1. UNCHANGED <<run, learnts, decisionLevel, adding, input, cur, todo,
                  out_learnt, bwdsub_assigns>>
  BY DEF StrengthenToUnit, trailVars, outVars
<1>2. pc = "subsume" /\ cur # {}
  BY DEF StrengthenToUnit
<1>3. PICK d \in clauses, l \in cur, o \in Lit :
        /\ Strengthens(l, d) /\ Without(d, l) = {o}
        /\ clauses' = clauses \ {d}
        /\ IF Undef(o)
           THEN trail' = Assert(o) /\ pc' = "propagate" /\ ret' = "subsume"
                /\ UNCHANGED answer
           ELSE /\ UNCHANGED <<trail, ret>>
                /\ IF True(o) THEN UNCHANGED <<pc, answer>>
                              ELSE pc' = "done" /\ answer' = "UNSATISFIABLE"
  BY DEF StrengthenToUnit
<1>4. decisionLevel = 0 /\ todo = {}
  BY <1>2, AtRoot
<1>5. DB' \subseteq DB /\ clauses' \subseteq clauses
  BY <1>1, <1>3 DEF DB
<1>6. ASSUME NEW A \in Models PROVE Sound(A) /\ Holds(A, o)
  <2>1. Satisfies(A, {o})
    BY <1>2, <1>3, StrengthenedHolds
  <2> QED BY <2>1 DEF Inv, Satisfies
<1>7. ControlOK'
  <2>1. pc' \in {"propagate", "subsume", "done"}
    BY <1>2, <1>3
  <2>2. PcOK'
    BY <1>1, <1>2, <1>3, <1>4, <2>1 DEF Inv, ControlOK, PcOK, Preprocessing
  <2> QED BY <1>1, <1>4, <1>5, <2>1, <2>2
          DEF Inv, ControlOK, DataOK, Falsified, Tautology
<1>8. CASE Undef(o)
  <2>1. trail' = Append(trail, Entry(o, decisionLevel', NoReason))
    BY <1>1, <1>3, <1>4, <1>8 DEF Assert
  <2>2. NoReason \in Clause
    BY DEF NoReason, Clause
  <2>3. pc' = "propagate" /\ answer' = answer
    BY <1>3, <1>8
  <2>4. \A A \in Models : \A c \in DB' : Satisfies(A, c.lits)
    BY <1>5, <1>6 DEF Sound
  <2> QED BY <1>1, <1>4, <1>6, <1>7, <1>8, <2>1, <2>2, <2>3, <2>4, GrownTrail,
             RootReasons DEF Sound
<1>9. CASE ~Undef(o)
  <2>1. UNCHANGED trail
    BY <1>3, <1>9
  <2>2. \A A \in Models : answer' # "UNSATISFIABLE"
    <3> SUFFICES ASSUME NEW A \in Models PROVE answer' # "UNSATISFIABLE"
      OBVIOUS
    <3>1. CASE True(o)
      BY <3>1, <1>3, <1>6, <1>9 DEF Sound
    <3>2. CASE ~True(o)
      <4>1. False(o)
        BY <3>2, <1>9 DEF Undef
      <4> QED BY <4>1, <1>4, <1>6, RootFalse
    <3> QED BY <3>1, <3>2
  <2>3. pc' \notin {"conflict", "analyze"}
    BY <1>2, <1>3, <1>9
  <2>4. \A A \in Models : \A c \in DB' : Satisfies(A, c.lits)
    BY <1>5, <1>6 DEF Sound
  <2> QED BY <1>1, <1>4, <1>6, <1>7, <2>1, <2>2, <2>3, <2>4, SameTrail
          DEF Sound
<1> QED BY <1>8, <1>9

LEMMA ResolventsHold ==
  ASSUME Inv, NEW A \in Models, NEW v, NEW r \in Resolvents(v)
  PROVE  Satisfies(A, r)
<1>1. PICK c \in clauses, d \in clauses : r = Merge(c, d, v) /\ v \in c.lits
  BY DEF Resolvents, Product, Pos, Neg
<1>2. /\ c.lits \in Clause /\ d.lits \in Clause
      /\ Satisfies(A, c.lits) /\ Satisfies(A, d.lits)
  BY DEF Inv, ControlOK, DataOK, DB, Sound
<1>3. v \in Lit
  BY <1>1, <1>2 DEF Clause
<1>4. ~Holds(A, v) \/ ~Holds(A, -v)
  BY <1>3, HoldsNeg, ModelIsAssignment
<1> QED BY <1>1, <1>2, <1>4 DEF Merge, Satisfies, Clause

LEMMA EliminateStep == Inv /\ Eliminate => Inv'
<1> SUFFICES ASSUME Inv, Eliminate PROVE Inv' OBVIOUS
<1>1. UNCHANGED <<run, clauses, learnts, trail, decisionLevel, input, cur,
                  todo, out_learnt, ret, bwdsub_assigns, answer>>
  BY DEF Eliminate, dbVars, trailVars, outVars
<1>2. pc = "vars" /\ pc' = "resolve"
  BY DEF Eliminate
<1>3. PICK v : adding' = Resolvents(v)
  BY DEF Eliminate
<1>4. decisionLevel = 0 /\ todo = {}
  BY <1>2, AtRoot
<1>5. DB' = DB
  BY <1>1 DEF DB
<1>6. adding' \subseteq Clause
  <2>1. \A c \in clauses : c.lits \in Clause
    BY DEF Inv, ControlOK, DataOK, DB
  <2> QED BY <1>3, <2>1 DEF Resolvents, Product, Pos, Neg, Merge, Clause
<1>7. ControlOK'
  BY <1>1, <1>2, <1>4, <1>5, <1>6
     DEF Inv, ControlOK, PcOK, DataOK, Preprocessing, Falsified, Tautology
<1>8. \A A \in Models : Sound(A) /\ \A r \in adding' : Satisfies(A, r)
  BY <1>3, ResolventsHold DEF Inv
<1> QED BY <1>1, <1>2, <1>5, <1>7, <1>8, SameTrail DEF Sound

-----------------------------------------------------------------------------
(* Clauses come in. *)

\* What is left of a clause without the literals that are false at level 0.
LEMMA RemainingHolds ==
  ASSUME Inv, decisionLevel = 0, NEW c \in Clause, NEW A \in Models,
         Satisfies(A, c)
  PROVE  Satisfies(A, Remaining(c))
<1>1. \A l \in c \ Remaining(c) : ~Holds(A, l)
  BY RootFalse DEF Remaining, Clause
<1> QED BY <1>1, SatisfiesRest

LEMMA AddClauseSound ==
  ASSUME Inv, pc \in {"parse", "resolve"}, NEW c \in Clause, AddClause(c),
         UNCHANGED <<run, learnts, decisionLevel, todo, out_learnt,
                     bwdsub_assigns, cur>>,
         adding' \subseteq adding, input' \in Seq(Clause),
         \A A \in Models :
           /\ Satisfies(A, c)
           /\ \A i \in 1..Len(input') : Satisfies(A, input'[i])
  PROVE  Inv'
<1>1. decisionLevel = 0 /\ todo = {} /\ todo' = {} /\ decisionLevel' = 0
  BY AtRoot
<1>2. Remaining(c) \subseteq c /\ Remaining(c) \in Clause
  BY DEF Remaining, Clause
<1>3. \A A \in Models : Sound(A) /\ Satisfies(A, Remaining(c))
  BY <1>1, RemainingHolds DEF Inv
<1>4. \A A \in Models : \A r \in adding' : Satisfies(A, r)
  BY <1>3 DEF Sound
<1>5. CASE UNCHANGED clauses
  <2>1. DB' = DB
    BY <1>5 DEF DB
  <2>2. DataOK'
    BY <1>1, <1>5, <2>1 DEF Inv, ControlOK, DataOK, Tautology
  <2>3. CASE AddNothing(c) \/ AddEmpty(c)
    <3>1. UNCHANGED trail /\ pc' \in {"parse", "resolve", "done"} /\ ret' = ret
      BY <2>3 DEF AddNothing, AddEmpty
    <3>2. ControlOK'
      BY <1>1, <2>2, <3>1
         DEF Inv, ControlOK, PcOK, Preprocessing, Falsified
    <3>3. \A A \in Models : answer' # "UNSATISFIABLE"
      <4> SUFFICES ASSUME NEW A \in Models PROVE answer' # "UNSATISFIABLE"
        OBVIOUS
      <4>1. Remaining(c) # {} /\ answer # "UNSATISFIABLE"
        BY <1>3 DEF Satisfies, Sound
      <4> QED BY <2>3, <4>1 DEF AddNothing, AddEmpty
    <3> QED BY <1>1, <1>3, <1>4, <2>1, <3>1, <3>2, <3>3, SameTrail DEF Sound
  <2>4. CASE AddUnit(c)
    <3>1. PICK l \in c : Undef(l) /\ Remaining(c) = {l} /\ trail' = Assert(l)
      BY <2>4 DEF AddUnit
    <3>2. pc' = "propagate" /\ ret' \in {"parse", "resolve"} /\ answer' = answer
      BY <2>4 DEF AddUnit
    <3>3. ControlOK'
      BY <1>1, <2>2, <3>2 DEF ControlOK, PcOK, Preprocessing, Falsified
    <3>4. l \in Lit /\ NoReason \in Clause
      BY DEF Clause, NoReason
    <3>5. trail' = Append(trail, Entry(l, decisionLevel', NoReason))
      BY <1>1, <3>1 DEF Assert
    <3>6. \A A \in Models : Holds(A, l)
      BY <1>3, <3>1 DEF Satisfies
    <3> QED BY <1>1, <1>3, <2>1, <3>1, <3>2, <3>3, <3>4, <3>5, <3>6, GrownTrail,
               RootReasons DEF Sound
  <2>5. CASE AddLong(c)
    <3>1. UNCHANGED <<pc, ret, trail, answer>>
      BY <2>5 DEF AddLong
    <3>2. ControlOK'
      BY <1>1, <2>2, <3>1
         DEF Inv, ControlOK, PcOK, Preprocessing, Falsified
    <3> QED BY <1>1, <1>3, <1>4, <2>1, <3>1, <3>2, SameTrail DEF Sound
  <2> QED BY <2>3, <2>4, <2>5 DEF AddClause
<1>6. CASE AddLong(c)
  <2>1. PICK w \in SUBSET Remaining(c) :
          clauses' = clauses \cup {Attached(Remaining(c), w)}
    BY <1>6 DEF AddLong
  <2> DEFINE b == Attached(Remaining(c), w)
  <2>2. b.lits = Remaining(c) /\ b.watch \subseteq b.lits
    BY DEF Attached
  <2>3. UNCHANGED <<pc, ret, trail, answer>> /\ ~Tautology(c)
    BY <1>6 DEF AddLong
  <2>4. \A d \in DB' : d \in DB \/ d = b
    BY <2>1 DEF DB
  <2>5. \A d \in clauses' : d \in clauses \/ d = b
    BY <2>1
  <2> HIDE DEF b
  <2>6. ~Tautology(b.lits) /\ b.lits \in Clause
    BY <1>2, <2>2, <2>3 DEF Tautology
  <2>7. ControlOK'
    BY <1>1, <2>2, <2>3, <2>4, <2>5, <2>6
       DEF Inv, ControlOK, PcOK, DataOK, Preprocessing, Falsified, Tautology
  <2>8. \A A \in Models : \A d \in DB' : Satisfies(A, d.lits)
    BY <1>3, <2>2, <2>4 DEF Sound
  <2> QED BY <1>1, <1>3, <1>4, <2>3, <2>7, <2>8, SameTrail DEF Sound
<1> QED BY <1>5, <1>6 DEF AddClause, AddNothing, AddEmpty, AddUnit

LEMMA ReadClauseStep == Inv /\ ReadClause => Inv'
<1> SUFFICES ASSUME Inv, ReadClause PROVE Inv' OBVIOUS
<1>1. input \in Seq(Clause) /\ input # <<>> /\ input' = Tail(input)
  BY DEF ReadClause, Inv, ControlOK, DataOK
<1>2. /\ Head(input) \in Clause /\ Head(input) = input[1] /\ 1 \in 1..Len(input)
      /\ input' \in Seq(Clause)
      /\ \A i \in 1..Len(input') : /\ input'[i] = input[i + 1]
                                   /\ i + 1 \in 1..Len(input)
  BY <1>1
<1>3. \A A \in Models : /\ Satisfies(A, Head(input))
                        /\ \A i \in 1..Len(input') : Satisfies(A, input'[i])
  BY <1>2 DEF Inv, Sound
<1>4. pc = "parse" /\ AddClause(Head(input)) /\ adding' \subseteq adding
  BY DEF ReadClause
<1>5. UNCHANGED <<run, learnts, decisionLevel, todo, out_learnt,
                  bwdsub_assigns, cur>>
  BY DEF ReadClause
<1> QED BY <1>2, <1>3, <1>4, <1>5, AddClauseSound

LEMMA AddResolventStep == Inv /\ AddResolvent => Inv'
<1> SUFFICES ASSUME Inv, AddResolvent PROVE Inv' OBVIOUS
<1>1. PICK c \in adding : AddClause(c) /\ adding' \subseteq adding
  BY DEF AddResolvent
<1>2. c \in Clause
  BY DEF Inv, ControlOK, DataOK
<1>3. UNCHANGED <<run, learnts, decisionLevel, todo, out_learnt,
                  bwdsub_assigns, cur, input>> /\ pc = "resolve"
  BY DEF AddResolvent
<1>4. input' \in Seq(Clause)
  BY <1>3 DEF Inv, ControlOK, DataOK
<1>5. \A A \in Models : /\ Satisfies(A, c)
                        /\ \A i \in 1..Len(input') : Satisfies(A, input'[i])
  BY <1>3 DEF Inv, Sound
<1> QED BY <1>1, <1>2, <1>3, <1>4, <1>5, AddClauseSound

-----------------------------------------------------------------------------
(* Propagation. *)

\* What the steps of propagate() and of the search leave alone.
Rest == <<run, input, simpVars, outVars>>

LEMMA PropagateNextStep == Inv /\ PropagateNext /\ UNCHANGED Rest => Inv'
<1> SUFFICES ASSUME Inv, PropagateNext, UNCHANGED Rest PROVE Inv' OBVIOUS
<1>1. UNCHANGED <<run, clauses, learnts, trail, decisionLevel, adding, input,
                  cur, out_learnt, ret, bwdsub_assigns, pc, answer>>
  BY DEF PropagateNext, Rest, dbVars, simpVars, outVars
<1>2. pc = "propagate" /\ todo' \subseteq DB
  BY DEF PropagateNext
<1>3. DB' = DB
  BY <1>1 DEF DB
<1>4. ControlOK'
  BY <1>1, <1>2, <1>3 DEF Inv, ControlOK, PcOK, DataOK, Preprocessing,
                          Falsified, Tautology
<1>5. \A A \in Models : Sound(A)
  BY DEF Inv
<1> QED BY <1>1, <1>2, <1>3, <1>4, <1>5, SameTrail DEF Sound

LEMMA SkipClauseStep == Inv /\ SkipClause /\ UNCHANGED Rest => Inv'
<1> SUFFICES ASSUME Inv, SkipClause, UNCHANGED Rest PROVE Inv' OBVIOUS
<1>1. UNCHANGED <<run, clauses, learnts, trail, decisionLevel, adding, input,
                  cur, out_learnt, ret, bwdsub_assigns, pc, answer>>
  BY DEF SkipClause, Rest, dbVars, trailVars, simpVars, outVars
<1>2. pc = "propagate" /\ todo' \subseteq todo
  BY DEF SkipClause
<1>3. DB' = DB
  BY <1>1 DEF DB
<1>4. ControlOK'
  BY <1>1, <1>2, <1>3 DEF Inv, ControlOK, PcOK, DataOK, Preprocessing,
                          Falsified, Tautology
<1>5. \A A \in Models : Sound(A)
  BY DEF Inv
<1> QED BY <1>1, <1>2, <1>3, <1>4, <1>5, SameTrail DEF Sound

\* A clause is watched elsewhere, and keeps its literals.
LEMMA MoveWatchStep == Inv /\ MoveWatch /\ UNCHANGED Rest => Inv'
<1> SUFFICES ASSUME Inv, MoveWatch, UNCHANGED Rest PROVE Inv' OBVIOUS
<1>1. UNCHANGED <<run, trail, decisionLevel, adding, input, cur, out_learnt,
                  ret, bwdsub_assigns, pc, answer>>
  BY DEF MoveWatch, Rest, trailVars, simpVars, outVars
<1>2. pc = "propagate"
  BY DEF MoveWatch
<1>3. PICK c \in todo : \E o \in c.watch, l \in c.lits :
        /\ clauses' = Rewatch(clauses, c, Attached(c.lits, {o, l}))
        /\ learnts' = Rewatch(learnts, c, Attached(c.lits, {o, l}))
        /\ todo' = todo \ {c}
  BY DEF MoveWatch
<1>4. PICK o \in c.watch, l \in c.lits :
        /\ clauses' = Rewatch(clauses, c, Attached(c.lits, {o, l}))
        /\ learnts' = Rewatch(learnts, c, Attached(c.lits, {o, l}))
        /\ todo' = todo \ {c}
  BY <1>3
<1> DEFINE b == Attached(c.lits, {o, l})
<1>5. /\ b.lits = c.lits /\ b.watch \subseteq b.lits
      /\ c \in DB /\ todo \subseteq DB
  BY DEF Attached, Inv, ControlOK, DataOK
<1> HIDE DEF b
<1>6. /\ clauses' = (IF c \in clauses THEN (clauses \ {c}) \cup {b} ELSE clauses)
      /\ learnts' = (IF c \in learnts THEN (learnts \ {c}) \cup {b} ELSE learnts)
  BY <1>4 DEF Rewatch, b
<1>7. /\ \A d \in DB' : d \in DB \/ d = b
      /\ \A d \in clauses' : d \in clauses \/ (d = b /\ c \in clauses)
      /\ b \in DB' /\ DB \ {c} \subseteq DB'
  BY <1>5, <1>6 DEF DB
<1>8. todo' \subseteq DB'
  BY <1>4, <1>5, <1>7
<1>9. DataOK'
  BY <1>1, <1>5, <1>7, <1>8 DEF Inv, ControlOK, DataOK, Tautology
<1>10. ControlOK'
  BY <1>1, <1>2, <1>9
     DEF Inv, ControlOK, PcOK, Preprocessing, Falsified
<1>11. \A A \in Models : Sound(A)
  BY DEF Inv
<1>12. \A A \in Models : \A d \in DB' : Satisfies(A, d.lits)
  BY <1>5, <1>7, <1>11 DEF Sound
<1>13. \A d \in DB : \E e \in DB' : e.lits = d.lits
  BY <1>5, <1>7
<1> QED BY <1>1, <1>2, <1>10, <1>11, <1>12, <1>13, SameTrail DEF Sound

\* The other literals of the clause are false, so A satisfies the one assigned.
LEMMA EnqueueUnitStep == Inv /\ EnqueueUnit /\ UNCHANGED Rest => Inv'
<1> SUFFICES ASSUME Inv, EnqueueUnit, UNCHANGED Rest PROVE Inv' OBVIOUS
<1>1. UNCHANGED <<run, clauses, learnts, decisionLevel, adding, input, cur,
                  out_learnt, ret, bwdsub_assigns, pc, answer>>
  BY DEF EnqueueUnit, Rest, dbVars, simpVars, outVars
<1>2. pc = "propagate"
  BY DEF EnqueueUnit
<1>3. PICK c \in todo : \E o \in c.watch :
        /\ Undef(o) /\ \A l \in c.lits \ {o} : False(l)
        /\ trail' = Append(trail, Entry(o, decisionLevel, c.lits))
        /\ todo' = todo \ {c}
  BY DEF EnqueueUnit
<1>4. PICK o \in c.watch :
        /\ Undef(o) /\ \A l \in c.lits \ {o} : False(l)
        /\ trail' = Append(trail, Entry(o, decisionLevel, c.lits))
        /\ todo' = todo \ {c}
  BY <1>3
<1>5. o \in c.lits /\ o \in Lit /\ c.lits \in Clause /\ c \in DB
  BY DEF Inv, ControlOK, DataOK, Clause
<1>6. DB' = DB
  BY <1>1 DEF DB
<1>7. ControlOK'
  BY <1>1, <1>2, <1>4, <1>6
     DEF Inv, ControlOK, PcOK, DataOK, Preprocessing, Falsified, Tautology
<1>8. decisionLevel \in Nat
  BY DEF Inv, TrailOK, TrailIs
<1>9. ASSUME NEW A \in Models, decisionLevel = 0 PROVE Holds(A, o)
  <2>1. \A l \in c.lits \ {o} : ~Holds(A, l)
    BY <1>4, <1>5, <1>9, RootFalse DEF Clause
  <2>2. Satisfies(A, c.lits)
    BY <1>5 DEF Inv, Sound
  <2> QED BY <2>1, <2>2 DEF Satisfies
<1>10. \A A \in Models : Sound(A) /\ Satisfies(A, c.lits)
  BY <1>5 DEF Inv, Sound
<1>11. decisionLevel' \in Nat /\ decisionLevel' >= decisionLevel
  BY <1>1, <1>8
<1>12. trail' = Append(trail, Entry(o, decisionLevel', c.lits))
  BY <1>1, <1>4
<1> QED BY <1>1, <1>2, <1>4, <1>5, <1>6, <1>7, <1>9, <1>10, <1>11, <1>12,
           GrownTrail DEF Sound, Inv, ReasonsHeld

LEMMA ConflictFoundStep == Inv /\ ConflictFound /\ UNCHANGED Rest => Inv'
<1> SUFFICES ASSUME Inv, ConflictFound, UNCHANGED Rest PROVE Inv' OBVIOUS
<1>1. UNCHANGED <<run, clauses, learnts, trail, decisionLevel, adding, input,
                  cur, ret, bwdsub_assigns, answer>>
  BY DEF ConflictFound, Rest, dbVars, simpVars, outVars
<1>2. pc = "propagate" /\ pc' = "conflict" /\ todo' = {}
  BY DEF ConflictFound
<1>3. PICK c \in todo : (\A l \in c.lits : False(l)) /\ out_learnt' = c.lits
  BY DEF ConflictFound
<1>4. c \in DB /\ c.lits \in Clause
  BY DEF Inv, ControlOK, DataOK
<1>5. DB' = DB
  BY <1>1 DEF DB
<1>6. \A l \in out_learnt' : False(l)'
  BY <1>1, <1>3 DEF False, True
<1>7. ControlOK'
  BY <1>1, <1>2, <1>3, <1>4, <1>5, <1>6
     DEF Inv, ControlOK, PcOK, DataOK, Preprocessing, Falsified, Tautology
<1>8. \A A \in Models : Sound(A) /\ Satisfies(A, out_learnt')
  BY <1>3, <1>4 DEF Inv, Sound
<1> QED BY <1>1, <1>2, <1>5, <1>7, <1>8, SameTrail DEF Sound

\* A clause that is false at level 0 has no model.
LEMMA ConflictAtRootStep == Inv /\ ConflictAtRoot => Inv'
<1> SUFFICES ASSUME Inv, ConflictAtRoot PROVE Inv' OBVIOUS
<1>1. UNCHANGED <<run, dbVars, clauses, learnts, trail, decisionLevel, adding,
                  input, cur, ret, bwdsub_assigns, out_learnt, todo>>
  BY DEF ConflictAtRoot, dbVars, trailVars, simpVars
<1>2. pc = "conflict" /\ decisionLevel = 0 /\ pc' = "done"
  BY DEF ConflictAtRoot
<1>3. DB' = DB
  BY <1>1 DEF DB
<1>4. PcOK' /\ DataOK'
  BY <1>1, <1>2, <1>3
     DEF Inv, ControlOK, PcOK, DataOK, Preprocessing, Tautology
<1>5. Models = {}
  <2> SUFFICES ASSUME NEW A \in Models PROVE FALSE
    OBVIOUS
  <2>1. Satisfies(A, out_learnt)
    BY <1>2 DEF Inv, Sound
  <2>2. \A l \in out_learnt : False(l) /\ l \in Lit
    BY <1>2 DEF Inv, ControlOK, Falsified, DataOK, Clause
  <2> QED BY <1>2, <2>1, <2>2, RootFalse DEF Satisfies
<1> QED BY <1>1, <1>2, <1>4, <1>5, QuietInv

-----------------------------------------------------------------------------
(* The search. *)

LEMMA CutStep ==
  ASSUME Inv, (Restart /\ UNCHANGED Rest) \/ StoreModel
  PROVE  Inv'
<1>1. UNCHANGED <<run, dbVars, adding, input, cur, answer, todo, out_learnt,
                  bwdsub_assigns>>
  BY DEF Restart, StoreModel, Rest, simpVars, outVars
<1>2. /\ pc \in {"search", "model"} /\ decisionLevel' = 0
      /\ pc' \in {"propagate", "interrupted", "extend"}
      /\ ret' \in {"search", ret}
  BY DEF Restart, StoreModel
<1>3. PICK n \in 0..Len(trail) : CutsTo(n, 0) /\ trail' = SubSeq(trail, 1, n)
  BY DEF Restart, StoreModel
<1>4. DB' = DB
  BY <1>1 DEF DB, dbVars
<1>5. PcOK' /\ DataOK'
  BY <1>1, <1>2, <1>4
     DEF Inv, ControlOK, PcOK, DataOK, Preprocessing, Tautology, dbVars
<1> QED BY <1>1, <1>2, <1>3, <1>5, CutInv

\* Saved or forced, the phase of a decision is one of the two literals of its
\* variable.
LEMMA PhaseIsLiteral ==
  ASSUME NEW v \in Variable
  PROVE  Phase(v) \in {v, -v} /\ Phase(v) \in Lit
<1>1. Phase(v) \in {v, -v}
  BY DEF Phase
<1>2. v \in Lit /\ -v \in Lit
  BY SolverAssumption DEF Variable, Lit
<1> QED BY <1>1, <1>2

\* Clauses may go that are satisfied at level 0, or not the reason of a literal.
LEMMA DecideStep ==
  ASSUME Inv, Decide(Variable \ eliminated), UNCHANGED Rest
  PROVE  Inv'
<1>1. UNCHANGED <<run, adding, input, cur, answer, todo, out_learnt,
                  bwdsub_assigns>>
  BY DEF Decide, Rest, simpVars, outVars
<1>2. /\ pc = "search" /\ pc' = "propagate" /\ ret' = "search"
      /\ decisionLevel' = decisionLevel + 1
  BY DEF Decide
<1>3. PICK simplify \in BOOLEAN, gone \in SUBSET {c \in learnts : Removable(c)} :
        /\ simplify => MaySimplify
        /\ learnts' = (IF simplify THEN Unsatisfied(learnts) ELSE learnts) \ gone
        /\ clauses' = (IF simplify /\ remove_satisfied
                      THEN Unsatisfied(clauses) ELSE clauses)
  BY DEF Decide
<1>4. PICK v \in Variable :
        /\ Undef(v)
        /\ trail' = Append(trail, Entry(Phase(v), decisionLevel + 1, NoReason))
  BY DEF Decide
<1> DEFINE l == Phase(v)
<1>5. l \in Lit /\ Undef(l) /\ NoReason \in Clause
  <2>1. v \in Lit /\ -v \in Lit /\ -(-v) = v
    BY SolverAssumption DEF Variable, Lit
  <2>2. l \in {v, -v}
    BY PhaseIsLiteral
  <2> QED BY <1>4, <2>1, <2>2 DEF Undef, False, NoReason, Clause
<1>6. DB' \subseteq DB /\ clauses' \subseteq clauses
  BY <1>3 DEF Unsatisfied, DB
<1>7. decisionLevel \in Nat
  BY DEF Inv, TrailOK, TrailIs
<1>8. ControlOK'
  BY <1>1, <1>2, <1>6
     DEF Inv, ControlOK, PcOK, DataOK, Preprocessing, Falsified, Tautology
<1>9. ASSUME NEW i \in 1..Len(trail), trail[i].level > 0,
             trail[i].from # NoReason
      PROVE  \E d \in DB' : d.lits = trail[i].from
  <2>1. ~simplify
    BY <1>3, <1>9, RootReasons DEF MaySimplify
  <2>2. PICK d \in DB : d.lits = trail[i].from
    BY <1>9 DEF Inv, ReasonsHeld
  <2>3. d \notin gone
    BY <2>2 DEF Removable
  <2> QED BY <1>3, <2>1, <2>2, <2>3 DEF DB
<1>10. \A A \in Models : Sound(A) /\ \A d \in DB' : Satisfies(A, d.lits)
  BY <1>6 DEF Inv, Sound
<1>11. trail' = Append(trail, Entry(l, decisionLevel', NoReason))
  BY <1>2, <1>4
<1>12. decisionLevel' \in Nat /\ decisionLevel' >= decisionLevel
       /\ decisionLevel' # 0
  BY <1>2, <1>7
<1> HIDE DEF l
<1> QED BY <1>1, <1>2, <1>5, <1>8, <1>9, <1>10, <1>11, <1>12, GrownTrail
        DEF Sound

-----------------------------------------------------------------------------
(* Conflict analysis. *)

\* What is left of a satisfied clause of false literals above level 0.
LEMMA AboveRootHolds ==
  ASSUME Inv, NEW A \in Models, NEW c \in Clause, \A l \in c : False(l),
         Satisfies(A, c)
  PROVE  Satisfies(A, AboveRoot(c))
<1>1. \A l \in c : LevelIs(l, 0) => ~Holds(A, l)
  BY RootFalse DEF Clause
<1> QED BY <1>1 DEF Satisfies, AboveRoot

LEMMA StartAnalyzeStep == Inv /\ StartAnalyze /\ UNCHANGED Rest => Inv'
<1> SUFFICES ASSUME Inv, StartAnalyze, UNCHANGED Rest PROVE Inv' OBVIOUS
<1>1. UNCHANGED <<run, clauses, learnts, trail, decisionLevel, adding, input,
                  cur, ret, bwdsub_assigns, answer, todo>>
  BY DEF StartAnalyze, Rest, dbVars, trailVars, simpVars, outVars
<1>2. /\ pc = "conflict" /\ pc' = "analyze" /\ decisionLevel > 0
      /\ out_learnt' = AboveRoot(out_learnt)
  BY DEF StartAnalyze
<1>3. DB' = DB
  BY <1>1 DEF DB
<1>4. \A l \in out_learnt : False(l)
  BY <1>2 DEF Inv, ControlOK, Falsified
<1>5. out_learnt' \subseteq out_learnt /\ out_learnt \in Clause
  BY <1>2 DEF AboveRoot, Inv, ControlOK, DataOK
<1>6. ControlOK'
  <2>1. \A l \in out_learnt' : False(l)'
    BY <1>1, <1>4, <1>5 DEF False, True
  <2> QED BY <1>1, <1>2, <1>3, <1>5, <2>1
          DEF Inv, ControlOK, PcOK, DataOK, Preprocessing, Falsified,
              Tautology, Clause
<1>7. ASSUME NEW A \in Models
      PROVE  Sound(A) /\ Satisfies(A, out_learnt')
  <2>1. Sound(A) /\ Satisfies(A, out_learnt)
    BY <1>2 DEF Inv, Sound
  <2>2. Satisfies(A, AboveRoot(out_learnt))
    BY <1>4, <1>5, <2>1, AboveRootHolds
  <2> QED BY <1>2, <2>1, <2>2
<1> QED BY <1>1, <1>3, <1>6, <1>7, SameTrail DEF Sound

\* The other literals of a reason are false.
LEMMA ReasonFalse ==
  ASSUME Inv, NEW i \in 1..Len(trail), trail[i].from # NoReason
  PROVE  \A l \in trail[i].from \ {trail[i].lit} : False(l)
<1>1. \A l \in trail[i].from \ {trail[i].lit} :
        \E j \in 1..(i - 1) : trail[j].lit = -l
  BY DEF Inv, TrailOK, TrailIs, Reasoned
<1>2. Len(trail) \in Nat
  BY DEF Inv, TrailOK, TrailIs
<1>3. \A j \in 1..(i - 1) : j \in 1..Len(trail)
  BY <1>2
<1> QED BY <1>1, <1>3 DEF False, True

LEMMA ResolveStep == Inv /\ Resolve /\ UNCHANGED Rest => Inv'
<1> SUFFICES ASSUME Inv, Resolve, UNCHANGED Rest PROVE Inv' OBVIOUS
<1>1. UNCHANGED <<run, clauses, learnts, trail, decisionLevel, adding, input,
                  cur, ret, bwdsub_assigns, answer, todo, pc>>
  BY DEF Resolve, Rest, dbVars, trailVars, simpVars, outVars
<1>2. pc = "analyze"
  BY DEF Resolve
<1>3. PICK i \in 1..Len(trail) :
        /\ -trail[i].lit \in out_learnt
        /\ trail[i].from # NoReason
        /\ out_learnt' = (out_learnt \ {-trail[i].lit})
                          \cup AboveRoot(trail[i].from \ {trail[i].lit})
  BY DEF Resolve
<1> DEFINE x == trail[i].lit
           r == trail[i].from
<1>4. x \in Lit /\ r \in Clause /\ x \in r
  BY <1>3, TrailEntry DEF Inv, TrailOK, TrailIs, Reasoned
<1>5. \A l \in r \ {x} : False(l)
  BY <1>3, ReasonFalse
<1>6. DB' = DB
  BY <1>1 DEF DB
<1> HIDE DEF x, r
<1>7. out_learnt' = (out_learnt \ {-x}) \cup AboveRoot(r \ {x})
  BY <1>3 DEF x, r
<1>8. \A l \in out_learnt' : False(l)
  BY <1>2, <1>5, <1>7 DEF AboveRoot, Inv, ControlOK, Falsified
<1>9. ControlOK'
  <2>1. \A l \in out_learnt' : False(l)'
    BY <1>1, <1>8 DEF False, True
  <2>2. out_learnt' \in Clause
    BY <1>4, <1>7 DEF AboveRoot, Inv, ControlOK, DataOK, Clause
  <2> QED BY <1>1, <1>2, <1>6, <2>1, <2>2
          DEF Inv, ControlOK, PcOK, DataOK, Preprocessing, Falsified,
              Tautology
<1>10. ASSUME NEW A \in Models
       PROVE  Sound(A) /\ Satisfies(A, out_learnt')
  <2>1. Sound(A) /\ Satisfies(A, out_learnt) /\ Satisfies(A, r)
    BY <1>2, <1>3 DEF Inv, Sound, SoundTrail, r
  <2>2. CASE Holds(A, x)
    <3>1. ~Holds(A, -x)
      BY <1>4, <2>2, HoldsNeg, ModelIsAssignment
    <3> QED BY <1>7, <2>1, <3>1 DEF Satisfies
  <2>3. CASE ~Holds(A, x)
    <3>1. Satisfies(A, r \ {x}) /\ r \ {x} \in Clause
      BY <1>4, <2>1, <2>3 DEF Satisfies, Clause
    <3>2. Satisfies(A, AboveRoot(r \ {x}))
      BY <1>5, <3>1, AboveRootHolds
    <3> QED BY <1>7, <2>1, <3>2 DEF Satisfies
  <2> QED BY <2>2, <2>3
<1> QED BY <1>1, <1>6, <1>9, <1>10, SameTrail DEF Sound

\* The redundant literals support one another.
LEMMA RedundantSupported == Supported(Redundant)
  BY Zenon DEF Supported, Redundant

\* A model that falsifies the minimised clause falsifies the redundant literals:
\* of those it satisfies, the one falsified first on the trail has a reason
\* that it would not satisfy.
LEMMA RedundantFalse ==
  ASSUME Inv, NEW A \in Models, NEW l \in Redundant,
         \A q \in out_learnt \ Redundant : ~Holds(A, q)
  PROVE  ~Holds(A, l)
<1> SUFFICES ASSUME Holds(A, l) PROVE FALSE
  OBVIOUS
<1> DEFINE T == {i \in 1..Len(trail) : -trail[i].lit \in Redundant
                                      /\ Holds(A, -trail[i].lit)}
<1>1. Len(trail) \in Nat /\ T \subseteq Nat
  BY DEF Inv, TrailOK, TrailIs
<1>2. \A i \in 1..Len(trail) : trail[i].lit \in Lit
  BY TrailEntry DEF Inv
<1>3. \A q \in Redundant : q \in Lit /\ -(-q) = q
  <2>1. \A q \in Redundant : \E i \in 1..Len(trail) : q = -trail[i].lit
    BY DEF Redundant
  <2> QED BY <1>2, <2>1, LitNeg
<1>4. \E i \in 1..Len(trail) : trail[i].lit = -l
  BY RedundantSupported DEF Supported
<1>5. T # {}
  BY <1>3, <1>4
<1>6. PICK i \in T : \A j \in T : <<j, i>> \notin OpToRel(<, Nat)
  BY <1>1, <1>5, NatLessThanWellFounded, WFMin
<1>7. \A j \in T : ~(j < i)
  BY <1>1, <1>6 DEF OpToRel
<1> DEFINE x == trail[i].lit
<1>8. i \in 1..Len(trail) /\ -x \in Redundant /\ Holds(A, -x) /\ x \in Lit
  BY <1>2
<1> HIDE DEF T
<1>9. /\ trail[i].from # NoReason
      /\ \A q \in trail[i].from \ {x} :
           LevelIs(q, 0) \/ q \in out_learnt \/ q \in Redundant
  <2>1. PICK j \in 1..Len(trail) :
          /\ trail[j].lit = -(-x) /\ trail[j].from # NoReason
          /\ \A q \in trail[j].from \ {-(-x)} :
               LevelIs(q, 0) \/ q \in out_learnt \/ q \in Redundant
    BY <1>8, RedundantSupported DEF Supported
  <2>2. -(-x) = x
    BY <1>8, LitNeg
  <2>3. j = i
    BY <1>8, <2>1, <2>2 DEF Inv, TrailOK, TrailIs, Distinct
  <2> QED BY <2>1, <2>2, <2>3
<1>10. Satisfies(A, trail[i].from) /\ trail[i].from \in Clause
  BY <1>8, <1>9, TrailEntry DEF Inv, Sound, SoundTrail
<1>11. ~Holds(A, x)
  BY <1>8, HoldsNeg, ModelIsAssignment
<1>12. PICK q \in trail[i].from \ {x} : Holds(A, q)
  BY <1>10, <1>11 DEF Satisfies
<1>13. PICK j \in 1..(i - 1) : trail[j].lit = -q
  BY <1>8, <1>9 DEF Inv, TrailOK, TrailIs, Reasoned
<1>14. j \in 1..Len(trail) /\ j < i
  BY <1>1, <1>8, <1>13
<1>15. q \in Lit /\ -(-q) = q /\ False(q)
  BY <1>10, <1>13, <1>14, LitNeg DEF Clause, False, True
<1>16. ~LevelIs(q, 0)
  BY <1>12, <1>15, RootFalse
<1>17. q \in Redundant
  BY <1>9, <1>12, <1>16
<1>18. j \in T
  BY <1>12, <1>13, <1>14, <1>15, <1>17 DEF T
<1> QED BY <1>7, <1>14, <1>18

\* The clause learnt is part of the clause analysed, and follows from the file.
LEMMA LearntHolds ==
  ASSUME Inv, pc = "analyze", NEW u \in out_learnt
  PROVE  LET c == BinaryMinimized(u, Minimized(u)) IN
         /\ u \in c /\ c \subseteq out_learnt
         /\ \A A \in Models : Satisfies(A, c)
<1> DEFINE m == Minimized(u)
           c == BinaryMinimized(u, m)
<1>1. u \in m /\ m \subseteq out_learnt
  BY DEF Minimized
<1>2. u \in c /\ c \subseteq m
  BY <1>1 DEF BinaryMinimized
<1>3. ASSUME NEW A \in Models PROVE Satisfies(A, m)
  <2> SUFFICES ASSUME \A q \in m : ~Holds(A, q) PROVE FALSE
    BY DEF Satisfies
  <2>1. \A q \in out_learnt \ Redundant : ~Holds(A, q)
    BY DEF Minimized
  <2>2. \A q \in Redundant : ~Holds(A, q)
    BY <2>1, RedundantFalse
  <2>3. Satisfies(A, out_learnt)
    BY DEF Inv, Sound
  <2> QED BY <2>1, <2>2, <2>3 DEF Satisfies
<1>4. ASSUME NEW A \in Models PROVE Satisfies(A, c)
  <2> SUFFICES ASSUME \A q \in c : ~Holds(A, q) PROVE FALSE
    BY DEF Satisfies
  <2>1. PICK l \in m : Holds(A, l)
    BY <1>3 DEF Satisfies
  <2>2. l \notin c
    BY <2>1
  <2>3. PICK d \in DB : d.lits = {u, -l}
    BY <1>1, <2>1, <2>2 DEF BinaryMinimized
  <2>4. l \in Lit
    BY <1>1, <2>1 DEF Inv, ControlOK, DataOK, Clause
  <2>5. ~Holds(A, -l) /\ ~Holds(A, u)
    BY <1>2, <2>1, <2>4, HoldsNeg, ModelIsAssignment
  <2>6. Satisfies(A, d.lits)
    BY DEF Inv, Sound
  <2> QED BY <2>3, <2>5, <2>6 DEF Satisfies
<1> QED BY <1>1, <1>2, <1>4

\* Where the literals of a learnt clause lie on the trail: its asserting literal
\* is on the part cut off, and the others are false on the part kept.
LEMMA LearntPlaces ==
  ASSUME Inv, pc = "analyze", NEW u \in out_learnt, NEW c,
         u \in c, c \subseteq out_learnt,
         AtLevel(out_learnt, decisionLevel) = {u},
         NEW k \in 0..decisionLevel, IsBackjump(c \ {u}, k),
         NEW n \in 0..Len(trail), CutsTo(n, k)
  PROVE  /\ k < decisionLevel
         /\ \A i \in 1..n : trail[i].lit # u /\ trail[i].lit # -u
         /\ \A x \in c \ {u} : \E j \in 1..n : trail[j].lit = -x
         /\ k = 0 => \A x \in c \ {u} : LevelIs(x, 0)
<1>1. decisionLevel \in Nat /\ decisionLevel > 0 /\ Len(trail) \in Nat
  BY DEF Inv, ControlOK, PcOK, TrailOK, TrailIs
<1>2. k \in Nat /\ n \in Nat /\ n <= Len(trail) /\ k <= decisionLevel
  BY <1>1
<1>3. \A x \in out_learnt : x \in Lit /\ False(x)
  BY DEF Inv, ControlOK, Falsified, DataOK, Clause
<1>4. k # decisionLevel
  <2> SUFFICES ASSUME k = decisionLevel PROVE FALSE
    OBVIOUS
  <2>1. PICK x \in c \ {u} : LevelIs(x, k)
    BY <1>1 DEF IsBackjump, AtLevel
  <2> QED BY <2>1 DEF AtLevel
<1>5. ASSUME NEW i \in 1..n PROVE trail[i].lit # u /\ trail[i].lit # -u
  <2> SUFFICES ASSUME trail[i].lit \in {u, -u} PROVE FALSE
    OBVIOUS
  <2>1. LevelIs(u, decisionLevel)
    BY DEF AtLevel
  <2>2. PICK j \in 1..Len(trail) :
          trail[j].lit \in {u, -u} /\ trail[j].level = decisionLevel
    BY <2>1 DEF LevelIs
  <2>3. i \in 1..Len(trail)
    BY <1>1, <1>2
  <2>4. -(-u) = u
    BY <1>3, LitNeg
  <2>5. i = j
    BY <2>2, <2>3, <2>4 DEF Inv, TrailOK, TrailIs, Distinct
  <2>6. trail[i].level <= k
    BY DEF CutsTo
  <2> QED BY <1>1, <1>2, <1>4, <2>2, <2>5, <2>6
<1>6. ASSUME NEW x \in c \ {u}
      PROVE  \E j \in 1..n : trail[j].lit = -x /\ trail[j].level <= k
  <2>1. PICK j \in 1..Len(trail) : trail[j].lit = -x
    BY <1>3 DEF False, True
  <2>2. trail[j].level \in 0..decisionLevel
    BY TrailEntry DEF Inv
  <2>3. x \in AtLevel(c \ {u}, trail[j].level)
    BY <2>1 DEF AtLevel, LevelIs
  <2>4. ~(trail[j].level \in (k + 1)..decisionLevel)
    BY <2>3 DEF IsBackjump
  <2>5. trail[j].level <= k
    BY <1>1, <1>2, <2>2, <2>4
  <2>6. j \in 1..n
    <3> SUFFICES ASSUME ~(j <= n) PROVE FALSE
      BY <1>1, <1>2
    <3>1. n + 1 \in 1..Len(trail) /\ n + 1 <= j
      BY <1>1, <1>2
    <3>2. trail[n + 1].level > k
      BY <1>1, <1>2, <3>1 DEF CutsTo
    <3>3. trail[n + 1].level <= trail[j].level
      BY <3>1 DEF Inv, TrailOK, TrailIs, Grows
    <3>4. trail[n + 1].level \in Nat
      BY <3>1, TrailEntry DEF Inv
    <3> QED BY <1>2, <2>2, <2>5, <3>2, <3>3, <3>4
  <2> QED BY <2>1, <2>5, <2>6
<1>7. ASSUME NEW x \in c \ {u}, k = 0 PROVE LevelIs(x, 0)
  <2>1. PICK j \in 1..n : trail[j].lit = -x /\ trail[j].level <= k
    BY <1>6
  <2>2. j \in 1..Len(trail)
    BY <1>1, <1>2
  <2>3. trail[j].level = 0
    BY <1>7, <2>1, <2>2, TrailEntry DEF Inv
  <2> QED BY <2>1, <2>2, <2>3 DEF LevelIs
<1>8. k < decisionLevel
  BY <1>1, <1>2, <1>4
<1> QED BY <1>5, <1>6, <1>7, <1>8

LEMMA LearnStep == Inv /\ Learn /\ UNCHANGED Rest => Inv'
<1> SUFFICES ASSUME Inv, Learn, UNCHANGED Rest PROVE Inv' OBVIOUS
<1>1. UNCHANGED <<run, clauses, adding, input, cur, bwdsub_assigns, answer,
                  todo>>
  BY DEF Learn, Rest, simpVars, outVars
<1>2. pc = "analyze" /\ pc' = "propagate" /\ ret' = "search"
  BY DEF Learn
<1>3. PICK u \in out_learnt, k \in 0..decisionLevel, n \in 0..Len(trail) :
        /\ AtLevel(out_learnt, decisionLevel) = {u}
        /\ LET c == BinaryMinimized(u, Minimized(u)) IN
             /\ IsBackjump(c \ {u}, k) /\ CutsTo(n, k)
             /\ trail' = Append(SubSeq(trail, 1, n),
                                Entry(u, k, IF c = {u} THEN NoReason ELSE c))
             /\ IF c = {u} THEN UNCHANGED learnts
                ELSE \E l \in Second(c, u, k) :
                       learnts' = learnts \cup {Attached(c, {u, l})}
             /\ out_learnt' = c
        /\ decisionLevel' = k
  BY DEF Learn
<1> DEFINE c == BinaryMinimized(u, Minimized(u))
           r == IF c = {u} THEN NoReason ELSE c
           t == SubSeq(trail, 1, n)
<1>4. u \in c /\ c \subseteq out_learnt /\ \A A \in Models : Satisfies(A, c)
  BY <1>2, LearntHolds
<1>5. /\ IsBackjump(c \ {u}, k) /\ CutsTo(n, k)
      /\ trail' = Append(t, Entry(u, decisionLevel', r))
      /\ c = {u} => UNCHANGED learnts
      /\ c # {u} => \E l \in Second(c, u, k) :
                      learnts' = learnts \cup {Attached(c, {u, l})}
      /\ out_learnt' = c
  BY <1>3
<1> HIDE DEF c
<1>6. /\ c \in Clause /\ u \in Lit /\ r \in Clause
      /\ \A x \in c : x \in Lit /\ False(x)
  BY <1>2, <1>4 DEF Inv, ControlOK, Falsified, DataOK, Clause, NoReason
<1>7. /\ k < decisionLevel
      /\ \A i \in 1..n : trail[i].lit # u /\ trail[i].lit # -u
      /\ \A x \in c \ {u} : \E j \in 1..n : trail[j].lit = -x
      /\ k = 0 => \A x \in c \ {u} : LevelIs(x, 0)
  BY <1>2, <1>3, <1>4, <1>5, LearntPlaces
<1>8. /\ \A d \in DB' : d \in DB \/ (d.lits = c /\ d.watch \subseteq c)
      /\ DB \subseteq DB' /\ (c # {u} => \E d \in DB' : d.lits = c)
  <2>1. CASE c = {u}
    <3>1. DB' = DB
      BY <1>1, <1>5, <2>1 DEF DB
    <3> QED BY <2>1, <3>1
  <2>2. CASE c # {u}
    <3>1. PICK l \in c : learnts' = learnts \cup {Attached(c, {u, l})}
      BY <1>5, <2>2 DEF Second, AtLevel
    <3> DEFINE b == Attached(c, {u, l})
    <3>2. b.lits = c /\ b.watch \subseteq c
      BY <1>4 DEF Attached
    <3> HIDE DEF b
    <3>3. DB' = DB \cup {b}
      BY <1>1, <3>1 DEF DB, b
    <3> QED BY <3>2, <3>3
  <2> QED BY <2>1, <2>2
<1>9. ControlOK'
  <2>1. todo = {}
    BY <1>2 DEF Inv, ControlOK, PcOK
  <2> QED BY <1>1, <1>2, <1>5, <1>6, <1>8, <2>1
          DEF Inv, ControlOK, PcOK, DataOK, Preprocessing, Falsified, Tautology
<1>10. k \in Nat /\ decisionLevel' = k /\ trail \in Seq(EntryType)
  BY <1>3 DEF Inv, TrailOK, TrailIs
<1>11. /\ Len(t) = n /\ \A i \in 1..n : t[i] = trail[i] /\ i \in 1..Len(trail)
  BY <1>10, CutFacts
<1>12. TrailIs(t, k)
  BY <1>5, <1>10, TrailCut DEF Inv
<1> HIDE DEF t
<1>13. ASSUME NEW A \in Models
       PROVE  /\ Sound(A) /\ Satisfies(A, c) /\ SoundTrail(A, t)
              /\ \A d \in DB' : Satisfies(A, d.lits)
              /\ k = 0 => Holds(A, u)
  <2>1. Sound(A) /\ Satisfies(A, c)
    BY <1>4 DEF Inv
  <2>2. SoundTrail(A, t)
    BY <1>11, <2>1 DEF Sound, SoundTrail
  <2>3. \A d \in DB' : Satisfies(A, d.lits)
    BY <1>8, <2>1 DEF Sound
  <2>4. ASSUME k = 0 PROVE Holds(A, u)
    <3>1. \A x \in c \ {u} : ~Holds(A, x)
      BY <1>6, <1>7, <2>4, RootFalse
    <3> QED BY <2>1, <3>1 DEF Satisfies
  <2> QED BY <2>1, <2>2, <2>3, <2>4
<1>14. \A i \in 1..Len(t) : t[i].level > 0 /\ t[i].from # NoReason =>
                             \E d \in DB' : d.lits = t[i].from
  BY <1>8, <1>11 DEF Inv, ReasonsHeld
<1>15. r # NoReason =>
         /\ r = c /\ u \in r
         /\ \A x \in r \ {u} : \E j \in 1..Len(t) : t[j].lit = -x
         /\ \E d \in DB' : d.lits = r
  BY <1>4, <1>7, <1>8, <1>11
<1>16. \A i \in 1..Len(t) : t[i].lit # u /\ t[i].lit # -u
  BY <1>7, <1>11
<1> HIDE DEF r
<1> QED BY <1>1, <1>2, <1>5, <1>6, <1>9, <1>10, <1>12, <1>13, <1>14, <1>15,
           <1>16, GrownFrom DEF Sound

-----------------------------------------------------------------------------
LEMMA NextInv == Inv /\ [Next]_vars => Inv'
<1> SUFFICES ASSUME Inv, [Next]_vars PROVE Inv' OBVIOUS
<1>1. CASE Preprocess
  BY <1>1, ReadClauseStep, QuietStep, PopQueueStep, PopAssignStep, RemovalStep,
     StrengthenStep, StrengthenToUnitStep, EliminateStep, AddResolventStep
     DEF Preprocess, Quiet
<1>2. CASE Propagate /\ UNCHANGED <<run, input, simpVars, outVars>>
  BY <1>2, PropagateNextStep, SkipClauseStep, MoveWatchStep, EnqueueUnitStep,
     ConflictFoundStep, ReturnStep DEF Propagate, Rest
<1>3. CASE Search /\ UNCHANGED <<run, input, simpVars, outVars>>
  BY <1>3, StartAnalyzeStep, ResolveStep, LearnStep, CutStep, DecideStep,
     ReturnStep DEF Search, Rest
<1>4. CASE Finish
  BY <1>4, ConflictAtRootStep, CutStep, QuietStep DEF Finish, Quiet
<1>5. CASE Interrupt
  BY <1>5, InterruptStep
<1>6. CASE UNCHANGED vars
  BY <1>6, StutterStep
<1> QED BY <1>1, <1>2, <1>3, <1>4, <1>5, <1>6 DEF Next, Step, Terminated

\* Every clause the solver holds follows from the file, and "UNSATISFIABLE" is
\* printed only of a formula without a model (Solver.cc, SimpSolver.cc).
THEOREM SolverSound == Spec => []Soundness
<1>1. Inv => Soundness
  BY DEF Inv, Sound, Soundness, UnsatSound
<1> QED BY InitInv, NextInv, <1>1, PTL DEF Spec

\* The reason of a literal is a clause the solver still holds, in which the
\* literal is the only one that is not false (reduceDB, litRedundant).
THEOREM ReasonsAreKept == Spec => []ReasonsKept
<1>1. Inv => ReasonsKept
  <2> SUFFICES ASSUME Inv, NEW i \in 1..Len(trail), trail[i].level > 0,
                      trail[i].from # NoReason
               PROVE  /\ \E c \in DB : c.lits = trail[i].from
                      /\ trail[i].lit \in trail[i].from
                      /\ \A l \in trail[i].from \ {trail[i].lit} :
                           \E j \in 1..(i - 1) : trail[j].lit = -l
    BY DEF ReasonsKept
  <2> QED BY DEF Inv, ReasonsHeld, TrailOK, TrailIs, Reasoned
<1> QED BY InitInv, NextInv, <1>1, PTL DEF Spec
=============================================================================
