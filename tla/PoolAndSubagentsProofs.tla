------------------------- MODULE PoolAndSubagentsProofs -------------------------
(***************************************************************************)
(* Proofs about ClaudeSubagents: for any decisions, roles, contexts and    *)
(* bounds, and whatever goes wrong, what a decision is told is true, its   *)
(* input reaches one subagent once and whole, and it is never forgotten.   *)
(*                                                                         *)
(* GroupInv (ClaudeSubagentsInv) is the inductive invariant.  A handler is *)
(* an operator on the host, so most lemmas say that one of these keeps     *)
(* Right, with Served: whatever waits has a side session that will take it *)
(* up.  An action's lemma puts the operators of its handler together.      *)
(*                                                                         *)
(* At the end are the proofs about Pool.                                   *)
(***************************************************************************)
EXTENDS ClaudeSubagentsInv, Pool, NaturalsInduction, WellFoundedInduction, FiniteSetTheorems, TLAPS

\* The order on the naturals as a relation.
LEMMA LessIsRelated == \A x, y \in Nat : x < y => <<x, y>> \in OpToRel(<, Nat)
BY DEF OpToRel

\* Induction on the naturals, for a set.
LEMMA SetInduction ==
    ASSUME NEW S \in SUBSET Nat, 0 \in S, \A n \in S : n + 1 \in S
    PROVE  S = Nat
<1>. SUFFICES ASSUME Nat \ S # {} PROVE FALSE
  OBVIOUS
<1>1. PICK x \in Nat \ S : \A y \in Nat \ S : ~(<<y, x>> \in OpToRel(<, Nat))
  BY WFMin, NatLessThanWellFounded
<1>2. x \in Nat /\ x \notin S /\ \A y \in Nat : y < x => y \in S
  BY <1>1, LessIsRelated
<1>3. x # 0
  BY <1>2
<1>4. x - 1 \in Nat /\ x - 1 < x /\ (x - 1) + 1 = x
  BY <1>2, <1>3
<1>5. x - 1 \in S
  BY <1>2, <1>4
<1>. QED
  BY <1>2, <1>4, <1>5

\* What holds at first and after each of n steps holds at the end.
LEMMA StepsInduction ==
    ASSUME NEW n \in Nat, NEW S, 0 \in S, \A k \in 1..n : k - 1 \in S => k \in S
    PROVE  n \in S
<1>. DEFINE T == {k \in Nat : k <= n => k \in S}
<1>1. 0 \in T
  OBVIOUS
<1>2. ASSUME NEW k \in T PROVE k + 1 \in T
  <2>. SUFFICES ASSUME k + 1 <= n PROVE k + 1 \in S
    OBVIOUS
  <2>1. k \in Nat /\ k <= n /\ k \in S
    OBVIOUS
  <2>2. k + 1 \in 1..n /\ (k + 1) - 1 = k
    BY <2>1
  <2>. QED
    BY <2>1, <2>2
<1>. HIDE DEF T
<1>3. T \in SUBSET Nat
  BY DEF T
<1>4. T = Nat
  BY <1>1, <1>2, <1>3, SetInduction
<1>. QED
  BY <1>4 DEF T

----------------------------------------------------------------------------
(* Folds: with the operator as a function on what is folded                 *)

\* The last of 1..n+1 is its maximum.
LEMMA MaxIsLast ==
    ASSUME NEW n \in Nat, NEW s \in SUBSET (1..(n + 1)), n + 1 \in s
    PROVE  Max(s) = n + 1
<1>1. \A y \in s : n + 1 >= y
  OBVIOUS
<1>2. \A x \in s : (\A y \in s : x >= y) => x = n + 1
  OBVIOUS
<1>. QED
  BY <1>1, <1>2 DEF Max

\* A fold over the steps 1..N is a function on their sets.
LEMMA FoldExists ==
    ASSUME NEW H, NEW E, NEW F, \A x \in H, y \in E : F[x][y] \in H, NEW v \in H, NEW N \in Nat,
           NEW q, \A k \in 1..N : q[k] \in E
    PROVE  \E g : Folds(g, H, F, v, q, N)
<1>. DEFINE S == {n \in Nat : \E g : Folds(g, H, F, v, q, n)}
<1>1. 0 \in S
  <2>1. 1..0 = {}
    OBVIOUS
  <2>2. Folds([s \in SUBSET (1..0) |-> v], H, F, v, q, 0)
    BY <2>1 DEF Folds
  <2>. QED
    BY <2>2
<1>2. ASSUME NEW n \in 1..N, n - 1 \in S PROVE n \in S
  <2>1. PICK g : Folds(g, H, F, v, q, n - 1)
    BY <1>2
  <2>. DEFINE G == [s \in SUBSET (1..n) |-> IF n \in s THEN F[g[s \ {n}]][q[n]] ELSE g[s]]
  <2>0. n \in Nat /\ n - 1 \in Nat /\ (n - 1) + 1 = n /\ 1..n = (1..(n - 1)) \cup {n}
    <3>1. n \in Nat /\ n >= 1
      OBVIOUS
    <3>. HIDE DEF S
    <3>. QED
      BY <3>1
  <2>2. ASSUME NEW s \in SUBSET (1..n)
        PROVE  G[s] \in H /\ G[s] = IF s = {} THEN v ELSE F[G[s \ {Max(s)}]][q[Max(s)]]
    <3>1. CASE n \in s
      <4>1. Max(s) = n
        BY <3>1, <2>0, MaxIsLast
      <4>2. s \ {n} \in SUBSET (1..(n - 1)) /\ G[s \ {n}] = g[s \ {n}]
        BY <2>0
      <4>3. g[s \ {n}] \in H /\ q[n] \in E
        BY <2>1, <4>2 DEF Folds
      <4>4. G[s] = F[g[s \ {n}]][q[n]] /\ s # {}
        BY <3>1
      <4>. QED
        BY <4>1, <4>2, <4>3, <4>4
    <3>2. CASE n \notin s
      <4>1. s \in SUBSET (1..(n - 1)) /\ G[s] = g[s]
        BY <3>2, <2>0
      <4>2. g[s] \in H /\ g[s] = IF s = {} THEN v ELSE F[g[s \ {Max(s)}]][q[Max(s)]]
        BY <2>1, <4>1 DEF Folds
      <4>3. s \ {Max(s)} \in SUBSET (1..n) /\ n \notin s \ {Max(s)}
        BY <3>2
      <4>4. G[s \ {Max(s)}] = g[s \ {Max(s)}]
        BY <4>3
      <4>. QED
        BY <4>1, <4>2, <4>4
    <3>. QED
      BY <3>1, <3>2
  <2>3. Folds(G, H, F, v, q, n)
    <3>1. G = [s \in SUBSET (1..n) |-> G[s]]
      OBVIOUS
    <3>. HIDE DEF G
    <3>2. G \in [SUBSET (1..n) -> H]
      BY <2>2, <3>1
    <3>. QED
      BY <2>2, <3>2 DEF Folds
  <2>. QED
    BY <2>0, <2>3
<1>. HIDE DEF S
<1>3. N \in S
  BY <1>1, <1>2, StepsInduction
<1>. QED
  BY <1>3 DEF S

\* The first k of n steps, and what is left without the last.
LEMMA Intervals ==
    ASSUME NEW n \in Nat
    PROVE  /\ 1..0 = {} /\ 1..0 \in SUBSET (1..n) /\ 1..n \in SUBSET (1..n)
           /\ \A k \in 1..n : /\ Max(1..k) = k /\ (1..k) \ {k} = 1..(k - 1) /\ 1..k # {}
                              /\ 1..k \in SUBSET (1..n) /\ 1..(k - 1) \in SUBSET (1..n)
<1>1. ASSUME NEW k \in 1..n PROVE Max(1..k) = k
  <2>1. k - 1 \in Nat /\ (k - 1) + 1 = k /\ 1..k \in SUBSET (1..((k - 1) + 1)) /\ k \in 1..k
    OBVIOUS
  <2>. QED
    BY <2>1, MaxIsLast
<1>. QED
  BY <1>1

\* The maximum of a set of steps is one of them.
LEMMA MaxIsMember == ASSUME NEW n \in Nat, NEW s \in SUBSET (1..n), s # {} PROVE Max(s) \in s
<1>. DEFINE S == {k \in Nat : \A t \in SUBSET (1..k) : t # {} => \E x \in t : \A y \in t : x >= y}
<1>1. 0 \in S
  <2>1. 1..0 = {}
    OBVIOUS
  <2>. QED
    BY <2>1
<1>2. ASSUME NEW k \in 1..n, k - 1 \in S PROVE k \in S
  <2>. SUFFICES ASSUME NEW t \in SUBSET (1..k), t # {} PROVE \E x \in t : \A y \in t : x >= y
    OBVIOUS
  <2>1. CASE k \in t
    BY <2>1
  <2>2. CASE k \notin t
    <3>1. t \in SUBSET (1..(k - 1))
      BY <2>2
    <3>. QED
      BY <1>2, <3>1
  <2>. QED
    BY <2>1, <2>2
<1>. HIDE DEF S
<1>3. n \in S
  BY <1>1, <1>2, StepsInduction
<1>. QED
  BY <1>3 DEF S, Max

\* What every step keeps, holds after each of them.
LEMMA StaysIn ==
    ASSUME NEW n \in Nat, NEW H, NEW r, r[0] \in H, \A k \in 1..n : r[k - 1] \in H => r[k] \in H
    PROVE  \A k \in 0..n : r[k] \in H
<1>. DEFINE S == {k \in 0..n : \A j \in 0..k : r[j] \in H}
<1>1. 0 \in S
  OBVIOUS
<1>2. ASSUME NEW k \in 1..n, k - 1 \in S PROVE k \in S
  <2>1. k \in 0..n /\ k - 1 \in 0..(k - 1) /\ 0..k = (0..(k - 1)) \cup {k}
    OBVIOUS
  <2>2. r[k - 1] \in H
    BY <1>2, <2>1
  <2>3. r[k] \in H
    BY <2>2
  <2>. QED
    BY <1>2, <2>1, <2>3
<1>. HIDE DEF S
<1>3. n \in S
  BY <1>1, <1>2, StepsInduction
<1>. QED
  BY <1>3 DEF S

\* _drain is a sequence of steps, one for each chunk.
LEMMA DrainSteps ==
    ASSUME NEW H, NEW v \in H, NEW q \in Seq(SUBSET Decisions),
           \A x \in H, y \in SUBSET Decisions : DrainOne(x, y) \in H
    PROVE  \E r \in [0..Len(q) -> H] : /\ r[0] = v /\ r[Len(q)] = DrainEach(v, q)
                                       /\ \A k \in 1..Len(q) : r[k] = DrainOne(r[k - 1], q[k])
<1>. DEFINE n == Len(q)
            I(g) == g = [s \in SUBSET (1..n) |-> IF s = {} THEN v ELSE DrainOne(g[s \ {Max(s)}], q[Max(s)])]
            c == CHOOSE g : I(g)
<1>1. n \in Nat /\ DOMAIN q = 1..n /\ \A k \in 1..n : q[k] \in SUBSET Decisions
  OBVIOUS
<1>2. \E g : I(g)
  <2>. DEFINE F == [x \in H |-> [y \in SUBSET Decisions |-> DrainOne(x, y)]]
  <2>1. \A x \in H, y \in SUBSET Decisions : F[x][y] \in H
    OBVIOUS
  <2>2. PICK g : Folds(g, H, F, v, q, n)
    <3>. HIDE DEF F, n, c
    <3>. QED
      BY <1>1, <2>1, FoldExists
  <2>3. ASSUME NEW s \in SUBSET (1..n)
        PROVE  g[s] = IF s = {} THEN v ELSE DrainOne(g[s \ {Max(s)}], q[Max(s)])
    <3>1. CASE s = {}
      BY <2>2, <3>1 DEF Folds
    <3>2. CASE s # {}
      <4>1. Max(s) \in s
        BY <1>1, <3>2, MaxIsMember
      <4>2. s \ {Max(s)} \in SUBSET (1..n) /\ q[Max(s)] \in SUBSET Decisions
        BY <1>1, <4>1
      <4>3. g[s \ {Max(s)}] \in H /\ g[s] = F[g[s \ {Max(s)}]][q[Max(s)]]
        BY <2>2, <3>2, <4>2 DEF Folds
      <4>. QED
        BY <3>2, <4>2, <4>3
    <3>. QED
      BY <3>1, <3>2
  <2>4. g = [s \in SUBSET (1..n) |-> g[s]]
    BY <2>2 DEF Folds
  <2>. HIDE DEF F
  <2>5. I(g)
    BY <2>3, <2>4
  <2>. QED
    BY <2>5
<1>3. I(c)
  <2>. HIDE DEF I
  <2>. QED
    BY <1>2
<1>4. FoldLeft(DrainOne, v, q) = c[1..n]
  BY <1>1 DEF FoldLeft, MapThenFoldSet
<1>. HIDE DEF c, n
<1>5. c[1..0] = v /\ \A k \in 1..n : c[1..k] = DrainOne(c[1..(k - 1)], q[k])
  <2>1. \A s \in SUBSET (1..n) : c[s] = IF s = {} THEN v ELSE DrainOne(c[s \ {Max(s)}], q[Max(s)])
    BY <1>3
  <2>. HIDE DEF I
  <2>2. c[1..0] = v
    BY <1>1, <2>1, Intervals
  <2>3. ASSUME NEW k \in 1..n PROVE c[1..k] = DrainOne(c[1..(k - 1)], q[k])
    <3>1. /\ Max(1..k) = k /\ (1..k) \ {k} = 1..(k - 1) /\ 1..k # {}
          /\ 1..k \in SUBSET (1..n)
      BY <1>1, Intervals
    <3>. QED
      BY <2>1, <3>1
  <2>. QED
    BY <2>2, <2>3
<1>. DEFINE r == [k \in 0..n |-> c[1..k]]
<1>6. r[0] = v /\ r[n] = c[1..n] /\ \A k \in 1..n : r[k] = DrainOne(r[k - 1], q[k])
  <2>1. 0 \in 0..n /\ n \in 0..n /\ \A k \in 1..n : k \in 0..n /\ k - 1 \in 0..n
    BY <1>1
  <2>. QED
    BY <1>5, <2>1
<1>7. \A k \in 0..n : r[k] \in H
  <2>1. r[0] \in H /\ \A k \in 1..n : r[k - 1] \in H => r[k] \in H
    BY <1>1, <1>6
  <2>. HIDE DEF r
  <2>. QED
    BY <1>1, <2>1, StaysIn
<1>8. r \in [0..n -> H]
  BY <1>7
<1>. HIDE DEF r
<1>. QED
  BY <1>4, <1>6, <1>8 DEF n, DrainEach

\* What each round of _replenish keeps, _replenish keeps.
LEMMA RoundsStayIn ==
    ASSUME NEW H, NEW v \in H, NEW q \in Seq(Nat),
           \A x \in H, y \in Nat : Round(x, y) \in H
    PROVE  RoundEach(v, q) \in H
<1>. DEFINE n == Len(q)
            I(g) == g = [s \in SUBSET (1..n) |-> IF s = {} THEN v ELSE Round(g[s \ {Max(s)}], q[Max(s)])]
            c == CHOOSE g : I(g)
<1>1. n \in Nat /\ DOMAIN q = 1..n /\ \A k \in 1..n : q[k] \in Nat
  OBVIOUS
<1>2. \E g : I(g)
  <2>. DEFINE F == [x \in H |-> [y \in Nat |-> Round(x, y)]]
  <2>1. \A x \in H, y \in Nat : F[x][y] \in H
    OBVIOUS
  <2>2. PICK g : Folds(g, H, F, v, q, n)
    <3>. HIDE DEF F, n, c
    <3>. QED
      BY <1>1, <2>1, FoldExists
  <2>3. ASSUME NEW s \in SUBSET (1..n)
        PROVE  g[s] = IF s = {} THEN v ELSE Round(g[s \ {Max(s)}], q[Max(s)])
    <3>1. CASE s = {}
      BY <2>2, <3>1 DEF Folds
    <3>2. CASE s # {}
      <4>1. Max(s) \in s
        BY <1>1, <3>2, MaxIsMember
      <4>2. s \ {Max(s)} \in SUBSET (1..n) /\ q[Max(s)] \in Nat
        BY <1>1, <4>1
      <4>3. g[s \ {Max(s)}] \in H /\ g[s] = F[g[s \ {Max(s)}]][q[Max(s)]]
        BY <2>2, <3>2, <4>2 DEF Folds
      <4>. QED
        BY <3>2, <4>2, <4>3
    <3>. QED
      BY <3>1, <3>2
  <2>4. g = [s \in SUBSET (1..n) |-> g[s]]
    BY <2>2 DEF Folds
  <2>. HIDE DEF F
  <2>5. I(g)
    BY <2>3, <2>4
  <2>. QED
    BY <2>5
<1>3. I(c)
  <2>. HIDE DEF I
  <2>. QED
    BY <1>2
<1>4. FoldLeft(Round, v, q) = c[1..n]
  BY <1>1 DEF FoldLeft, MapThenFoldSet
<1>. HIDE DEF c, n
<1>5. c[1..0] = v /\ \A k \in 1..n : c[1..k] = Round(c[1..(k - 1)], q[k])
  <2>1. \A s \in SUBSET (1..n) : c[s] = IF s = {} THEN v ELSE Round(c[s \ {Max(s)}], q[Max(s)])
    BY <1>3
  <2>. HIDE DEF I
  <2>2. c[1..0] = v
    BY <1>1, <2>1, Intervals
  <2>3. ASSUME NEW k \in 1..n PROVE c[1..k] = Round(c[1..(k - 1)], q[k])
    <3>1. /\ Max(1..k) = k /\ (1..k) \ {k} = 1..(k - 1) /\ 1..k # {}
          /\ 1..k \in SUBSET (1..n)
      BY <1>1, Intervals
    <3>. QED
      BY <2>1, <3>1
  <2>. QED
    BY <2>2, <2>3
<1>. DEFINE r == [k \in 0..n |-> c[1..k]]
<1>6. r[0] = v /\ r[n] = c[1..n] /\ \A k \in 1..n : r[k] = Round(r[k - 1], q[k])
  <2>1. 0 \in 0..n /\ n \in 0..n /\ \A k \in 1..n : k \in 0..n /\ k - 1 \in 0..n
    BY <1>1
  <2>. QED
    BY <1>5, <2>1
<1>7. \A k \in 0..n : r[k] \in H
  <2>1. r[0] \in H /\ \A k \in 1..n : r[k - 1] \in H => r[k] \in H
    BY <1>1, <1>6
  <2>. HIDE DEF r
  <2>. QED
    BY <1>1, <2>1, StaysIn
<1>8. n \in 0..n
  BY <1>1
<1>. HIDE DEF r
<1>. QED
  BY <1>4, <1>6, <1>7, <1>8 DEF n, RoundEach

\* What each standby turn ended by _releaseSpent keeps, _releaseSpent keeps.
LEMMA EndsStayIn ==
    ASSUME NEW H, NEW v \in H, NEW q \in Seq(Sides),
           \A x \in H, y \in Sides : EndSpent(x, y) \in H
    PROVE  EndEach(v, q) \in H
<1>. DEFINE n == Len(q)
            I(g) == g = [s \in SUBSET (1..n) |-> IF s = {} THEN v ELSE EndSpent(g[s \ {Max(s)}], q[Max(s)])]
            c == CHOOSE g : I(g)
<1>1. n \in Nat /\ DOMAIN q = 1..n /\ \A k \in 1..n : q[k] \in Sides
  OBVIOUS
<1>2. \E g : I(g)
  <2>. DEFINE F == [x \in H |-> [y \in Sides |-> EndSpent(x, y)]]
  <2>1. \A x \in H, y \in Sides : F[x][y] \in H
    OBVIOUS
  <2>2. PICK g : Folds(g, H, F, v, q, n)
    <3>. HIDE DEF F, n, c
    <3>. QED
      BY <1>1, <2>1, FoldExists
  <2>3. ASSUME NEW s \in SUBSET (1..n)
        PROVE  g[s] = IF s = {} THEN v ELSE EndSpent(g[s \ {Max(s)}], q[Max(s)])
    <3>1. CASE s = {}
      BY <2>2, <3>1 DEF Folds
    <3>2. CASE s # {}
      <4>1. Max(s) \in s
        BY <1>1, <3>2, MaxIsMember
      <4>2. s \ {Max(s)} \in SUBSET (1..n) /\ q[Max(s)] \in Sides
        BY <1>1, <4>1
      <4>3. g[s \ {Max(s)}] \in H /\ g[s] = F[g[s \ {Max(s)}]][q[Max(s)]]
        BY <2>2, <3>2, <4>2 DEF Folds
      <4>. QED
        BY <3>2, <4>2, <4>3
    <3>. QED
      BY <3>1, <3>2
  <2>4. g = [s \in SUBSET (1..n) |-> g[s]]
    BY <2>2 DEF Folds
  <2>. HIDE DEF F
  <2>5. I(g)
    BY <2>3, <2>4
  <2>. QED
    BY <2>5
<1>3. I(c)
  <2>. HIDE DEF I
  <2>. QED
    BY <1>2
<1>4. FoldLeft(EndSpent, v, q) = c[1..n]
  BY <1>1 DEF FoldLeft, MapThenFoldSet
<1>. HIDE DEF c, n
<1>5. c[1..0] = v /\ \A k \in 1..n : c[1..k] = EndSpent(c[1..(k - 1)], q[k])
  <2>1. \A s \in SUBSET (1..n) : c[s] = IF s = {} THEN v ELSE EndSpent(c[s \ {Max(s)}], q[Max(s)])
    BY <1>3
  <2>. HIDE DEF I
  <2>2. c[1..0] = v
    BY <1>1, <2>1, Intervals
  <2>3. ASSUME NEW k \in 1..n PROVE c[1..k] = EndSpent(c[1..(k - 1)], q[k])
    <3>1. /\ Max(1..k) = k /\ (1..k) \ {k} = 1..(k - 1) /\ 1..k # {}
          /\ 1..k \in SUBSET (1..n)
      BY <1>1, Intervals
    <3>. QED
      BY <2>1, <3>1
  <2>. QED
    BY <2>2, <2>3
<1>. DEFINE r == [k \in 0..n |-> c[1..k]]
<1>6. r[0] = v /\ r[n] = c[1..n] /\ \A k \in 1..n : r[k] = EndSpent(r[k - 1], q[k])
  <2>1. 0 \in 0..n /\ n \in 0..n /\ \A k \in 1..n : k \in 0..n /\ k - 1 \in 0..n
    BY <1>1
  <2>. QED
    BY <1>5, <2>1
<1>7. \A k \in 0..n : r[k] \in H
  <2>1. r[0] \in H /\ \A k \in 1..n : r[k - 1] \in H => r[k] \in H
    BY <1>1, <1>6
  <2>. HIDE DEF r
  <2>. QED
    BY <1>1, <2>1, StaysIn
<1>8. n \in 0..n
  BY <1>1
<1>. HIDE DEF r
<1>. QED
  BY <1>4, <1>6, <1>7, <1>8 DEF n, EndEach

----------------------------------------------------------------------------
(* The invariant, of any state of the host                                  *)

----------------------------------------------------------------------------
(* Steps that leave the invariant's parts alone                             *)

\* A step aside keeps the invariant's parts.
LEMMA AsideKeeps ==
    ASSUME NEW h, NEW g, NEW n, NEW e, Right(h, n, e), Aside(h, g)
    PROVE  Right(g, n, e) /\ (Served(h) => Served(g))
<1>1. Typed(h, n, e) /\ Typed(g, n, e)
  BY DEF Right, Typed, Aside
<1>. /\ h \in HostType /\ g \in HostType /\ n \in NativeType /\ spec \in Specs
  BY <1>1 DEF Typed
<1>0. /\ \A d \in Decisions : MemberRight(h, d) /\ ApartOn(h, d) /\ AgreeOn(h, n, e, d) /\ SameMember(h.m[d], g.m[d])
      /\ \A s \in Sides, r \in Roles : SpareRight(h, s, r)
      /\ \A s \in Sides : SideRight(h, s) /\ (SameSide(h, g, s) \/ StartsStandby(h, g, s))
      /\ \A s \in Sides, d \in Decisions : HeldRight(h, s, d)
      /\ Kept(h, e)
      /\ g.batch = h.batch /\ g.waiting = h.waiting /\ g.timer = h.timer
      /\ Open(g) => Open(h)
      /\ \A d \in Decisions :
          /\ g.m[d].admitted /\ ~h.m[d].admitted =>
                \A s \in Sides : h.m[d].spare = s => d \in h.side[s].members
          /\ Pending(h, d) /\ "fan" \in h.m[d].asking /\ "fan" \notin g.m[d].asking =>
                \A s \in Sides : d \in h.side[s].chunk /\ h.side[s].phase = "admitting" => d \in h.side[s].listed
  BY DEF Right, Aside
<1>a. ASSUME NEW d \in Decisions PROVE /\ g.m[d].spare \in Sides \cup {Null} /\ Role(d) \in Roles /\ d # Null
                                       /\ h.m[d] \in MemberType /\ g.m[d] \in MemberType
  BY SubagentsAssumption DEF HostType, MemberType, Role
<1>b. ASSUME NEW s \in Sides PROVE h.side[s] \in SideType /\ g.side[s] \in SideType
  BY DEF HostType
<1>o. ASSUME NEW d \in Decisions, Ours(h, d) PROVE Ours(g, d)
  <2>1. g.m[d].spare = h.m[d].spare /\ h.m[d].spare \in Sides
    BY <1>0, <1>a, <1>o DEF SameMember, Ours
  <2>2. CASE SameSide(h, g, h.m[d].spare)
    BY <2>1, <2>2, <1>o DEF SameSide, Ours
  <2>3. CASE StartsStandby(h, g, h.m[d].spare)
    <3>0. PICK s \in Sides, r \in Roles : s = h.m[d].spare /\ r = Role(d)
      BY <2>1, <1>a
    <3>a. h.side[s].phase = "idle"
      BY <3>0, <2>3 DEF StartsStandby
    <3>b. SpareRight(h, s, r)
      BY <1>0
    <3>1. h.spare[s][r] = NoSpare
      BY <3>a, <3>b DEF SpareRight
    <3>. QED
      BY <3>0, <3>1, <1>o, <1>a DEF Ours, NoSpare
  <2>. QED
    BY <2>1, <2>2, <2>3, <1>0
<1>2. ASSUME NEW d \in Decisions PROVE MemberRight(g, d)
  <2>1. MemberRight(h, d) /\ SameMember(h.m[d], g.m[d])
    BY <1>0
  <2>2. Ours(h, d) => Ours(g, d)
    BY <1>o
  <2>. QED
    BY <1>0, <2>1, <2>2 DEF MemberRight, SameMember, Pending
<1>3. ASSUME NEW d \in Decisions PROVE ApartOn(g, d)
  <2>1. \A s \in Sides : d \in g.side[s].chunk => d \in h.side[s].chunk
    BY <1>0 DEF SameSide, StartsStandby
  <2>2. (Waits(g, d) <=> Waits(h, d)) /\ (Batched(g, d) <=> Batched(h, d))
    BY <1>0 DEF Waits, Batched
  <2>. QED
    BY <2>1, <2>2, <1>0 DEF ApartOn, SameMember
<1>4. ASSUME NEW d \in Decisions PROVE AgreeOn(g, n, e, d)
  <2>1. \A s \in Sides : g.side[s].gone = h.side[s].gone /\ g.side[s].members = h.side[s].members
    BY <1>0 DEF SameSide, StartsStandby
  <2>2. AgreeOn(h, n, e, d) /\ SameMember(h.m[d], g.m[d]) /\ n[d].on \in Sides \cup {Null}
    BY <1>0 DEF NativeType
  <2>3. Runs(g, n, e, d) => Runs(h, n, e, d)
    BY <2>1, <2>2 DEF Runs, AgreeOn
  <2>4. Ours(h, d) => Ours(g, d)
    BY <1>o
  <2>. QED
    BY <2>1, <2>2, <2>3, <2>4 DEF AgreeOn, SameMember
<1>5. ASSUME NEW s \in Sides, NEW r \in Roles PROVE SpareRight(g, s, r)
  <2>1. SpareRight(h, s, r) /\ h.spare[s][r].member \in Decisions \cup {Null}
    BY <1>0 DEF HostType, SpareType
  <2>2. CASE SameSide(h, g, s)
    <3>1. g.spare[s] = h.spare[s] /\ g.side[s].kind = h.side[s].kind /\ g.side[s].phase = h.side[s].phase
      BY <2>2 DEF SameSide
    <3>2. ASSUME NEW c \in Decisions PROVE g.m[c].spare = h.m[c].spare /\ g.m[c].delivered = h.m[c].delivered
      BY <1>0 DEF SameMember
    <3>. QED
      BY <2>1, <3>1, <3>2 DEF SpareRight
  <2>3. CASE StartsStandby(h, g, s)
    BY <2>3 DEF StartsStandby, SpareRight
  <2>. QED
    BY <2>2, <2>3, <1>0
<1>6. ASSUME NEW s \in Sides PROVE SideRight(g, s)
  <2>1. SideRight(h, s)
    BY <1>0
  <2>2. CASE SameSide(h, g, s)
    BY <2>1, <2>2 DEF SameSide, SideRight
  <2>3. CASE StartsStandby(h, g, s)
    BY <2>3 DEF StartsStandby, SideRight
  <2>. QED
    BY <2>2, <2>3, <1>0
<1>7. ASSUME NEW s \in Sides, NEW d \in Decisions PROVE HeldRight(g, s, d)
  <2>1. HeldRight(h, s, d) /\ SideRight(h, s) /\ SameMember(h.m[d], g.m[d])
    BY <1>0
  <2>2. CASE SameSide(h, g, s)
    BY <2>1, <2>2 DEF SameSide, HeldRight, SameMember, Pending
  <2>3. CASE StartsStandby(h, g, s)
    BY <2>1, <2>3 DEF StartsStandby, SideRight, HeldRight, SameMember, NoSide
  <2>. QED
    BY <2>2, <2>3, <1>0
<1>8. Kept(g, e)
  <2>. SUFFICES ASSUME Open(g) PROVE /\ g.batch # <<>> => g.timer
                                     /\ \A d \in Decisions : KeptOn(g, e, d)
                                     /\ \A s \in Sides : g.side[s].in /\ g.side[s].gone => s = e
    BY DEF Kept
  <2>1. /\ h.batch # <<>> => h.timer
        /\ \A d \in Decisions : KeptOn(h, e, d)
        /\ \A s \in Sides : h.side[s].in /\ h.side[s].gone => s = e
    BY <1>0 DEF Kept
  <2>2. ASSUME NEW d \in Decisions, Pending(g, d) PROVE KeptOn(g, e, d)
    <3>1. KeptOn(h, e, d) /\ Pending(h, d) /\ SameMember(h.m[d], g.m[d])
      BY <1>0, <2>1, <2>2 DEF SameMember, Pending
    <3>2. (Waits(g, d) <=> Waits(h, d)) /\ (Batched(g, d) <=> Batched(h, d))
      BY <1>0 DEF Waits, Batched
    <3>3. ASSUME NEW s \in Sides
          PROVE  /\ d \in g.side[s].chunk <=> d \in h.side[s].chunk
                 /\ g.side[s].gone = h.side[s].gone /\ g.side[s].members = h.side[s].members
                 /\ d \in g.side[s].chunk => g.side[s].phase = h.side[s].phase /\ g.side[s].listed = h.side[s].listed
      <4>1. SideRight(h, s)
        BY <1>0
      <4>2. CASE SameSide(h, g, s)
        BY <4>2 DEF SameSide
      <4>3. CASE StartsStandby(h, g, s)
        BY <4>1, <4>3 DEF StartsStandby, SideRight, NoSide
      <4>. QED
        BY <4>2, <4>3, <1>0
    <3>. QED
      BY <1>0, <3>1, <3>2, <3>3 DEF KeptOn, SameMember
  <2>3. \A s \in Sides : g.side[s].in /\ g.side[s].gone => s = e
    BY <1>0, <2>1 DEF SameSide, StartsStandby
  <2>. QED
    BY <1>0, <2>1, <2>2, <2>3 DEF KeptOn
<1>9. Served(h) => Served(g)
  <2>. SUFFICES ASSUME Served(h), Open(g), g.waiting # <<>> PROVE \E s \in Sides : Serves(g, s)
    BY DEF Served
  <2>1. PICK s \in Sides : Serves(h, s)
    BY <1>0 DEF Served
  <2>2. SameSide(h, g, s)
    BY <2>1, <1>0 DEF Serves, StartsStandby
  <2>3. Serves(g, s)
    BY <2>1, <2>2, <1>b DEF SameSide, Serves, Busy, SideType
  <2>. QED
    BY <2>3
<1>. QED
  BY <1>1, <1>2, <1>3, <1>4, <1>5, <1>6, <1>7, <1>8, <1>9 DEF Right

----------------------------------------------------------------------------
(* Settling                                                                 *)

\* What settling does to the host.
LEMMA SettledAllIs ==
    ASSUME NEW h \in HostType, NEW ds, NEW what \in Ended
    PROVE  /\ SettledAll(h, ds, what) \in HostType
           /\ SettledAll(h, ds, what).side = h.side /\ SettledAll(h, ds, what).spare = h.spare
           /\ SameRest(h, SettledAll(h, ds, what))
           /\ \A d \in Decisions : SettledAll(h, ds, what).m[d] =
                IF d \in ds /\ Pending(h, d) THEN [h.m[d] EXCEPT !.told = what] ELSE h.m[d]
<1>. DEFINE mm == [d \in Decisions |-> IF d \in ds /\ Pending(h, d) THEN [h.m[d] EXCEPT !.told = what] ELSE h.m[d]]
<1>1. \A d \in Decisions : h.m[d] \in MemberType
  BY DEF HostType
<1>2. mm \in [Decisions -> MemberType]
  <2>1. ASSUME NEW d \in Decisions PROVE mm[d] \in MemberType
    <3>1. h.m[d] \in MemberType
      BY <1>1
    <3>2. [h.m[d] EXCEPT !.told = what] \in MemberType
      BY <3>1 DEF MemberType, Ended
    <3>. QED
      BY <3>1, <3>2
  <2>. QED
    BY <2>1
<1>3. SettledAll(h, ds, what) = [h EXCEPT !.m = mm]
  BY DEF SettledAll, HostType
<1>. HIDE DEF mm
<1>4. SettledAll(h, ds, what) \in HostType
  BY <1>2, <1>3 DEF HostType
<1>5. \A d \in Decisions : mm[d] = IF d \in ds /\ Pending(h, d) THEN [h.m[d] EXCEPT !.told = what] ELSE h.m[d]
  BY DEF mm
<1>. QED
  BY <1>3, <1>4, <1>5 DEF HostType, SameRest

\* Decisions are settled truly: what is refused was never used, what is over does not run.
LEMMA SettledAllKeeps ==
    ASSUME NEW h, NEW n, NEW e, Right(h, n, e), NEW ds, NEW what \in Ended,
           \A d \in ds \cap Decisions : Pending(h, d) =>
              /\ what = "unsent" => ~h.m[d].used
              /\ what = "overtaken" => h.m[d].spare = Null /\ Wants(d) # Null
              /\ what \in {"answered", "over"} => ~Runs(h, n, e, d)
              /\ what = "answered" => n[d].got = Whole(d)
    PROVE  Right(SettledAll(h, ds, what), n, e) /\ (Served(h) => Served(SettledAll(h, ds, what)))
<1>. DEFINE g == SettledAll(h, ds, what)
<1>. h \in HostType
  BY DEF Right, Typed
<1>1. /\ g \in HostType /\ g.side = h.side /\ g.spare = h.spare /\ SameRest(h, g)
      /\ \A d \in Decisions : g.m[d] = IF d \in ds /\ Pending(h, d) THEN [h.m[d] EXCEPT !.told = what] ELSE h.m[d]
  BY SettledAllIs
<1>. HIDE DEF g
<1>2. \A d \in Decisions :
         /\ g.m[d].told = IF d \in ds /\ Pending(h, d) THEN what ELSE h.m[d].told
         /\ g.m[d].spare = h.m[d].spare /\ g.m[d].input = h.m[d].input /\ g.m[d].admitted = h.m[d].admitted
         /\ g.m[d].used = h.m[d].used /\ g.m[d].delivered = h.m[d].delivered /\ g.m[d].bad = h.m[d].bad
         /\ g.m[d].task = h.m[d].task /\ g.m[d].asking = h.m[d].asking
         /\ g.m[d].told = "none" => g.m[d] = h.m[d]
  <2>. SUFFICES ASSUME NEW d \in Decisions
       PROVE /\ g.m[d].told = IF d \in ds /\ Pending(h, d) THEN what ELSE h.m[d].told
             /\ g.m[d].spare = h.m[d].spare /\ g.m[d].input = h.m[d].input /\ g.m[d].admitted = h.m[d].admitted
             /\ g.m[d].used = h.m[d].used /\ g.m[d].delivered = h.m[d].delivered /\ g.m[d].bad = h.m[d].bad
             /\ g.m[d].task = h.m[d].task /\ g.m[d].asking = h.m[d].asking
             /\ g.m[d].told = "none" => g.m[d] = h.m[d]
    OBVIOUS
  <2>1. h.m[d] \in MemberType /\ g.m[d] = IF d \in ds /\ Pending(h, d) THEN [h.m[d] EXCEPT !.told = what] ELSE h.m[d]
    BY <1>1 DEF HostType
  <2>. QED
    BY <2>1 DEF MemberType, Ended
<1>3. /\ \A d \in Decisions : MemberRight(h, d) /\ ApartOn(h, d) /\ AgreeOn(h, n, e, d)
      /\ \A s \in Sides, r \in Roles : SpareRight(h, s, r)
      /\ \A s \in Sides : SideRight(h, s)
      /\ \A s \in Sides, d \in Decisions : HeldRight(h, s, d)
      /\ Kept(h, e) /\ Typed(h, n, e)
  BY DEF Right
<1>4. \A d \in Decisions : /\ Pending(g, d) => Pending(h, d)
                           /\ Ours(g, d) <=> Ours(h, d)
                           /\ Waits(g, d) <=> Waits(h, d)
                           /\ Batched(g, d) <=> Batched(h, d)
                           /\ Runs(g, n, e, d) <=> Runs(h, n, e, d)
                           /\ g.m[d].told # h.m[d].told => d \in ds /\ Pending(h, d)
  BY <1>1, <1>2 DEF Pending, Ours, Waits, Batched, Runs, Ended, SameRest
<1>5. ASSUME NEW d \in Decisions PROVE MemberRight(g, d)
  <2>1. MemberRight(h, d)
    BY <1>3
  <2>. QED
    BY <2>1, <1>2, <1>4 DEF MemberRight, Pending
<1>6. ASSUME NEW d \in Decisions PROVE ApartOn(g, d)
  <2>1. ApartOn(h, d)
    BY <1>3
  <2>2. g.side = h.side /\ g.waiting = h.waiting /\ g.batch = h.batch
    BY <1>1 DEF SameRest
  <2>3. h.m[d].told # "none" => g.m[d].told # "none"
    BY <1>2 DEF Ended
  <2>. QED
    BY <2>1, <2>2, <2>3, <1>2, <1>4 DEF ApartOn
<1>7. ASSUME NEW d \in Decisions PROVE AgreeOn(g, n, e, d)
  <2>1. AgreeOn(h, n, e, d)
    BY <1>3
  <2>. QED
    BY <2>1, <1>1, <1>2, <1>4 DEF AgreeOn
<1>8. ASSUME NEW s \in Sides, NEW r \in Roles PROVE SpareRight(g, s, r)
  <2>1. SpareRight(h, s, r) /\ h.spare[s][r].member \in Decisions \cup {Null}
    BY <1>3 DEF HostType, SpareType
  <2>. QED
    BY <2>1, <1>1, <1>2 DEF SpareRight
<1>9. ASSUME NEW s \in Sides PROVE SideRight(g, s)
  BY <1>1, <1>3 DEF SideRight
<1>10. ASSUME NEW s \in Sides, NEW d \in Decisions PROVE HeldRight(g, s, d)
  <2>1. HeldRight(h, s, d)
    BY <1>3
  <2>2. h.m[d].told # "none" => g.m[d].told # "none"
    BY <1>2 DEF Ended
  <2>. QED
    BY <2>1, <2>2, <1>1, <1>2, <1>4 DEF HeldRight
<1>11. Kept(g, e)
  <2>1. Open(g) => Open(h)
    BY <1>1 DEF Open, SameRest
  <2>2. ASSUME NEW d \in Decisions, KeptOn(h, e, d) PROVE KeptOn(g, e, d)
    BY <2>2, <1>1, <1>2, <1>4 DEF KeptOn
  <2>. QED
    BY <1>1, <1>3, <2>1, <2>2 DEF Kept, SameRest
<1>12. Served(h) => Served(g)
  BY <1>1 DEF Served, Serves, Busy, Open, SameRest
<1>13. Typed(g, n, e)
  BY <1>1, <1>3 DEF Typed, SameRest
<1>. HIDE DEF g
<1>14. Right(g, n, e)
  BY <1>5, <1>6, <1>7, <1>8, <1>9, <1>10, <1>11, <1>13 DEF Right
<1>. QED
  BY <1>12, <1>14 DEF g

\* One settled is a set of one settled.
LEMMA SettledAsIs ==
    ASSUME NEW h \in HostType, NEW d \in Decisions, NEW what
    PROVE  SettledAs(h, d, what) = SettledAll(h, {d}, what)
<1>1. CASE ~Pending(h, d)
  BY <1>1 DEF SettledAs, SettledAll, HostType
<1>2. CASE Pending(h, d)
  BY <1>2 DEF SettledAs, SettledAll, HostType
<1>. QED
  BY <1>1, <1>2

----------------------------------------------------------------------------
(* A step of one side session                                               *)

\* The chunks but the first.
LEMMA TailWaits ==
    ASSUME NEW q \in Seq(SUBSET Decisions), q # <<>>
    PROVE  /\ Tail(q) \in Seq(SUBSET Decisions) /\ Len(Tail(q)) = Len(q) - 1 /\ Len(q) \in Nat \ {0}
           /\ Head(q) = q[1] /\ Head(q) \in SUBSET Decisions
           /\ \A i \in 1..Len(Tail(q)) : i + 1 \in 1..Len(q) /\ Tail(q)[i] = q[i + 1]
           /\ \A i \in 1..Len(q) : i = 1 \/ (i - 1 \in 1..Len(Tail(q)) /\ Tail(q)[i - 1] = q[i])
OBVIOUS

\* A step of one side session keeps the invariant's parts when it is right about each decision.
LEMMA SideKeeps ==
    ASSUME NEW h, NEW g, NEW n, NEW e, Right(h, n, e), NEW s \in Sides, OneSide(h, g, s),
           SideRight(g, s), \A r \in Roles : SpareRight(g, s, r),
           \A d \in Decisions : OneFor(h, g, n, e, s, d),
           Open(g) /\ g.side[s].in /\ g.side[s].gone => s = e
    PROVE  Right(g, n, e)
<1>1. /\ \A d \in Decisions : MemberRight(h, d) /\ ApartOn(h, d) /\ AgreeOn(h, n, e, d)
      /\ \A t \in Sides, r \in Roles : SpareRight(h, t, r)
      /\ \A t \in Sides : SideRight(h, t)
      /\ \A t \in Sides, d \in Decisions : HeldRight(h, t, d)
      /\ Kept(h, e) /\ Typed(h, n, e)
  BY DEF Right
<1>2. /\ g \in HostType /\ g.out = Null
      /\ g.m = h.m /\ g.batch = h.batch /\ g.timer = h.timer
      /\ Open(g) => Open(h)
      /\ \A t \in Sides : t = s \/ (g.side[t] = h.side[t] /\ g.spare[t] = h.spare[t])
      /\ h.side[s].gone => g.side[s].gone
  BY DEF OneSide
<1>3. \A d \in Decisions : /\ Pending(g, d) <=> Pending(h, d)
                           /\ Batched(g, d) <=> Batched(h, d)
  BY <1>2 DEF Pending, Batched
<1>4. /\ \A d \in Decisions : Waits(g, d) => Waits(h, d)
      /\ \A d \in Decisions : (\A i, j \in 1..Len(h.waiting) : d \in h.waiting[i] /\ d \in h.waiting[j] => i = j)
            => \A i, j \in 1..Len(g.waiting) : d \in g.waiting[i] /\ d \in g.waiting[j] => i = j
  <2>1. CASE g.waiting = h.waiting
    BY <2>1 DEF Waits
  <2>2. CASE h.waiting # <<>> /\ g.waiting = Tail(h.waiting)
    <3>. DEFINE q == h.waiting
                w == g.waiting
    <3>1. q \in Seq(SUBSET Decisions)
      BY <1>1 DEF Typed, HostType
    <3>2. Len(w) \in Nat /\ \A i \in 1..Len(w) : i + 1 \in 1..Len(q) /\ w[i] = q[i + 1]
      BY <2>2, <3>1, TailWaits
    <3>. HIDE DEF w, q
    <3>3. \A d \in Decisions : (\E i \in 1..Len(w) : d \in w[i]) => (\E i \in 1..Len(q) : d \in q[i])
      BY <3>2
    <3>4. ASSUME NEW d \in Decisions, \A i, j \in 1..Len(q) : d \in q[i] /\ d \in q[j] => i = j
          PROVE  \A i, j \in 1..Len(w) : d \in w[i] /\ d \in w[j] => i = j
      <4>. SUFFICES ASSUME NEW i \in 1..Len(w), NEW j \in 1..Len(w), d \in w[i], d \in w[j] PROVE i = j
        OBVIOUS
      <4>1. i + 1 = j + 1
        BY <3>2, <3>4
      <4>. QED
        BY <3>2, <4>1
    <3>. QED
      BY <3>3, <3>4 DEF Waits, w, q
  <2>. QED
    BY <2>1, <2>2 DEF OneSide
<1>5. ASSUME NEW d \in Decisions PROVE Runs(g, n, e, d) => Runs(h, n, e, d)
  <2>1. n[d].on \in Sides \cup {Null} /\ (n[d].run = "running" => n[d].on # Null)
    BY <1>1 DEF Typed, NativeType, AgreeOn
  <2>. QED
    BY <2>1, <1>2 DEF Runs
<1>6. ASSUME NEW d \in Decisions, Ours(h, d), Pending(h, d) \/ Runs(g, n, e, d) PROVE Ours(g, d)
  <2>1. h.m[d].spare \in Sides /\ Role(d) \in Roles
    BY <1>1, <1>6, SubagentsAssumption DEF Ours, Typed, HostType, MemberType, Role
  <2>2. CASE h.m[d].spare = s
    BY <2>2, <1>5, <1>6 DEF OneFor
  <2>3. CASE h.m[d].spare # s
    BY <2>1, <2>3, <1>2, <1>6 DEF Ours
  <2>. QED
    BY <2>2, <2>3
<1>7. ASSUME NEW d \in Decisions PROVE MemberRight(g, d)
  <2>1. MemberRight(h, d)
    BY <1>1
  <2>. QED
    BY <2>1, <1>2, <1>3, <1>6 DEF MemberRight
<1>8. ASSUME NEW d \in Decisions PROVE ApartOn(g, d)
  <2>1. ApartOn(h, d) /\ OneFor(h, g, n, e, s, d)
    BY <1>1
  <2>2. \A t, u \in Sides : d \in g.side[t].chunk /\ d \in g.side[u].chunk => t = u
    BY <2>1, <1>2 DEF ApartOn, OneFor
  <2>3. \A i, j \in 1..Len(g.waiting) : d \in g.waiting[i] /\ d \in g.waiting[j] => i = j
    BY <2>1, <1>4 DEF ApartOn
  <2>4. \A t \in Sides : d \in g.side[t].chunk => ~Waits(g, d) /\ ~Batched(g, d)
    BY <2>1, <1>2, <1>3, <1>4 DEF ApartOn, OneFor
  <2>. QED
    BY <2>1, <2>2, <2>3, <2>4, <1>2, <1>3, <1>4 DEF ApartOn
<1>9. ASSUME NEW d \in Decisions PROVE AgreeOn(g, n, e, d)
  <2>1. AgreeOn(h, n, e, d) /\ OneFor(h, g, n, e, s, d)
    BY <1>1
  <2>2. \A t \in Sides : h.m[d].used /\ d \in g.side[t].members => n[d].on = t
    BY <2>1, <1>2 DEF AgreeOn, OneFor
  <2>. QED
    BY <2>1, <2>2, <1>2, <1>5, <1>6 DEF AgreeOn
<1>10. ASSUME NEW t \in Sides, NEW r \in Roles PROVE SpareRight(g, t, r)
  BY <1>1, <1>2 DEF SpareRight
<1>11. ASSUME NEW t \in Sides PROVE SideRight(g, t)
  BY <1>1, <1>2 DEF SideRight
<1>12. ASSUME NEW t \in Sides, NEW d \in Decisions PROVE HeldRight(g, t, d)
  <2>1. CASE t = s
    BY <2>1 DEF OneFor
  <2>2. CASE t # s
    BY <2>2, <1>1, <1>2, <1>3 DEF HeldRight
  <2>. QED
    BY <2>1, <2>2
<1>13. Kept(g, e)
  <2>. SUFFICES ASSUME Open(g) PROVE /\ g.batch # <<>> => g.timer
                                     /\ \A d \in Decisions : KeptOn(g, e, d)
                                     /\ \A t \in Sides : g.side[t].in /\ g.side[t].gone => t = e
    BY DEF Kept
  <2>1. /\ h.batch # <<>> => h.timer
        /\ \A d \in Decisions : KeptOn(h, e, d)
        /\ \A t \in Sides : h.side[t].in /\ h.side[t].gone => t = e
    BY <1>1, <1>2 DEF Kept
  <2>2. ASSUME NEW d \in Decisions PROVE KeptOn(g, e, d)
    <3>. SUFFICES ASSUME Pending(h, d) PROVE KeptOn(g, e, d)
      BY <1>3 DEF KeptOn
    <3>1. KeptOn(h, e, d) /\ OneFor(h, g, n, e, s, d)
      BY <2>1
    <3>2. h.m[d].spare = Null => Batched(g, d) \/ Waits(g, d) \/ \E t \in Sides : d \in g.side[t].chunk
      BY <3>1, <1>2, <1>3 DEF KeptOn, OneFor
    <3>3. ASSUME NEW t \in Sides
          PROVE  /\ d \in g.side[t].chunk =>
                    /\ g.side[t].phase = "turn" => d \in g.side[t].listed
                    /\ g.side[t].phase = "admitting" => d \in g.side[t].listed \/ "fan" \in g.m[d].asking
                    /\ g.side[t].gone => t = e \/ g.side[t].phase \in {"ready", "admitting"}
                 /\ g.m[d].spare = t /\ g.side[t].gone => t = e
                 /\ g.m[d].spare = t /\ g.m[d].admitted => d \in g.side[t].members
      <4>1. CASE t = s
        BY <4>1, <3>1, <1>2 DEF OneFor
      <4>2. CASE t # s
        BY <4>2, <3>1, <1>2 DEF KeptOn
      <4>. QED
        BY <4>1, <4>2
    <3>. QED
      BY <3>2, <3>3, <1>2 DEF KeptOn
  <2>. QED
    BY <1>2, <2>1, <2>2
<1>. QED
  BY <1>1, <1>2, <1>7, <1>8, <1>9, <1>10, <1>11, <1>12, <1>13 DEF Right, Typed

----------------------------------------------------------------------------
(* Falling back                                                             *)

\* SetToSeq lists each element once.
LEMMA SetToSeqIs ==
    ASSUME NEW S, IsFiniteSet(S)
    PROVE  /\ SetToSeq(S) \in Seq(S)
           /\ \A x \in S : \E i \in 1..Len(SetToSeq(S)) : SetToSeq(S)[i] = x
           /\ \A i, j \in 1..Len(SetToSeq(S)) : SetToSeq(S)[i] = SetToSeq(S)[j] => i = j
<1>. DEFINE n == Cardinality(S)
            c == SetToSeq(S)
<1>1. n \in Nat /\ ExistsBijection(1..n, S)
  BY FS_CardinalityType
<1>2. PICK f : f \in Bijection(1..n, S)
  BY <1>1 DEF ExistsBijection
<1>3. f \in [1..n -> S] /\ IsInjective(f)
  BY <1>2 DEF Bijection, Injection, IsInjective
<1>4. c \in [1..n -> S] /\ IsInjective(c)
  BY <1>3 DEF SetToSeq
<1>. HIDE DEF c
<1>5. c \in Injection(1..n, S)
  BY <1>4 DEF Injection, IsInjective
<1>6. Cardinality(1..n) = Cardinality(S)
  BY <1>1, FS_Interval
<1>7. c \in Surjection(1..n, S)
  BY <1>5, <1>6, FS_Injection
<1>8. c \in Seq(S) /\ Len(c) = n
  BY <1>1, <1>4
<1>9. \A x \in S : \E i \in 1..n : c[i] = x
  BY <1>7 DEF Surjection
<1>10. \A i, j \in 1..n : c[i] = c[j] => i = j
  BY <1>4 DEF IsInjective
<1>. HIDE DEF n
<1>. QED
  BY <1>8, <1>9, <1>10 DEF c

\* The elements of a concatenation.
LEMMA Concats ==
    ASSUME NEW S, NEW q \in Seq(S), NEW w \in Seq(S)
    PROVE  /\ q \o w \in Seq(S) /\ Len(q) \in Nat /\ Len(w) \in Nat /\ Len(q \o w) = Len(q) + Len(w)
           /\ \A i \in 1..Len(q) : i \in 1..Len(q \o w) /\ (q \o w)[i] = q[i]
           /\ \A i \in 1..Len(w) : Len(q) + i \in 1..Len(q \o w) /\ (q \o w)[Len(q) + i] = w[i]
           /\ \A i \in 1..Len(q \o w) : i \in 1..Len(q) \/ (i - Len(q) \in 1..Len(w) /\ (q \o w)[i] = w[i - Len(q)])
OBVIOUS

\* What is sent of a decision that falls back is all it is meant to see.
LEMMA RejoinedIs ==
    ASSUME NEW h \in HostType, NEW d \in Decisions, h.m[d].input = <<"input">>, Wants(d) # Null
    PROVE  Rejoined(h, d) = Whole(d)
<1>1. Rejoined(h, d) = <<Wants(d)>> \o <<"input">>
  BY DEF Rejoined
<1>2. Whole(d) = <<Wants(d), "input">>
  BY DEF Whole
<1>3. ASSUME NEW w PROVE <<w>> \o <<"input">> = <<w, "input">>
  <2>. DEFINE S == {w, "input"}
              x == <<w>>
              y == <<"input">>
              z == <<w, "input">>
  <2>1. x \in Seq(S) /\ Len(x) = 1 /\ x[1] = w
    OBVIOUS
  <2>2. y \in Seq(S) /\ Len(y) = 1 /\ y[1] = "input"
    OBVIOUS
  <2>3. z \in Seq(S) /\ Len(z) = 2 /\ z[1] = w /\ z[2] = "input"
    OBVIOUS
  <2>. HIDE DEF S, x, y, z
  <2>4. x \o y \in Seq(S) /\ Len(x \o y) = 2 /\ (x \o y)[1] = w /\ (x \o y)[2] = "input"
    <3>1. 1 \in 1..Len(x) /\ 1 \in 1..Len(y)
      BY <2>1, <2>2
    <3>a. x \in Seq(S) /\ y \in Seq(S)
      BY <2>1, <2>2
    <3>b. x \o y \in Seq(S) /\ Len(x \o y) = Len(x) + Len(y)
      BY <3>a, Concats
    <3>c. (x \o y)[1] = x[1]
      BY <3>1, <3>a, Concats
    <3>d. (x \o y)[Len(x) + 1] = y[1]
      BY <3>1, <3>a, Concats
    <3>2. /\ x \o y \in Seq(S) /\ Len(x \o y) = Len(x) + Len(y)
          /\ (x \o y)[1] = x[1] /\ (x \o y)[Len(x) + 1] = y[1]
      BY <3>b, <3>c, <3>d
    <3>. QED
      BY <2>1, <2>2, <3>2
  <2>5. \A i \in 1..2 : (x \o y)[i] = z[i]
    BY <2>3, <2>4
  <2>6. x \o y = z
    BY <2>3, <2>4, <2>5
  <2>. QED
    BY <2>6 DEF x, y, z
<1>. QED
  BY <1>1, <1>2, <1>3

\* The whole input is a text.
LEMMA WholeIsText ==
    ASSUME spec \in Specs, NEW d \in Decisions PROVE Whole(d) \in Text /\ Wants(d) \in Contexts \cup {Null}
<1>1. Wants(d) \in Contexts \cup {Null}
  BY SubagentsAssumption DEF Wants
<1>2. \A w \in Contexts \cup {Null} : <<w, "input">> \in Text /\ <<"input">> \in Text
  BY DEF Text
<1>. QED
  BY <1>1, <1>2 DEF Whole

\* What Unreserved does to the host.
LEMMA UnreservedIs ==
    ASSUME NEW h \in HostType, NEW ds
    PROVE  /\ Unreserved(h, ds) \in HostType
           /\ Unreserved(h, ds).side = h.side /\ Unreserved(h, ds).m = h.m /\ SameRest(h, Unreserved(h, ds))
           /\ \A s \in Sides, r \in Roles : Unreserved(h, ds).spare[s][r] =
                LET d == h.spare[s][r].member
                IN IF d \in ds /\ h.m[d].spare = s /\ Role(d) = r THEN [h.spare[s][r] EXCEPT !.member = Null]
                   ELSE h.spare[s][r]
<1>. DEFINE sp(s, r) == LET d == h.spare[s][r].member
                        IN IF d \in ds /\ h.m[d].spare = s /\ Role(d) = r THEN [h.spare[s][r] EXCEPT !.member = Null]
                           ELSE h.spare[s][r]
            sps == [s \in Sides |-> [r \in Roles |-> sp(s, r)]]
<1>1. ASSUME NEW s \in Sides, NEW r \in Roles PROVE sp(s, r) \in SpareType
  <2>1. h.spare[s][r] \in SpareType
    BY DEF HostType
  <2>2. [h.spare[s][r] EXCEPT !.member = Null] \in SpareType
    BY <2>1 DEF SpareType
  <2>. QED
    BY <2>1, <2>2
<1>2. Unreserved(h, ds) = [h EXCEPT !.spare = sps]
  BY DEF Unreserved, HostType
<1>3. sps \in [Sides -> [Roles -> SpareType]] /\ \A s \in Sides, r \in Roles : sps[s][r] = sp(s, r)
  <2>. HIDE DEF sp
  <2>. QED
    BY <1>1
<1>. HIDE DEF sps
<1>4. Unreserved(h, ds) \in HostType
  BY <1>2, <1>3 DEF HostType
<1>. HIDE DEF sp
<1>5. /\ Unreserved(h, ds).side = h.side /\ Unreserved(h, ds).m = h.m /\ SameRest(h, Unreserved(h, ds))
      /\ Unreserved(h, ds).spare = sps
  BY <1>2 DEF HostType, SameRest
<1>. QED
  BY <1>3, <1>4, <1>5 DEF sp

\* The input of a decision that falls back is a text.
LEMMA RejoinedType ==
    ASSUME NEW h \in HostType, spec \in Specs, NEW d \in Decisions PROVE Rejoined(h, d) \in Text
<1>. DEFINE S == Contexts \cup {Null, "input", "other"}
<1>1. Wants(d) \in S /\ h.m[d].input \in Seq(S)
  BY WholeIsText DEF HostType, MemberType, Text
<1>. HIDE DEF S
<1>2. <<Wants(d)>> \in Seq(S)
  BY <1>1
<1>3. <<Wants(d)>> \o h.m[d].input \in Seq(S)
  BY <1>1, <1>2, Concats
<1>. QED
  BY <1>3 DEF Rejoined, Text, S

\* What _fallback does to the host.
LEMMA FallbackAllIs ==
    ASSUME NEW h \in HostType, spec \in Specs, NEW ds \in SUBSET Decisions
    PROVE  /\ FallbackAll(h, ds) \in HostType
           /\ FallbackAll(h, ds).waiting = h.waiting /\ FallbackAll(h, ds).out = h.out
           /\ FallbackAll(h, ds).group = h.group /\ FallbackAll(h, ds).closed = h.closed
           /\ FallbackAll(h, ds).spare = Unreserved(h, Falls(h, ds)).spare
           /\ \A s \in Sides : FallbackAll(h, ds).side[s] =
                 [h.side[s] EXCEPT !.members = @ \ {d \in Falls(h, ds) : h.m[d].spare = s}]
           /\ \A d \in Decisions : FallbackAll(h, ds).m[d] =
                 IF d \in Falls(h, ds) THEN [h.m[d] EXCEPT !.spare = Null, !.input = Rejoined(h, d)] ELSE h.m[d]
           /\ Falls(h, ds) = {} \/ h.group = "released" =>
                 FallbackAll(h, ds).batch = h.batch /\ FallbackAll(h, ds).timer = h.timer
           /\ Falls(h, ds) # {} /\ h.group # "released" =>
                 FallbackAll(h, ds).batch = h.batch \o SetToSeq(Falls(h, ds)) /\ FallbackAll(h, ds).timer
<1>. DEFINE fs == Falls(h, ds)
            u  == Unreserved(h, fs)
            sides == [s \in Sides |-> [h.side[s] EXCEPT !.members = @ \ {d \in fs : h.m[d].spare = s}]]
            mm == [d \in Decisions |-> IF d \in fs THEN [h.m[d] EXCEPT !.spare = Null, !.input = Rejoined(h, d)]
                                       ELSE h.m[d]]
            g  == Fallen(h, fs)
            k  == [g EXCEPT !.batch = @ \o SetToSeq(fs), !.timer = TRUE]
<1>1. u \in HostType /\ u.side = h.side /\ u.m = h.m /\ SameRest(h, u)
  BY UnreservedIs
<1>2. /\ FallbackAll(h, ds) = IF fs = {} \/ h.group = "released" THEN g ELSE k
      /\ g = [u EXCEPT !.side = sides, !.m = mm]
  BY DEF FallbackAll, Fallen
<1>3. sides \in [Sides -> SideType]
  <2>1. ASSUME NEW s \in Sides PROVE sides[s] \in SideType
    <3>1. h.side[s] \in SideType
      BY DEF HostType
    <3>. HIDE DEF fs
    <3>. QED
      BY <3>1 DEF SideType
  <2>. QED
    BY <2>1
<1>4. mm \in [Decisions -> MemberType]
  <2>1. ASSUME NEW d \in Decisions PROVE mm[d] \in MemberType
    <3>1. h.m[d] \in MemberType /\ Rejoined(h, d) \in Text
      BY RejoinedType DEF HostType
    <3>. HIDE DEF fs
    <3>2. [h.m[d] EXCEPT !.spare = Null, !.input = Rejoined(h, d)] \in MemberType
      BY <3>1 DEF MemberType
    <3>. QED
      BY <3>1, <3>2
  <2>2. mm = [d \in Decisions |-> mm[d]]
    OBVIOUS
  <2>. HIDE DEF mm
  <2>. QED
    BY <2>1, <2>2
<1>5. /\ \A s \in Sides : sides[s] = [h.side[s] EXCEPT !.members = @ \ {d \in fs : h.m[d].spare = s}]
      /\ \A d \in Decisions : mm[d] = IF d \in fs THEN [h.m[d] EXCEPT !.spare = Null, !.input = Rejoined(h, d)]
                                       ELSE h.m[d]
  OBVIOUS
<1>6. h.batch \o SetToSeq(fs) \in Seq(Decisions)
  <2>1. IsFiniteSet(fs) /\ fs \in SUBSET Decisions
    BY SubagentsAssumption, FS_Subset DEF Falls
  <2>2. SetToSeq(fs) \in Seq(fs)
    BY <2>1, SetToSeqIs
  <2>3. SetToSeq(fs) \in Seq(Decisions) /\ h.batch \in Seq(Decisions)
    <3>. HIDE DEF fs
    <3>. QED
      BY <2>1, <2>2 DEF HostType
  <2>. QED
    BY <2>3, Concats
<1>. HIDE DEF sides, mm, fs, u
<1>7. g \in HostType /\ SameRest(h, g) /\ g.side = sides /\ g.m = mm /\ g.spare = u.spare
  <2>. HIDE DEF g
  <2>. QED
    BY <1>1, <1>2, <1>3, <1>4 DEF HostType, SameRest
<1>8. /\ k \in HostType /\ k.side = sides /\ k.m = mm /\ k.spare = u.spare
      /\ k.waiting = h.waiting /\ k.out = h.out /\ k.group = h.group /\ k.closed = h.closed
      /\ k.batch = h.batch \o SetToSeq(fs) /\ k.timer
  <2>. HIDE DEF g
  <2>. QED
    BY <1>6, <1>7 DEF HostType, SameRest
<1>. HIDE DEF g, k
<1>. DEFINE f == FallbackAll(h, ds)
<1>9. f = IF fs = {} \/ h.group = "released" THEN g ELSE k
  BY <1>2
<1>. HIDE DEF f
<1>10. /\ f \in HostType
       /\ f.waiting = h.waiting /\ f.out = h.out /\ f.group = h.group /\ f.closed = h.closed
       /\ f.side = sides /\ f.m = mm /\ f.spare = u.spare
       /\ fs = {} \/ h.group = "released" => f.batch = h.batch /\ f.timer = h.timer
       /\ fs # {} /\ h.group # "released" => f.batch = h.batch \o SetToSeq(fs) /\ f.timer
  BY <1>7, <1>8, <1>9 DEF SameRest
<1>11. /\ \A s \in Sides : f.side[s] = [h.side[s] EXCEPT !.members = @ \ {d \in fs : h.m[d].spare = s}]
       /\ \A d \in Decisions : f.m[d] = IF d \in fs THEN [h.m[d] EXCEPT !.spare = Null, !.input = Rejoined(h, d)]
                                       ELSE h.m[d]
  <2>1. f.side = sides /\ f.m = mm
    BY <1>10
  <2>. QED
    BY <1>5, <2>1, Zenon
<1>12. /\ f \in HostType
       /\ f.waiting = h.waiting /\ f.out = h.out /\ f.group = h.group /\ f.closed = h.closed
       /\ f.spare = u.spare
       /\ fs = {} \/ h.group = "released" => f.batch = h.batch /\ f.timer = h.timer
       /\ fs # {} /\ h.group # "released" => f.batch = h.batch \o SetToSeq(fs) /\ f.timer
  BY <1>10
<1>. QED
  BY <1>11, <1>12, Zenon DEF f, fs, u

\* _fallback keeps the invariant's parts: what it takes off a spare is in the batch.
LEMMA FallbackAllKeeps ==
    ASSUME NEW h, NEW n, NEW e, Right(h, n, e), NEW ds \in SUBSET Decisions
    PROVE  /\ Right(FallbackAll(h, ds), n, e) /\ (Served(h) => Served(FallbackAll(h, ds)))
           /\ \A d \in Decisions : /\ FallbackAll(h, ds).m[d].told = h.m[d].told
                                   /\ FallbackAll(h, ds).m[d].used = h.m[d].used
                                   /\ FallbackAll(h, ds).m[d].delivered = h.m[d].delivered
                                   /\ FallbackAll(h, ds).m[d].spare \in {h.m[d].spare, Null}
           /\ \A d \in ds : Pending(h, d) /\ ~h.m[d].delivered => FallbackAll(h, ds).m[d].spare = Null
<1>. DEFINE g  == FallbackAll(h, ds)
            fs == Falls(h, ds)
<1>. h \in HostType /\ spec \in Specs
  BY DEF Right, Typed
<1>a. g \in HostType /\ g.waiting = h.waiting /\ g.out = h.out /\ g.group = h.group /\ g.closed = h.closed
  BY FallbackAllIs, Zenon
<1>u. PICK u : u = Unreserved(h, fs)
  BY Zenon
<1>s. \A s \in Sides, r \in Roles : g.spare[s][r] =
            IF h.spare[s][r].member \in fs /\ h.m[h.spare[s][r].member].spare = s /\ Role(h.spare[s][r].member) = r
            THEN [h.spare[s][r] EXCEPT !.member = Null] ELSE h.spare[s][r]
  <2>1. g.spare = u.spare
    BY <1>u, FallbackAllIs, Zenon
  <2>. HIDE DEF fs, g
  <2>2. \A s \in Sides, r \in Roles : u.spare[s][r] =
            IF h.spare[s][r].member \in fs /\ h.m[h.spare[s][r].member].spare = s /\ Role(h.spare[s][r].member) = r
            THEN [h.spare[s][r] EXCEPT !.member = Null] ELSE h.spare[s][r]
    BY <1>u, UnreservedIs
  <2>. QED
    BY <2>1, <2>2
<1>e. \A s \in Sides : g.side[s] = [h.side[s] EXCEPT !.members = @ \ {d \in fs : h.m[d].spare = s}]
  BY FallbackAllIs, Zenon
<1>m. \A d \in Decisions : g.m[d] =
            IF d \in fs THEN [h.m[d] EXCEPT !.spare = Null, !.input = Rejoined(h, d)] ELSE h.m[d]
  BY FallbackAllIs, Zenon
<1>b. /\ fs = {} \/ h.group = "released" => g.batch = h.batch /\ g.timer = h.timer
      /\ fs # {} /\ h.group # "released" => g.batch = h.batch \o SetToSeq(fs) /\ g.timer
  BY FallbackAllIs, Zenon
<1>2. /\ \A d \in Decisions : MemberRight(h, d) /\ ApartOn(h, d) /\ AgreeOn(h, n, e, d)
      /\ \A s \in Sides, r \in Roles : SpareRight(h, s, r)
      /\ \A s \in Sides : SideRight(h, s)
      /\ \A s \in Sides, d \in Decisions : HeldRight(h, s, d)
      /\ Kept(h, e) /\ Typed(h, n, e)
  BY DEF Right
<1>3. ASSUME NEW d \in fs
      PROVE  /\ d \in Decisions /\ d \in ds /\ h.m[d].spare # Null /\ Pending(h, d) /\ ~h.m[d].delivered /\ ~h.m[d].used
             /\ Rejoined(h, d) = Whole(d)
  <2>1. d \in Decisions /\ d \in ds /\ h.m[d].spare # Null /\ Pending(h, d) /\ ~h.m[d].delivered
    BY DEF Falls, Given
  <2>2. MemberRight(h, d)
    BY <1>2, <2>1
  <2>3. ~h.m[d].used /\ Wants(d) # Null /\ h.m[d].input = <<"input">>
    BY <2>1, <2>2 DEF MemberRight
  <2>. QED
    BY <2>1, <2>3, RejoinedIs
<1>f. \A d \in ds : Pending(h, d) /\ ~h.m[d].delivered => d \in fs \/ h.m[d].spare = Null
  BY DEF Falls, Given
<1>. HIDE DEF g, fs
<1>4. ASSUME NEW d \in Decisions
      PROVE  /\ g.m[d].told = h.m[d].told /\ g.m[d].admitted = h.m[d].admitted /\ g.m[d].used = h.m[d].used
             /\ g.m[d].delivered = h.m[d].delivered /\ g.m[d].bad = h.m[d].bad /\ g.m[d].task = h.m[d].task
             /\ g.m[d].asking = h.m[d].asking
             /\ d \in fs => g.m[d].spare = Null /\ g.m[d].input = Whole(d)
             /\ d \notin fs => g.m[d] = h.m[d]
             /\ Pending(g, d) <=> Pending(h, d)
  <2>1. h.m[d] \in MemberType /\ g.m[d] = IF d \in fs THEN [h.m[d] EXCEPT !.spare = Null, !.input = Rejoined(h, d)] ELSE h.m[d]
    <3>1. h.m[d] \in MemberType
      BY DEF HostType
    <3>. QED
      BY <1>m, <3>1, Zenon
  <2>2. CASE d \in fs
    BY <2>1, <2>2, <1>3 DEF MemberType, Pending
  <2>3. CASE d \notin fs
    BY <2>1, <2>3 DEF Pending
  <2>. QED
    BY <2>2, <2>3
<1>5. ASSUME NEW s \in Sides
      PROVE  /\ g.side[s].kind = h.side[s].kind /\ g.side[s].in = h.side[s].in /\ g.side[s].alive = h.side[s].alive
             /\ g.side[s].gone = h.side[s].gone /\ g.side[s].phase = h.side[s].phase
             /\ g.side[s].chunk = h.side[s].chunk /\ g.side[s].listed = h.side[s].listed
             /\ g.side[s].retry = h.side[s].retry
             /\ g.side[s].members = h.side[s].members \ {d \in fs : h.m[d].spare = s}
             /\ h.side[s].members = {} => g.side[s] = h.side[s]
  <2>1. h.side[s] \in SideType /\ g.side[s] = [h.side[s] EXCEPT !.members = @ \ {d \in fs : h.m[d].spare = s}]
    BY <1>e DEF HostType
  <2>2. PICK w : w = {d \in fs : h.m[d].spare = s}
    BY Zenon
  <2>3. PICK x, y : x = h.side[s] /\ y = g.side[s]
    BY Zenon
  <2>4. x \in SideType /\ y = [x EXCEPT !.members = @ \ w]
    BY <2>1, <2>2, <2>3, Zenon
  <2>5. /\ y.kind = x.kind /\ y.in = x.in /\ y.alive = x.alive /\ y.gone = x.gone /\ y.phase = x.phase
        /\ y.chunk = x.chunk /\ y.listed = x.listed /\ y.retry = x.retry /\ y.members = x.members \ w
    BY <2>4 DEF SideType
  <2>6. ASSUME x.members = {} PROVE y = x
    <3>1. x.members \ w = x.members
      BY <2>6
    <3>. QED
      BY <2>4, <3>1 DEF SideType
  <2>. QED
    BY <2>2, <2>3, <2>5, <2>6, Zenon
<1>6. ASSUME NEW s \in Sides, NEW r \in Roles
      PROVE  /\ g.spare[s][r].ctx = h.spare[s][r].ctx /\ g.spare[s][r].pending = h.spare[s][r].pending
             /\ g.spare[s][r].used = h.spare[s][r].used
             /\ g.spare[s][r].member = IF h.spare[s][r].member \in fs THEN Null ELSE h.spare[s][r].member
             /\ h.spare[s][r] = NoSpare => g.spare[s][r] = h.spare[s][r]
  <2>1. h.spare[s][r] \in SpareType /\ SpareRight(h, s, r)
    BY <1>2 DEF HostType
  <2>2. h.spare[s][r].member \in fs => h.m[h.spare[s][r].member].spare = s /\ Role(h.spare[s][r].member) = r
    BY <2>1, <1>3, SubagentsAssumption DEF SpareRight
  <2>3. g.spare[s][r] = IF h.spare[s][r].member \in fs THEN [h.spare[s][r] EXCEPT !.member = Null] ELSE h.spare[s][r]
    BY <1>s, <2>2
  <2>4. Null \notin fs
    BY <1>3, SubagentsAssumption
  <2>. QED
    BY <2>1, <2>3, <2>4 DEF SpareType, NoSpare
<1>7. ASSUME NEW d \in Decisions, d \notin fs, Ours(h, d) PROVE Ours(g, d)
  <2>1. PICK s \in Sides, r \in Roles : s = h.m[d].spare /\ r = Role(d) /\ h.spare[s][r].member = d
    BY <1>7, SubagentsAssumption DEF Ours, HostType, MemberType, Role
  <2>2. g.spare[s][r].member = d /\ g.m[d].spare = s
    BY <2>1, <1>4, <1>6, <1>7
  <2>. QED
    BY <2>1, <2>2, SubagentsAssumption DEF Ours
<1>8. ASSUME NEW d \in Decisions
      PROVE  /\ Batched(h, d) => Batched(g, d)
             /\ d \in fs /\ Open(h) => Batched(g, d)
             /\ Batched(g, d) => Batched(h, d) \/ d \in fs
             /\ (\A i, j \in 1..Len(h.batch) : h.batch[i] = d /\ h.batch[j] = d => i = j) /\ (d \in fs => ~Batched(h, d))
                   => (\A i, j \in 1..Len(g.batch) : g.batch[i] = d /\ g.batch[j] = d => i = j)
  <2>1. CASE fs = {} \/ h.group = "released"
    BY <2>1, <1>b DEF Batched, Open
  <2>2. CASE ~(fs = {} \/ h.group = "released")
    <3>. DEFINE q == h.batch
                w == SetToSeq(fs)
                b == g.batch
    <3>1. IsFiniteSet(fs) /\ fs \in SUBSET Decisions
      BY SubagentsAssumption, FS_Subset, <1>3
    <3>2. /\ w \in Seq(fs) /\ \A x \in fs : \E i \in 1..Len(w) : w[i] = x
          /\ \A i, j \in 1..Len(w) : w[i] = w[j] => i = j
      BY <3>1, SetToSeqIs
    <3>3. q \in Seq(Decisions) /\ w \in Seq(Decisions) /\ b = q \o w
      <4>1. b = q \o w
        BY <2>2, <1>b
      <4>2. q \in Seq(Decisions)
        BY DEF HostType
      <4>3. w \in Seq(Decisions)
        <5>. HIDE DEF w
        <5>. QED
          BY <3>1, <3>2
      <4>. QED
        BY <4>1, <4>2, <4>3
    <3>4. \A i \in 1..Len(w) : w[i] \in fs
      BY <3>2
    <3>. HIDE DEF w, q, b
    <3>5. /\ Len(q) \in Nat /\ Len(w) \in Nat /\ Len(b) = Len(q) + Len(w)
          /\ \A i \in 1..Len(q) : i \in 1..Len(b) /\ b[i] = q[i]
          /\ \A i \in 1..Len(w) : Len(q) + i \in 1..Len(b) /\ b[Len(q) + i] = w[i]
          /\ \A i \in 1..Len(b) : i \in 1..Len(q) \/ (i - Len(q) \in 1..Len(w) /\ b[i] = w[i - Len(q)])
      BY <3>3, Concats
    <3>6. (\E i \in 1..Len(q) : q[i] = d) => \E i \in 1..Len(b) : b[i] = d
      BY <3>5
    <3>7. ASSUME d \in fs PROVE \E i \in 1..Len(b) : b[i] = d
      <4>1. PICK i \in 1..Len(w) : w[i] = d
        BY <3>2, <3>7
      <4>2. Len(q) + i \in 1..Len(b) /\ b[Len(q) + i] = d
        BY <4>1, <3>5
      <4>. QED
        BY <4>2
    <3>8. (\E i \in 1..Len(b) : b[i] = d) => (\E i \in 1..Len(q) : q[i] = d) \/ d \in fs
      BY <3>4, <3>5
    <3>9. ASSUME \A i, j \in 1..Len(q) : q[i] = d /\ q[j] = d => i = j,
                 d \in fs => ~\E i \in 1..Len(q) : q[i] = d,
                 NEW i \in 1..Len(b), NEW j \in 1..Len(b), b[i] = d, b[j] = d
          PROVE  i = j
      <4>1. CASE d \in fs
        <5>1. i \notin 1..Len(q) /\ j \notin 1..Len(q)
          BY <4>1, <3>5, <3>9
        <5>2. i - Len(q) \in 1..Len(w) /\ j - Len(q) \in 1..Len(w) /\ w[i - Len(q)] = w[j - Len(q)]
          BY <5>1, <3>5, <3>9
        <5>3. i - Len(q) = j - Len(q)
          BY <5>2, <3>2
        <5>. QED
          BY <5>3, <3>5
      <4>2. CASE d \notin fs
        <5>1. i \in 1..Len(q) /\ j \in 1..Len(q)
          BY <4>2, <3>4, <3>5, <3>9
        <5>. QED
          BY <5>1, <3>5, <3>9
      <4>. QED
        BY <4>1, <4>2
    <3>. QED
      BY <3>6, <3>7, <3>8, <3>9 DEF Batched, q, b
  <2>. QED
    BY <2>1, <2>2
<1>9. \A d \in Decisions : (Waits(g, d) <=> Waits(h, d)) /\ (Runs(g, n, e, d) => Runs(h, n, e, d))
  <2>1. ASSUME NEW d \in Decisions PROVE Runs(g, n, e, d) => Runs(h, n, e, d)
    <3>1. n[d].on \in Sides \cup {Null} /\ (n[d].run = "running" => n[d].on # Null)
      BY <1>2 DEF Typed, NativeType, AgreeOn
    <3>. QED
      BY <3>1, <1>5 DEF Runs
  <2>. QED
    BY <2>1, <1>a DEF Waits
<1>10. ASSUME NEW d \in Decisions PROVE MemberRight(g, d)
  <2>1. MemberRight(h, d)
    BY <1>2
  <2>2. CASE d \in fs
    BY <2>1, <2>2, <1>3, <1>4 DEF MemberRight, Pending
  <2>3. CASE d \notin fs
    BY <2>1, <2>3, <1>4, <1>7 DEF MemberRight, Pending
  <2>. QED
    BY <2>2, <2>3
<1>11. ASSUME NEW d \in Decisions PROVE ApartOn(g, d)
  <2>1. ApartOn(h, d)
    BY <1>2
  <2>2. d \in fs => ~Batched(h, d) /\ ~Waits(h, d) /\ \A s \in Sides : d \notin h.side[s].chunk
    BY <2>1, <1>2, <1>3 DEF ApartOn, HeldRight
  <2>3. \A s \in Sides : g.side[s].chunk = h.side[s].chunk
    BY <1>5
  <2>4. Waits(g, d) \/ Batched(g, d) => g.m[d].told # "none" /\ g.m[d].spare = Null /\ ~g.m[d].used
    BY <2>1, <1>3, <1>4, <1>8, <1>9 DEF ApartOn, Pending
  <2>. QED
    BY <2>1, <2>2, <2>3, <2>4, <1>a, <1>8, <1>9 DEF ApartOn
<1>12. ASSUME NEW d \in Decisions PROVE AgreeOn(g, n, e, d)
  <2>1. AgreeOn(h, n, e, d)
    BY <1>2
  <2>2. \A s \in Sides : d \in g.side[s].members => d \in h.side[s].members
    BY <1>5
  <2>3. d \in fs => ~g.m[d].used /\ g.m[d].spare = Null
    BY <1>3, <1>4
  <2>. QED
    BY <2>1, <2>2, <2>3, <1>4, <1>7, <1>9 DEF AgreeOn
<1>13. ASSUME NEW s \in Sides, NEW r \in Roles PROVE SpareRight(g, s, r)
  <2>1. SpareRight(h, s, r) /\ h.spare[s][r].member \in Decisions \cup {Null}
    BY <1>2 DEF HostType, SpareType
  <2>2. g.spare[s][r].member # Null => g.spare[s][r].member = h.spare[s][r].member /\ h.spare[s][r].member \notin fs
    BY <1>6
  <2>. QED
    BY <2>1, <2>2, <1>4, <1>5, <1>6 DEF SpareRight
<1>14. ASSUME NEW s \in Sides PROVE SideRight(g, s)
  <2>1. SideRight(h, s)
    BY <1>2
  <2>2. h.side[s].kind = "none" => g.side[s] = h.side[s]
    BY <2>1, <1>5 DEF SideRight, NoSide
  <2>3. h.side[s].kind = "fan" => g.side[s].members = h.side[s].members
    <3>1. \A d \in h.side[s].members : h.side[s].kind = "fan" /\ d \in Decisions => h.m[d].spare = Null
      BY <1>2 DEF HeldRight
    <3>2. s # Null
      BY SubagentsAssumption
    <3>3. h.side[s].members \in SUBSET Decisions
      BY DEF HostType, SideType
    <3>4. g.side[s].members = h.side[s].members \ {d \in fs : h.m[d].spare = s}
      BY <1>5
    <3>5. h.side[s].kind = "fan" => h.side[s].members \cap {d \in fs : h.m[d].spare = s} = {}
      BY <3>1, <3>2, <3>3
    <3>. QED
      BY <3>4, <3>5
  <2>. QED
    BY <2>1, <2>2, <2>3, <1>5 DEF SideRight
<1>15. ASSUME NEW s \in Sides, NEW d \in Decisions PROVE HeldRight(g, s, d)
  <2>1. HeldRight(h, s, d)
    BY <1>2
  <2>2. CASE d \in fs
    <3>1. d \notin h.side[s].chunk
      BY <2>1, <2>2, <1>3 DEF HeldRight
    <3>2. d \notin g.side[s].members
      BY <2>1, <2>2, <1>3, <1>5 DEF HeldRight
    <3>. QED
      BY <2>1, <3>1, <3>2, <1>4, <1>5 DEF HeldRight
  <2>3. CASE d \notin fs
    <3>1. g.m[d] = h.m[d] /\ (d \in g.side[s].members <=> d \in h.side[s].members)
      BY <2>3, <1>4, <1>5
    <3>. QED
      BY <2>1, <3>1, <1>4, <1>5 DEF HeldRight
  <2>. QED
    BY <2>2, <2>3
<1>16. Kept(g, e)
  <2>. SUFFICES ASSUME Open(g) PROVE /\ g.batch # <<>> => g.timer
                                     /\ \A d \in Decisions : KeptOn(g, e, d)
                                     /\ \A s \in Sides : g.side[s].in /\ g.side[s].gone => s = e
    BY DEF Kept
  <2>1. /\ h.batch # <<>> => h.timer
        /\ \A d \in Decisions : KeptOn(h, e, d)
        /\ \A s \in Sides : h.side[s].in /\ h.side[s].gone => s = e
        /\ Open(h)
    BY <1>a, <1>2 DEF Kept, Open
  <2>2. ASSUME NEW d \in Decisions PROVE KeptOn(g, e, d)
    <3>1. KeptOn(h, e, d)
      BY <2>1
    <3>2. CASE d \in fs
      <4>1. Batched(g, d) /\ \A s \in Sides : d \notin g.side[s].chunk /\ g.m[d].spare # s
        BY <2>1, <3>2, <1>2, <1>3, <1>4, <1>5, <1>8, SubagentsAssumption DEF HeldRight
      <4>. QED
        BY <4>1 DEF KeptOn
    <3>3. CASE d \notin fs
      <4>1. g.m[d] = h.m[d] /\ \A s \in Sides : d \in g.side[s].members <=> d \in h.side[s].members
        BY <3>3, <1>4, <1>5
      <4>. QED
        BY <3>1, <4>1, <1>4, <1>5, <1>8, <1>9 DEF KeptOn
    <3>. QED
      BY <3>2, <3>3
  <2>3. g.batch # <<>> => g.timer
    BY <2>1, <1>b
  <2>. QED
    BY <2>1, <2>2, <2>3, <1>5
<1>17. Served(h) => Served(g)
  BY <1>a, <1>5 DEF Served, Serves, Busy, Open
<1>18. Typed(g, n, e)
  BY <1>a, <1>2 DEF Typed
<1>19. Right(g, n, e)
  BY <1>10, <1>11, <1>12, <1>13, <1>14, <1>15, <1>16, <1>18 DEF Right
<1>20. ASSUME NEW d \in Decisions PROVE g.m[d].spare \in {h.m[d].spare, Null}
  BY <1>4
<1>21. \A d \in ds : Pending(h, d) /\ ~h.m[d].delivered => g.m[d].spare = Null
  BY <1>4, <1>f
<1>. QED
  BY <1>4, <1>17, <1>19, <1>20, <1>21 DEF g

----------------------------------------------------------------------------
(* Flags of side sessions, and standby turns                                *)

\* Flags are set aside.
LEMMA FlagsAside ==
    ASSUME NEW h, NEW g, h \in HostType, h.out = Null, Flags(h, g)
    PROVE  Aside(h, g)
BY DEF Flags, Aside, SameMember, SameRest, Open

\* No flag is a change of flags.
LEMMA FlagsSame == ASSUME NEW h \in HostType PROVE Flags(h, h)
BY DEF Flags, SameRest, SameSide

\* Flags are set one after the other.
LEMMA FlagsTrans ==
    ASSUME NEW h, NEW g, NEW k, Flags(h, g), Flags(g, k) PROVE Flags(h, k)
<1>1. \A s \in Sides : SameSide(h, k, s) /\ k.side[s].ready = h.side[s].ready
  BY DEF Flags, SameSide
<1>. QED
  BY <1>1 DEF Flags, SameRest

\* The flags of one side session.
LEMMA OneFlagged ==
    ASSUME NEW h \in HostType, NEW s \in Sides, NEW x \in SideType, h.side[s].kind # "none",
           x.kind = h.side[s].kind, x.phase = h.side[s].phase, x.gone = h.side[s].gone,
           x.chunk = h.side[s].chunk, x.listed = h.side[s].listed, x.members = h.side[s].members,
           x.retry = h.side[s].retry, x.ready = h.side[s].ready,
           x.alive => h.side[s].alive, x.in => h.side[s].in
    PROVE  Flags(h, [h EXCEPT !.side[s] = x])
<1>. DEFINE g == [h EXCEPT !.side[s] = x]
<1>1. g \in HostType
  BY DEF HostType
<1>2. /\ g.m = h.m /\ g.spare = h.spare /\ SameRest(h, g)
      /\ g.side = [h.side EXCEPT ![s] = x]
  BY DEF HostType, SameRest
<1>. HIDE DEF g
<1>3. ASSUME NEW t \in Sides PROVE SameSide(h, g, t) /\ g.side[t].ready = h.side[t].ready
  <2>1. g.side[t] = IF t = s THEN x ELSE h.side[t]
    BY <1>2 DEF HostType
  <2>2. CASE t = s
    BY <2>1, <2>2, <1>2 DEF SameSide
  <2>3. CASE t # s
    BY <2>1, <2>3, <1>2 DEF SameSide
  <2>. QED
    BY <2>2, <2>3
<1>4. Flags(h, g)
  BY <1>1, <1>2, <1>3 DEF Flags
<1>. QED
  BY <1>4 DEF g

\* _endStandbyNow sets flags.
LEMMA EndStandbyNowFlags ==
    ASSUME NEW h \in HostType, NEW s \in Sides, h.side[s].kind # "none"
    PROVE  Flags(h, EndStandbyNow(h, s))
<1>1. h.side[s] \in SideType
  BY DEF HostType
<1>. DEFINE x == Interrupted(h.side[s])
<1>2. /\ x \in SideType /\ x.kind = h.side[s].kind /\ x.phase = h.side[s].phase /\ x.gone = h.side[s].gone
      /\ x.chunk = h.side[s].chunk /\ x.listed = h.side[s].listed /\ x.members = h.side[s].members
      /\ x.retry = h.side[s].retry /\ x.ready = h.side[s].ready
      /\ x.alive = h.side[s].alive /\ x.in = h.side[s].in
  BY <1>1 DEF Interrupted, SideType
<1>. HIDE DEF x
<1>3. Flags(h, [h EXCEPT !.side[s] = x])
  BY <1>2, OneFlagged
<1>4. EndStandbyNow(h, s) = [h EXCEPT !.side[s] = x]
  BY DEF EndStandbyNow, x
<1>. QED
  BY <1>3, <1>4

\* Only a standby session holds spares, and only until its turn is over.
LEMMA SparesKind ==
    ASSUME NEW h \in HostType, NEW s \in Sides, \A r \in Roles : SpareRight(h, s, r), Spares(h, s) # {}
    PROVE  h.side[s].kind = "standby" /\ h.side[s].phase \in {"ready", "turn"}
<1>1. PICK r \in Roles : Held(h.spare[s][r])
  BY DEF Spares
<1>2. h.spare[s][r].ctx # Null /\ SpareRight(h, s, r)
  BY <1>1 DEF Held
<1>3. h.spare[s][r] # NoSpare
  BY <1>2 DEF NoSpare
<1>. QED
  BY <1>2, <1>3 DEF SpareRight

\* _endStandby sets flags.
LEMMA EndStandbyFlags ==
    ASSUME NEW h \in HostType, NEW s \in Sides, \A r \in Roles : SpareRight(h, s, r)
    PROVE  Flags(h, EndStandby(h, s))
<1>1. Spares(h, s) # {} => h.side[s].kind # "none"
  BY SparesKind
<1>. QED
  BY <1>1, FlagsSame, EndStandbyNowFlags DEF EndStandby

\* _kill sets flags.
LEMMA KilledAllFlags ==
    ASSUME NEW h \in HostType, NEW ss, \A s \in Sides : SideRight(h, s)
    PROVE  /\ Flags(h, KilledAll(h, ss))
           /\ \A s \in Sides : s \in ss => ~KilledAll(h, ss).side[s].alive
           /\ \A s \in Sides : s \notin ss => KilledAll(h, ss).side[s] = h.side[s]
<1>. DEFINE x(s) == IF s \in ss /\ ~h.side[s].gone
                    THEN [h.side[s] EXCEPT !.alive = FALSE, !.in = (@ /\ h.group = "released")]
                    ELSE h.side[s]
            sides == [s \in Sides |-> x(s)]
            g == KilledAll(h, ss)
<1>1. ASSUME NEW s \in Sides
      PROVE  /\ x(s) \in SideType /\ x(s).kind = h.side[s].kind /\ x(s).phase = h.side[s].phase
             /\ x(s).gone = h.side[s].gone
             /\ x(s).chunk = h.side[s].chunk /\ x(s).listed = h.side[s].listed /\ x(s).members = h.side[s].members
             /\ x(s).retry = h.side[s].retry /\ x(s).ready = h.side[s].ready
             /\ x(s).alive => h.side[s].alive
             /\ x(s).in => h.side[s].in
             /\ s \in ss => ~x(s).alive
             /\ h.side[s].kind = "none" => x(s) = h.side[s]
  <2>1. h.side[s] \in SideType /\ SideRight(h, s)
    BY DEF HostType
  <2>2. CASE s \in ss /\ ~h.side[s].gone
    <3>1. x(s) = [h.side[s] EXCEPT !.alive = FALSE, !.in = (h.side[s].in /\ h.group = "released")]
      BY <2>2
    <3>. HIDE DEF x
    <3>2. h.side[s].kind = "none" => h.side[s].alive = FALSE /\ h.side[s].in = FALSE
      BY <2>1 DEF SideRight, NoSide
    <3>3. ASSUME h.side[s].kind = "none" PROVE x(s) = h.side[s]
      <4>1. h.side[s].alive = FALSE /\ h.side[s].in = FALSE
        BY <3>2, <3>3
      <4>2. (h.side[s].in /\ h.group = "released") = FALSE
        BY <4>1
      <4>3. x(s) = [h.side[s] EXCEPT !.alive = FALSE, !.in = FALSE]
        BY <3>1, <4>2
      <4>4. PICK y \in SideType : y = h.side[s]
        BY <2>1
      <4>5. y.alive = FALSE /\ y.in = FALSE
        BY <4>1, <4>4
      <4>6. [y EXCEPT !.alive = FALSE, !.in = FALSE] = y
        BY <4>5 DEF SideType
      <4>. QED
        BY <4>3, <4>4, <4>6
    <3>. QED
      BY <3>1, <3>3, <2>1 DEF SideType
  <2>3. CASE ~(s \in ss /\ ~h.side[s].gone)
    BY <2>1, <2>3 DEF SideRight
  <2>. QED
    BY <2>2, <2>3
<1>2. g = [h EXCEPT !.side = sides]
  BY DEF KilledAll, HostType
<1>3. sides \in [Sides -> SideType] /\ \A s \in Sides : sides[s] = x(s)
  <2>. HIDE DEF x
  <2>. QED
    BY <1>1
<1>4. \A s \in Sides : s \notin ss => x(s) = h.side[s]
  OBVIOUS
<1>. HIDE DEF sides, g, x
<1>5. g \in HostType /\ g.m = h.m /\ g.spare = h.spare /\ SameRest(h, g) /\ g.side = sides
  BY <1>2, <1>3 DEF HostType, SameRest
<1>6. ASSUME NEW s \in Sides PROVE SameSide(h, g, s) /\ g.side[s].ready = h.side[s].ready
  BY <1>1, <1>3, <1>5 DEF SameSide
<1>7. Flags(h, g)
  BY <1>5, <1>6 DEF Flags
<1>8. \A s \in Sides : s \in ss => ~g.side[s].alive
  BY <1>1, <1>3, <1>5
<1>9. \A s \in Sides : s \notin ss => g.side[s] = h.side[s]
  BY <1>3, <1>4, <1>5
<1>. QED
  BY <1>7, <1>8, <1>9 DEF g

\* Retiring sets flags.
LEMMA RetiredFlags ==
    ASSUME NEW h \in HostType, NEW ss, \A s \in Sides : SideRight(h, s) /\ (s \in ss => h.side[s].in)
    PROVE  Flags(h, Retired(h, ss))
<1>. DEFINE x(s) == IF s \notin ss THEN h.side[s]
                    ELSE IF InUse(h, s) \/ Spares(h, s) = {} THEN [h.side[s] EXCEPT !.retire = TRUE]
                    ELSE [Interrupted(h.side[s]) EXCEPT !.retire = TRUE]
            sides == [s \in Sides |-> x(s)]
            g == Retired(h, ss)
<1>1. ASSUME NEW s \in Sides
      PROVE  /\ x(s) \in SideType /\ x(s).kind = h.side[s].kind /\ x(s).phase = h.side[s].phase
             /\ x(s).gone = h.side[s].gone
             /\ x(s).chunk = h.side[s].chunk /\ x(s).listed = h.side[s].listed /\ x(s).members = h.side[s].members
             /\ x(s).retry = h.side[s].retry /\ x(s).ready = h.side[s].ready
             /\ x(s).alive = h.side[s].alive
             /\ x(s).in = h.side[s].in
             /\ h.side[s].kind = "none" => x(s) = h.side[s]
  <2>1. h.side[s] \in SideType /\ SideRight(h, s)
    BY DEF HostType
  <2>2. h.side[s].kind = "none" => s \notin ss
    BY <2>1 DEF SideRight, NoSide
  <2>3. CASE s \notin ss
    BY <2>1, <2>3
  <2>4. CASE s \in ss
    BY <2>1, <2>2, <2>4 DEF Interrupted, SideType
  <2>. QED
    BY <2>3, <2>4
<1>2. g = [h EXCEPT !.side = sides]
  BY DEF Retired, HostType
<1>3. sides \in [Sides -> SideType] /\ \A s \in Sides : sides[s] = x(s)
  <2>. HIDE DEF x
  <2>. QED
    BY <1>1
<1>. HIDE DEF sides, g, x
<1>5. g \in HostType /\ g.m = h.m /\ g.spare = h.spare /\ SameRest(h, g) /\ g.side = sides
  BY <1>2, <1>3 DEF HostType, SameRest
<1>6. ASSUME NEW s \in Sides PROVE SameSide(h, g, s) /\ g.side[s].ready = h.side[s].ready
  BY <1>1, <1>3, <1>5 DEF SameSide
<1>7. Flags(h, g)
  BY <1>5, <1>6 DEF Flags
<1>. QED
  BY <1>7 DEF g

\* _releaseSpent sets flags.
LEMMA ReleaseSpentFlags ==
    ASSUME NEW h \in HostType
    PROVE  Flags(h, ReleaseSpent(h))
<1>. DEFINE H == {x \in HostType : Flags(h, x)}
            q == [s \in Sides |-> s]
<1>1. h \in H
  BY FlagsSame
<1>2. ASSUME NEW x \in H, NEW s \in Sides PROVE EndSpent(x, s) \in H
  <2>1. x \in HostType /\ Flags(h, x)
    OBVIOUS
  <2>2. Spent(x, s) => x.side[s].kind # "none"
    BY DEF Spent
  <2>3. Flags(x, EndSpent(x, s))
    BY <2>1, <2>2, EndStandbyNowFlags, FlagsSame DEF EndSpent
  <2>4. Flags(h, EndSpent(x, s))
    BY <2>1, <2>3, FlagsTrans
  <2>. QED
    BY <2>4 DEF Flags
<1>3. q \in Seq(Sides)
  <2>1. q \in [1..MaxSides -> Sides] /\ MaxSides \in Nat
    BY SubagentsAssumption DEF Sides
  <2>. QED
    BY <2>1
<1>. HIDE DEF q, H
<1>4. \A x \in H, s \in Sides : EndSpent(x, s) \in H
  BY <1>2
<1>6. EndEach(h, q) \in H
  BY <1>1, <1>3, <1>4, EndsStayIn, Zenon
<1>7. Flags(h, EndEach(h, q))
  BY <1>6 DEF H
<1>. QED
  BY <1>7, FlagsSame DEF ReleaseSpent, q, EndEach

\* Standby turns start aside.
LEMMA StartsAside ==
    ASSUME NEW h, NEW g, h \in HostType, h.out = Null, Starts(h, g)
    PROVE  Aside(h, g)
BY DEF Starts, Aside, SameMember, SameSide, Open

\* A set of naturals has a least element.
LEMMA Least == ASSUME NEW T, T \subseteq Nat, T # {} PROVE \E x \in T : \A y \in T : x <= y
<1>. SUFFICES ASSUME \A x \in T : \E y \in T : ~(x <= y) PROVE FALSE
  OBVIOUS
<1>. DEFINE S == {n \in Nat : \A m \in T : n < m}
<1>1. 0 \in S
  OBVIOUS
<1>2. ASSUME NEW n \in S PROVE n + 1 \in S
  <2>1. n + 1 \notin T
    <3>1. \A y \in T : y \in Nat /\ n < y
      OBVIOUS
    <3>2. \A y \in T : n + 1 <= y
      BY <3>1
    <3>. QED
      BY <3>2
  <2>2. \A m \in T : n < m /\ m # n + 1 /\ m \in Nat
    BY <2>1
  <2>. QED
    BY <2>2
<1>. HIDE DEF S
<1>3. S = Nat
  <2>1. S \in SUBSET Nat
    BY DEF S
  <2>. QED
    BY <1>1, <1>2, <2>1, SetInduction
<1>4. PICK x \in T : x \in Nat
  OBVIOUS
<1>5. x \in S
  BY <1>3, <1>4
<1>. QED
  BY <1>4, <1>5 DEF S

\* First picks one of the side sessions.
LEMMA FirstIsMember == ASSUME NEW ss \in SUBSET Sides, ss # {} PROVE First(ss) \in ss
<1>1. ss \subseteq Nat
  BY SubagentsAssumption DEF Sides
<1>2. PICK x \in ss : \A y \in ss : x <= y
  BY <1>1, Least
<1>. QED
  BY <1>2 DEF First

\* The spares of a standby turn are not started at first.
LEMMA StandbySparesType ==
    ASSUME NEW g \in HostType, NEW rs PROVE Unstarted(StandbySpares(g, rs))
<1>. DEFINE sp == StandbySpares(g, rs)
<1>1. ASSUME NEW r \in Roles PROVE sp[r] \in SpareType /\ ~sp[r].used /\ ~sp[r].pending /\ sp[r].member = Null
  <2>1. g.desired[r] \in Contexts \cup {Null}
    BY DEF HostType
  <2>2. NoSpare \in SpareType /\ ~NoSpare.used /\ ~NoSpare.pending /\ NoSpare.member = Null
    BY DEF NoSpare, SpareType
  <2>3. PICK y \in SpareType : y = NoSpare
    BY <2>2
  <2>4. [y EXCEPT !.ctx = g.desired[r]] \in SpareType
    BY <2>1 DEF SpareType
  <2>5. LET z == [y EXCEPT !.ctx = g.desired[r]] IN z.used = y.used /\ z.pending = y.pending /\ z.member = y.member
    BY DEF SpareType
  <2>. QED
    BY <2>2, <2>3, <2>4, <2>5 DEF StandbySpares
<1>2. sp \in [Roles -> SpareType]
  <2>1. sp = [r \in Roles |-> sp[r]]
    BY DEF StandbySpares
  <2>. HIDE DEF sp
  <2>. QED
    BY <1>1, <2>1
<1>. QED
  BY <1>1, <1>2 DEF Unstarted

\* One more standby turn starts.
LEMMA StandbyTurnStarts ==
    ASSUME NEW h \in HostType, NEW g \in HostType, Starts(h, g), NEW s \in Sides, NEW x \in SideType, NEW sp,
           Unstarted(sp), \A t \in Sides : SideRight(h, t),
           g.side[s].phase = "idle",
           x.kind = "standby", x.phase = "ready", ~x.gone, x.chunk = {}, x.listed = {},
           \/ g.side[s].kind = "none" /\ x.members = {}
           \/ /\ g.side[s].kind = "standby" /\ g.side[s].alive /\ x.members = g.side[s].members,
           NEW k, k = [g EXCEPT !.side[s] = x, !.spare[s] = sp]
    PROVE  Starts(h, k)
<1>1. \A r \in Roles : ~sp[r].used /\ ~sp[r].pending /\ sp[r].member = Null
  BY DEF Unstarted
<1>3. /\ k \in HostType /\ k.m = g.m
      /\ k.batch = g.batch /\ k.waiting = g.waiting /\ k.timer = g.timer /\ k.out = g.out
      /\ k.group = g.group /\ k.closed = g.closed
      /\ k.side = [g.side EXCEPT ![s] = x] /\ k.spare = [g.spare EXCEPT ![s] = sp]
  BY DEF HostType, Unstarted
<1>4. ASSUME NEW t \in Sides
      PROVE  (k.side[t] = h.side[t] /\ k.spare[t] = h.spare[t]) \/ StartsStandby(h, k, t)
  <2>1. /\ k.side[t] = IF t = s THEN x ELSE g.side[t]
        /\ k.spare[t] = IF t = s THEN sp ELSE g.spare[t]
    BY <1>3 DEF HostType
  <2>2. CASE t # s
    BY <2>1, <2>2 DEF Starts, StartsStandby
  <2>3. CASE t = s
    <3>1. g.side[s] = h.side[s]
      BY DEF Starts, StartsStandby
    <3>2. SideRight(h, s)
      OBVIOUS
    <3>3. h.side[s].gone = FALSE /\ h.side[s].members = x.members /\ h.side[s].kind \in {"none", "standby"}
      <4>1. h.side[s] \in SideType
        BY DEF HostType
      <4>2. CASE h.side[s].kind = "none"
        <5>1. h.side[s] = NoSide
          BY <3>2, <4>2 DEF SideRight
        <5>2. ~h.side[s].gone /\ h.side[s].members = {}
          BY <5>1 DEF NoSide
        <5>3. x.members = {}
          BY <3>1, <4>2
        <5>. QED
          BY <4>1, <4>2, <5>2, <5>3 DEF SideType
      <4>3. CASE h.side[s].kind = "standby"
        BY <3>1, <3>2, <4>1, <4>3 DEF SideRight, SideType
      <4>. QED
        BY <3>1, <4>2, <4>3
    <3>4. x.gone = FALSE
      BY DEF SideType
    <3>. QED
      BY <2>1, <2>3, <3>1, <3>3, <3>4, <1>1 DEF StartsStandby
  <2>. QED
    BY <2>2, <2>3
<1>5. Starts(h, k)
  BY <1>3, <1>4 DEF Starts
<1>. QED
  BY <1>5

\* On an idle standby session.
LEMMA UsableStarts ==
    ASSUME NEW h \in HostType, NEW g \in HostType, Starts(h, g), \A t \in Sides : SideRight(h, t),
           NEW u \in Sides, g.side[u].kind = "standby", g.side[u].alive, ~Busy(g, u), NEW rs
    PROVE  Starts(h, StandbyTurn(g, u, rs))
<1>1. g.side[u] \in SideType /\ g.side[u].phase = "idle"
  BY DEF HostType, Busy
<1>2. g.side[u] = h.side[u] /\ SideRight(h, u)
  BY <1>1 DEF Starts, StartsStandby
<1>3. ~g.side[u].gone /\ g.side[u].chunk = {} /\ g.side[u].listed = {}
  BY <1>1, <1>2 DEF SideRight
<1>4. PICK x \in SideType : x = [g.side[u] EXCEPT !.phase = "ready"]
  BY <1>1 DEF SideType
<1>5. /\ x.kind = "standby" /\ x.phase = "ready" /\ ~x.gone /\ x.chunk = {} /\ x.listed = {}
      /\ x.members = g.side[u].members
  BY <1>1, <1>3, <1>4 DEF SideType
<1>6. PICK sp : sp = StandbySpares(g, rs)
  OBVIOUS
<1>7. Unstarted(sp)
  BY <1>6, StandbySparesType
<1>8. PICK k : k = [g EXCEPT !.side[u] = x, !.spare[u] = sp]
  OBVIOUS
<1>9. Starts(h, k)
  BY <1>1, <1>5, <1>7, <1>8, StandbyTurnStarts, Zenon
<1>10. [g EXCEPT !.side[u].phase = "ready", !.spare[u] = sp] = k
  BY <1>4, <1>8
<1>11. StandbyTurn(g, u, rs) = k
  BY <1>6, <1>10 DEF StandbyTurn, StandbySpares
<1>. QED
  BY <1>9, <1>11

\* On a new one.
LEMMA SpawnStarts ==
    ASSUME NEW h \in HostType, NEW g \in HostType, Starts(h, g), \A t \in Sides : SideRight(h, t),
           NEW f \in Sides, g.side[f].kind = "none", NEW rs
    PROVE  Starts(h, StandbyTurn(Spawned(g, "standby", f), f, rs))
<1>1. g.side[f] = h.side[f] /\ SideRight(h, f)
  BY DEF Starts, StartsStandby
<1>2. g.side[f].phase = "idle"
  BY <1>1 DEF SideRight, NoSide
<1>. DEFINE y == [NoSide EXCEPT !.kind = "standby", !.in = TRUE, !.alive = TRUE, !.names = g.defs]
<1>3. y \in SideType /\ y.kind = "standby" /\ ~y.gone /\ y.chunk = {} /\ y.listed = {} /\ y.members = {}
  BY DEF NoSide, SideType, HostType
<1>. HIDE DEF y
<1>4. PICK x \in SideType : x = [y EXCEPT !.phase = "ready"]
  BY <1>3 DEF SideType
<1>5. /\ x.kind = "standby" /\ x.phase = "ready" /\ ~x.gone /\ x.chunk = {} /\ x.listed = {}
      /\ x.members = {}
  BY <1>3, <1>4 DEF SideType
<1>6. PICK sp : sp = StandbySpares(g, rs)
  OBVIOUS
<1>7. Unstarted(sp)
  BY <1>6, StandbySparesType
<1>8. PICK k : k = [g EXCEPT !.side[f] = x, !.spare[f] = sp]
  OBVIOUS
<1>9. Starts(h, k)
  BY <1>2, <1>5, <1>7, <1>8, StandbyTurnStarts, Zenon
<1>10. PICK l \in HostType : l = [g EXCEPT !.side[f] = y]
  BY <1>3 DEF HostType
<1>11. l.desired = g.desired /\ l.side[f] = y /\ l.side = [g.side EXCEPT ![f] = y]
  BY <1>10 DEF HostType
<1>12. StandbyTurn(l, f, rs) = [l EXCEPT !.side[f].phase = "ready", !.spare[f] = sp]
  BY <1>6, <1>11 DEF StandbyTurn, StandbySpares
<1>13. [l EXCEPT !.side[f].phase = "ready", !.spare[f] = sp] = [l EXCEPT !.side[f] = x, !.spare[f] = sp]
  BY <1>4, <1>11
<1>14. [l EXCEPT !.side[f] = x, !.spare[f] = sp] = k
  BY <1>8, <1>10
<1>15. Spawned(g, "standby", f) = l
  BY <1>10 DEF Spawned, y
<1>. QED
  BY <1>9, <1>12, <1>13, <1>14, <1>15

\* A round of _replenish starts at most one standby turn.
LEMMA RoundStarts ==
    ASSUME NEW h \in HostType, NEW a, a \in [h : HostType, go : BOOLEAN], Starts(h, a.h), NEW n \in Nat,
           \A t \in Sides : SideRight(h, t)
    PROVE  Round(a, n) \in [h : HostType, go : BOOLEAN] /\ Starts(h, Round(a, n).h)
<1>1. PICK g \in HostType : g = a.h /\ Starts(h, g)
  OBVIOUS
<1>. DEFINE rs == Missing(g, n)
            u == First(Usable(g, rs))
            f == First(Fresh(g))
            k1 == StandbyTurn(g, u, rs)
            k2 == [g EXCEPT !.backoff = TRUE]
            k3 == StandbyTurn(Spawned(g, "standby", f), f, rs)
<1>2. ASSUME Usable(g, rs) # {} PROVE Starts(h, k1)
  <2>. HIDE DEF rs
  <2>1. u \in Usable(g, rs)
    <3>1. Usable(g, rs) \in SUBSET Sides
      BY DEF OfKind, Usable
    <3>. QED
      BY <1>2, <3>1, FirstIsMember
  <2>. HIDE DEF u
  <2>2. u \in Sides /\ g.side[u].kind = "standby" /\ g.side[u].alive /\ ~Busy(g, u)
    BY <2>1 DEF OfKind, Usable
  <2>. QED
    BY <1>1, <2>2, UsableStarts
<1>3. ASSUME Fresh(g) # {} PROVE Starts(h, k3)
  <2>. HIDE DEF rs
  <2>1. f \in Fresh(g)
    BY <1>3, FirstIsMember DEF Fresh
  <2>. HIDE DEF f
  <2>2. f \in Sides /\ g.side[f].kind = "none"
    BY <2>1 DEF Fresh
  <2>. QED
    BY <1>1, <2>2, SpawnStarts
<1>4. Starts(h, k2)
  <2>1. /\ k2 \in HostType /\ k2.m = g.m /\ k2.side = g.side /\ k2.spare = g.spare
        /\ k2.batch = g.batch /\ k2.waiting = g.waiting /\ k2.timer = g.timer /\ k2.out = g.out
        /\ k2.group = g.group /\ k2.closed = g.closed
    BY <1>1 DEF HostType
  <2>. HIDE DEF k2
  <2>2. ASSUME NEW s \in Sides PROVE (k2.side[s] = h.side[s] /\ k2.spare[s] = h.spare[s]) \/ StartsStandby(h, k2, s)
    BY <1>1, <2>1 DEF Starts, StartsStandby
  <2>. QED
    BY <1>1, <2>1, <2>2 DEF Starts
<1>5. \/ Round(a, n) = a
      \/ Usable(g, rs) # {} /\ Round(a, n) = [h |-> k1, go |-> TRUE]
      \/ Round(a, n) = [h |-> g, go |-> FALSE]
      \/ Round(a, n) = [h |-> k2, go |-> FALSE]
      \/ Fresh(g) # {} /\ Round(a, n) = [h |-> k3, go |-> TRUE]
  BY <1>1 DEF Round
<1>. HIDE DEF k1, k2, k3, rs
<1>6. \A v, b : Starts(h, v) /\ b \in BOOLEAN =>
                [h |-> v, go |-> b] \in [h : HostType, go : BOOLEAN] /\ Starts(h, [h |-> v, go |-> b].h)
  BY DEF Starts
<1>7. CASE Round(a, n) = a
  BY <1>7
<1>8. CASE Usable(g, rs) # {} /\ Round(a, n) = [h |-> k1, go |-> TRUE]
  BY <1>2, <1>6, <1>8
<1>9. CASE Round(a, n) = [h |-> g, go |-> FALSE]
  BY <1>1, <1>6, <1>9
<1>10. CASE Round(a, n) = [h |-> k2, go |-> FALSE]
  BY <1>4, <1>6, <1>10
<1>11. CASE Fresh(g) # {} /\ Round(a, n) = [h |-> k3, go |-> TRUE]
  BY <1>3, <1>6, <1>11
<1>. QED
  BY <1>5, <1>7, <1>8, <1>9, <1>10, <1>11

\* None starts.
LEMMA StartsSame == ASSUME NEW h \in HostType PROVE Starts(h, h)
BY DEF Starts

\* _replenish starts standby turns.
LEMMA ReplenishStarts ==
    ASSUME NEW h \in HostType, spec \in Specs, \A t \in Sides : SideRight(h, t)
    PROVE  Starts(h, Replenish(h))
<1>. DEFINE H == {a \in [h : HostType, go : BOOLEAN] : Starts(h, a.h)}
            q == [n \in 1..Copies |-> n]
            v == [h |-> h, go |-> TRUE]
<1>1. v \in H
  BY StartsSame
<1>2. ASSUME NEW a \in H, NEW n \in Nat PROVE Round(a, n) \in H
  <2>1. a \in [h : HostType, go : BOOLEAN] /\ Starts(h, a.h)
    OBVIOUS
  <2>2. Round(a, n) \in [h : HostType, go : BOOLEAN] /\ Starts(h, Round(a, n).h)
    BY <2>1, RoundStarts
  <2>. QED
    BY <2>2
<1>3. q \in Seq(Nat)
  <2>1. Copies \in Nat
    BY SubagentsAssumption DEF Copies
  <2>2. q \in [1..Copies -> Nat]
    BY <2>1
  <2>. QED
    BY <2>1, <2>2
<1>. HIDE DEF q, H, v
<1>4. \A x \in H, y \in Nat : Round(x, y) \in H
  BY <1>2
<1>6. RoundEach(v, q) \in H
  BY <1>1, <1>4, <1>3, RoundsStayIn, Zenon
<1>7. Starts(h, RoundEach(v, q).h)
  BY <1>6 DEF H
<1>8. Replenish(h) = h \/ Replenish(h) = RoundEach(v, q).h
  BY DEF Replenish, RoundEach, q, v
<1>. QED
  BY <1>7, <1>8, StartsSame

\* _replenish keeps the invariant's parts.
LEMMA ReplenishKeeps ==
    ASSUME NEW h, NEW n, NEW e, Right(h, n, e)
    PROVE  Right(Replenish(h), n, e) /\ (Served(h) => Served(Replenish(h)))
<1>1. h \in HostType /\ h.out = Null /\ spec \in Specs /\ \A t \in Sides : SideRight(h, t)
  BY DEF Right, Typed
<1>2. Aside(h, Replenish(h))
  BY <1>1, ReplenishStarts, StartsAside
<1>. QED
  BY <1>2, AsideKeeps

\* Flags keep the invariant's parts.
LEMMA FlagsKeeps ==
    ASSUME NEW h, NEW g, NEW n, NEW e, Right(h, n, e), Flags(h, g)
    PROVE  Right(g, n, e) /\ (Served(h) => Served(g))
<1>1. h \in HostType /\ h.out = Null
  BY DEF Right, Typed
<1>2. Aside(h, g)
  BY <1>1, FlagsAside
<1>. QED
  BY <1>2, AsideKeeps

----------------------------------------------------------------------------
(* Draining the waiting chunks                                              *)

\* Taking the first chunk off what waits.
LEMMA HeadWaits ==
    ASSUME NEW h, NEW n, NEW e, Right(h, n, e), h.waiting # <<>>
    PROVE  /\ HeadPending(h) \in SUBSET Decisions
           /\ Tail(h.waiting) \in Seq(SUBSET Decisions) /\ Len(Tail(h.waiting)) = Len(h.waiting) - 1
           /\ \A d \in HeadPending(h) : /\ Waits(h, d) /\ h.m[d].told # "none" /\ h.m[d].spare = Null /\ ~h.m[d].used
                                        /\ \A i \in 1..Len(Tail(h.waiting)) : d \notin Tail(h.waiting)[i]
           /\ \A d \in Decisions : Waits(h, d) /\ Pending(h, d) =>
                  d \in HeadPending(h) \/ \E i \in 1..Len(Tail(h.waiting)) : d \in Tail(h.waiting)[i]
<1>. DEFINE q == h.waiting
            w == Tail(q)
<1>1. q \in Seq(SUBSET Decisions) /\ q # <<>> /\ \A d \in Decisions : ApartOn(h, d)
  BY DEF Right, Typed, HostType
<1>2. /\ w \in Seq(SUBSET Decisions) /\ Len(w) = Len(q) - 1 /\ Len(q) \in Nat \ {0}
      /\ Head(q) = q[1] /\ Head(q) \in SUBSET Decisions
      /\ \A i \in 1..Len(w) : i + 1 \in 1..Len(q) /\ w[i] = q[i + 1]
      /\ \A i \in 1..Len(q) : i = 1 \/ (i - 1 \in 1..Len(w) /\ w[i - 1] = q[i])
  BY <1>1, TailWaits
<1>. HIDE DEF w
<1>3. ASSUME NEW d \in HeadPending(h)
      PROVE  /\ Waits(h, d) /\ h.m[d].told # "none" /\ h.m[d].spare = Null /\ ~h.m[d].used
             /\ \A i \in 1..Len(w) : d \notin w[i]
  <2>1. d \in Decisions /\ d \in q[1] /\ 1 \in 1..Len(q)
    BY <1>2 DEF HeadPending
  <2>2. Waits(h, d)
    BY <2>1 DEF Waits
  <2>3. ASSUME NEW i \in 1..Len(w), d \in w[i] PROVE FALSE
    <3>1. i + 1 \in 1..Len(q) /\ d \in q[i + 1] /\ i # 0
      BY <1>2, <2>3
    <3>2. i + 1 = 1
      BY <1>1, <2>1, <3>1 DEF ApartOn
    <3>. QED
      BY <1>2, <3>2
  <2>4. h.m[d].told # "none" /\ h.m[d].spare = Null /\ ~h.m[d].used
    BY <1>1, <2>1, <2>2 DEF ApartOn
  <2>. QED
    BY <2>2, <2>3, <2>4
<1>4. ASSUME NEW d \in Decisions, Waits(h, d), Pending(h, d)
      PROVE  d \in HeadPending(h) \/ \E i \in 1..Len(w) : d \in w[i]
  <2>1. PICK i \in 1..Len(q) : d \in q[i]
    BY <1>4 DEF Waits
  <2>. QED
    BY <1>2, <1>4, <2>1 DEF HeadPending
<1>5. HeadPending(h) \in SUBSET Decisions
  BY <1>2 DEF HeadPending
<1>. QED
  BY <1>2, <1>3, <1>4, <1>5 DEF w

\* A chunk that waited is taken up by a side session that has none.
LEMMA FanKeeps ==
    ASSUME NEW h, NEW n, NEW e, Right(h, n, e), h.waiting # <<>>, NEW s \in Sides, NEW x \in SideType,
           x.kind = "fan", x.phase = "ready", x.chunk = HeadPending(h), x.listed = {}, x.members = {},
           ~x.retry, ~x.gone,
           h.side[s].kind \in {"none", "fan"}, h.side[s].phase = "idle", h.side[s].chunk = {}, ~h.side[s].gone,
           NEW g, g = [h EXCEPT !.waiting = Tail(@), !.side[s] = x]
    PROVE  Right(g, n, e)
<1>1. /\ h \in HostType /\ h.out = Null /\ \A r \in Roles : SpareRight(h, s, r)
      /\ \A d \in Decisions : MemberRight(h, d) /\ ApartOn(h, d) /\ AgreeOn(h, n, e, d)
      /\ (Open(h) => \A d \in Decisions : KeptOn(h, e, d))
  BY DEF Right, Typed, Kept
<1>2. /\ HeadPending(h) \in SUBSET Decisions
      /\ Tail(h.waiting) \in Seq(SUBSET Decisions)
      /\ \A d \in HeadPending(h) : /\ Waits(h, d) /\ h.m[d].told # "none" /\ h.m[d].spare = Null /\ ~h.m[d].used
                                   /\ \A i \in 1..Len(Tail(h.waiting)) : d \notin Tail(h.waiting)[i]
      /\ \A d \in Decisions : Waits(h, d) /\ Pending(h, d) =>
             d \in HeadPending(h) \/ \E i \in 1..Len(Tail(h.waiting)) : d \in Tail(h.waiting)[i]
  BY HeadWaits
<1>3. /\ g.m = h.m /\ g.batch = h.batch /\ g.timer = h.timer /\ g.spare = h.spare /\ g.out = h.out
      /\ g.waiting = Tail(h.waiting) /\ g.side = [h.side EXCEPT ![s] = x]
      /\ g.group = h.group /\ g.closed = h.closed
  BY <1>1 DEF HostType
<1>4. g \in HostType
  BY <1>1, <1>2 DEF HostType
<1>5. /\ g.side[s] = x /\ \A t \in Sides : t = s \/ g.side[t] = h.side[t]
  BY <1>1, <1>3 DEF HostType
<1>6. OneSide(h, g, s)
  BY <1>1, <1>3, <1>4, <1>5 DEF OneSide, Open
<1>7. SideRight(g, s)
  BY <1>5 DEF SideRight
<1>8. ASSUME NEW r \in Roles PROVE SpareRight(g, s, r)
  <2>1. SpareRight(h, s, r) /\ h.side[s].kind # "standby"
    BY <1>1
  <2>2. h.spare[s][r] = NoSpare
    BY <2>1 DEF SpareRight
  <2>3. NoSpare.member = Null /\ ~NoSpare.pending /\ ~NoSpare.used
    BY DEF NoSpare
  <2>. QED
    BY <1>3, <2>2, <2>3 DEF SpareRight
<1>9. ASSUME NEW d \in Decisions PROVE OneFor(h, g, n, e, s, d)
  <2>1. /\ Pending(g, d) <=> Pending(h, d)
        /\ Waits(g, d) <=> \E i \in 1..Len(Tail(h.waiting)) : d \in Tail(h.waiting)[i]
    BY <1>3 DEF Pending, Waits
  <2>2. HeldRight(g, s, d)
    BY <1>2, <1>3, <1>5 DEF HeldRight
  <2>3. Ours(h, d) => Ours(g, d)
    BY <1>3 DEF Ours
  <2>4. d \in g.side[s].chunk => Waits(h, d) /\ ~Waits(g, d)
    BY <1>2, <1>5, <2>1
  <2>5. d \notin g.side[s].members
    BY <1>5
  <2>6. Pending(h, d) => /\ d \notin h.side[s].chunk
                         /\ Waits(h, d) => Waits(g, d) \/ d \in g.side[s].chunk
                         /\ g.side[s].phase # "turn" /\ g.side[s].phase # "admitting" /\ ~g.side[s].gone
    BY <1>2, <1>5, <2>1
  <2>7. Open(g) /\ Pending(h, d) /\ h.m[d].spare = s => ~h.m[d].admitted
    <3>1. SUFFICES ASSUME Open(g), Pending(h, d), h.m[d].spare = s PROVE FALSE
      OBVIOUS
    <3>2. Ours(h, d)
      BY <1>1, <3>1, SubagentsAssumption DEF MemberRight
    <3>3. SpareRight(h, s, Role(d)) /\ h.side[s].kind # "standby" /\ d # Null
      BY <1>1, SubagentsAssumption DEF Role, Right, Typed
    <3>4. h.spare[s][Role(d)].member = Null
      BY <3>3 DEF SpareRight, NoSpare
    <3>. QED
      BY <3>1, <3>2, <3>3, <3>4 DEF Ours
  <2>. QED
    BY <2>1, <2>2, <2>3, <2>4, <2>5, <2>6, <2>7 DEF OneFor
<1>10. ~g.side[s].gone
  BY <1>5
<1>. QED
  BY <1>6, <1>7, <1>8, <1>9, <1>10, SideKeeps

\* A chunk whose decisions are all over is dropped.
LEMMA TailKeeps ==
    ASSUME NEW h, NEW n, NEW e, Right(h, n, e), h.waiting # <<>>, HeadPending(h) = {},
           NEW g, g = [h EXCEPT !.waiting = Tail(@)]
    PROVE  Right(g, n, e)
<1>1. /\ h \in HostType /\ h.out = Null /\ (\A s \in Sides, r \in Roles : SpareRight(h, s, r))
      /\ \A s \in Sides : SideRight(h, s)
      /\ \A s \in Sides, d \in Decisions : HeldRight(h, s, d)
      /\ \A d \in Decisions : MemberRight(h, d) /\ ApartOn(h, d) /\ AgreeOn(h, n, e, d)
      /\ Kept(h, e)
  BY DEF Right, Typed
<1>2. /\ Tail(h.waiting) \in Seq(SUBSET Decisions)
      /\ \A d \in Decisions : Waits(h, d) /\ Pending(h, d) =>
             \E i \in 1..Len(Tail(h.waiting)) : d \in Tail(h.waiting)[i]
  BY HeadWaits
<1>3. /\ g.m = h.m /\ g.batch = h.batch /\ g.timer = h.timer /\ g.spare = h.spare /\ g.out = h.out
      /\ g.waiting = Tail(h.waiting) /\ g.side = h.side
      /\ g.group = h.group /\ g.closed = h.closed
  BY <1>1 DEF HostType
<1>4. g \in HostType
  BY <1>1, <1>2 DEF HostType
<1>5. PICK s \in Sides : TRUE
  BY SubagentsAssumption DEF Sides
<1>6. OneSide(h, g, s)
  BY <1>1, <1>3, <1>4 DEF OneSide, Open
<1>7. SideRight(g, s) /\ \A r \in Roles : SpareRight(g, s, r)
  BY <1>1, <1>3 DEF SideRight, SpareRight
<1>8. Open(g) => Kept(h, e) /\ Open(h)
  BY <1>1, <1>3 DEF Open
<1>9. ASSUME NEW d \in Decisions PROVE OneFor(h, g, n, e, s, d)
  <2>1. /\ Pending(g, d) <=> Pending(h, d)
        /\ Waits(g, d) <=> \E i \in 1..Len(Tail(h.waiting)) : d \in Tail(h.waiting)[i]
    BY <1>3 DEF Pending, Waits
  <2>2. HeldRight(g, s, d)
    BY <1>1, <1>3, <2>1 DEF HeldRight
  <2>3. Ours(h, d) => Ours(g, d)
    BY <1>3 DEF Ours
  <2>4. Open(g) => KeptOn(h, e, d)
    BY <1>8 DEF Kept
  <2>. QED
    BY <1>2, <1>3, <2>1, <2>2, <2>3, <2>4 DEF OneFor, KeptOn
<1>10. Open(g) /\ g.side[s].in /\ g.side[s].gone => s = e
  BY <1>3, <1>8 DEF Kept
<1>. QED
  BY <1>6, <1>7, <1>9, <1>10, SideKeeps

\* Draining goes on.
LEMMA DrainsTrans ==
    ASSUME NEW h, NEW g, NEW k, Drains(h, g), Drains(g, k) PROVE Drains(h, k)
<1>1. ASSUME NEW d \in Decisions PROVE k.m[d] = h.m[d] \/ (Pending(h, d) /\ ~Pending(k, d))
  BY DEF Drains, Pending
<1>. QED
  BY <1>1 DEF Drains

\* Nothing is drained.
LEMMA DrainsSame == ASSUME NEW h \in HostType PROVE Drains(h, h)
BY DEF Drains

\* A chunk whose decisions are refused is dropped.
LEMMA UnsentKeeps ==
    ASSUME NEW h, NEW n, NEW e, Right(h, n, e), h.waiting # <<>>
    PROVE  /\ Right(Unsent(h, HeadPending(h)), n, e) /\ Drains(h, Unsent(h, HeadPending(h)))
           /\ Unsent(h, HeadPending(h)).waiting = Tail(h.waiting)
<1>. DEFINE ds == HeadPending(h)
            u == SettledAll(h, ds, "unsent")
            g == Unsent(h, ds)
<1>1. h \in HostType
  BY DEF Right, Typed
<1>2. \A d \in ds : ~h.m[d].used /\ d \in Decisions
  BY HeadWaits
<1>3. Right(u, n, e)
  <2>. HIDE DEF ds
  <2>. QED
    BY <1>2, SettledAllKeeps DEF Ended
<1>4. /\ u \in HostType /\ u.side = h.side /\ u.spare = h.spare /\ SameRest(h, u)
      /\ \A d \in Decisions : u.m[d] = IF d \in ds /\ Pending(h, d) THEN [h.m[d] EXCEPT !.told = "unsent"] ELSE h.m[d]
  <2>. HIDE DEF ds
  <2>. QED
    BY <1>1, SettledAllIs DEF Ended
<1>5. g = [u EXCEPT !.waiting = Tail(@)]
  BY <1>1 DEF Unsent, SettledAll, HostType, Pending
<1>. HIDE DEF u, g
<1>6. \A d \in Decisions : u.m[d].told = IF d \in ds /\ Pending(h, d) THEN "unsent" ELSE h.m[d].told
  <2>1. \A d \in Decisions : h.m[d] \in MemberType
    BY <1>1 DEF HostType
  <2>. QED
    BY <1>4, <2>1 DEF MemberType
<1>7. u.waiting = h.waiting
  BY <1>4 DEF SameRest
<1>8. HeadPending(u) = {}
  <2>1. \A d \in Head(h.waiting) : Pending(h, d) => d \in Decisions /\ d \in ds
    BY <1>2 DEF HeadPending
  <2>2. Head(h.waiting) \subseteq Decisions
    <3>1. h.waiting \in Seq(SUBSET Decisions) /\ h.waiting # <<>>
      BY <1>1 DEF HostType
    <3>. QED
      BY <3>1
  <2>. QED
    BY <1>6, <1>7, <2>1, <2>2 DEF HeadPending, Pending
<1>9. Right(g, n, e)
  BY <1>3, <1>5, <1>7, <1>8, TailKeeps
<1>10. /\ g.m = u.m /\ g.batch = u.batch /\ g.timer = u.timer /\ g.spare = u.spare /\ g.out = u.out
       /\ g.waiting = Tail(u.waiting) /\ g.side = u.side /\ g.group = u.group /\ g.closed = u.closed
  BY <1>4, <1>5 DEF HostType
<1>11. g \in HostType
  BY <1>9 DEF Right, Typed
<1>12. Drains(h, g)
  BY <1>4, <1>6, <1>10, <1>11 DEF Drains, SameRest, Pending
<1>. QED
  BY <1>7, <1>9, <1>10, <1>12 DEF g, ds

\* The side sessions of a kind.
LEMMA OfKindSides == ASSUME NEW h, NEW k PROVE OfKind(h, k) \in SUBSET Sides /\ Idle(h) \in SUBSET Sides
BY DEF OfKind, Idle

\* Making room for a side session.
LEMMA RoomIs ==
    ASSUME NEW h \in HostType, \A s \in Sides : SideRight(h, s), GroupFull(h) => Idle(h) # {}
    PROVE  Flags(h, Room(h)) /\ Drains(h, Room(h))
<1>1. CASE ~GroupFull(h)
  BY <1>1, FlagsSame, DrainsSame DEF Room
<1>2. CASE GroupFull(h)
  <2>1. First(Idle(h)) \in Idle(h) /\ Idle(h) \in SUBSET Sides
    BY <1>2, FirstIsMember, OfKindSides
  <2>2. PICK f \in Sides : f = First(Idle(h)) /\ h.side[f].in /\ h.side[f].kind = "fan"
    BY <2>1 DEF Idle, OfKind
  <2>3. PICK k : k = Killed(h, f)
    OBVIOUS
  <2>4. Flags(h, k) /\ \A s \in Sides : s # f => k.side[s] = h.side[s]
    BY <2>3, KilledAllFlags DEF Killed
  <2>5. k \in HostType /\ k.side[f] \in SideType /\ k.side[f].kind # "none"
    BY <2>2, <2>4 DEF Flags, SameSide, HostType
  <2>6. PICK x \in SideType : x = [k.side[f] EXCEPT !.in = FALSE]
    BY <2>5 DEF SideType
  <2>7. /\ x.kind = k.side[f].kind /\ x.phase = k.side[f].phase /\ x.gone = k.side[f].gone
        /\ x.chunk = k.side[f].chunk /\ x.listed = k.side[f].listed /\ x.members = k.side[f].members
        /\ x.retry = k.side[f].retry /\ x.ready = k.side[f].ready
        /\ x.alive = k.side[f].alive /\ ~x.in
    BY <2>5, <2>6 DEF SideType
  <2>8. PICK g : g = [k EXCEPT !.side[f] = x]
    OBVIOUS
  <2>9. Flags(k, g)
    BY <2>5, <2>7, <2>8, OneFlagged
  <2>10. Flags(h, g)
    BY <2>4, <2>9, FlagsTrans
  <2>11. g.side = [k.side EXCEPT ![f] = x]
    BY <2>5, <2>8 DEF HostType
  <2>12. \A s \in Sides : s # f => g.side[s] = h.side[s]
    BY <2>4, <2>5, <2>11 DEF HostType
  <2>13. Drains(h, g)
    BY <2>2, <2>10, <2>12 DEF Flags, SameRest, SameSide, Drains
  <2>14. Room(h) = g
    BY <1>2, <2>2, <2>3, <2>6, <2>8 DEF Room
  <2>. QED
    BY <2>10, <2>13, <2>14
<1>. QED
  BY <1>1, <1>2

\* A chunk to a free side session.
LEMMA FitKeeps ==
    ASSUME NEW h, NEW n, NEW e, Right(h, n, e), h.waiting # <<>>,
           NEW s \in Sides, h.side[s].kind = "fan", h.side[s].alive, h.side[s].in, ~Busy(h, s)
    PROVE  /\ Right(Fan(h, s, HeadPending(h)), n, e) /\ Drains(h, Fan(h, s, HeadPending(h)))
           /\ Fan(h, s, HeadPending(h)).waiting = Tail(h.waiting)
<1>1. h \in HostType /\ h.side[s] \in SideType /\ SideRight(h, s)
  BY DEF Right, Typed, HostType
<1>2. HeadPending(h) \in SUBSET Decisions /\ Tail(h.waiting) \in Seq(SUBSET Decisions)
  BY HeadWaits
<1>3. h.side[s].phase = "idle" /\ h.side[s].chunk = {} /\ ~h.side[s].gone /\ h.side[s].members = {}
  BY <1>1 DEF SideRight, Busy
<1>4. PICK ds \in SUBSET Decisions : ds = HeadPending(h)
  BY <1>2
<1>5. PICK x \in SideType : x = [h.side[s] EXCEPT !.phase = "ready", !.chunk = ds, !.listed = {}, !.retry = FALSE]
  BY <1>1 DEF SideType
<1>6. /\ x.kind = "fan" /\ x.phase = "ready" /\ x.chunk = ds /\ x.listed = {} /\ x.members = {}
      /\ ~x.retry /\ ~x.gone
  BY <1>1, <1>3, <1>5 DEF SideType
<1>7. PICK g : g = [h EXCEPT !.waiting = Tail(@), !.side[s] = x]
  OBVIOUS
<1>8. Right(g, n, e)
  <2>1. x.chunk = HeadPending(h) /\ h.side[s].kind \in {"none", "fan"}
    BY <1>4, <1>6
  <2>. QED
    BY <1>3, <1>6, <1>7, <2>1, FanKeeps, Zenon
<1>9. /\ g.m = h.m /\ g.batch = h.batch /\ g.timer = h.timer /\ g.spare = h.spare
      /\ g.waiting = Tail(h.waiting) /\ g.side = [h.side EXCEPT ![s] = x]
      /\ g.group = h.group /\ g.closed = h.closed
  BY <1>1, <1>7 DEF HostType
<1>10. \A t \in Sides : t = s \/ g.side[t] = h.side[t]
  BY <1>1, <1>9 DEF HostType
<1>11. Drains(h, g)
  BY <1>3, <1>8, <1>9, <1>10 DEF Drains, Right, Typed
<1>12. Fan(h, s, HeadPending(h)) = g
  BY <1>4, <1>5, <1>7 DEF Fan
<1>. QED
  BY <1>8, <1>9, <1>11, <1>12

\* A chunk to a new side session.
LEMMA SpawnKeeps ==
    ASSUME NEW h, NEW n, NEW e, Right(h, n, e), h.waiting # <<>>, NEW s \in Sides, h.side[s].kind = "none"
    PROVE  /\ Right(Fan(Spawned(h, "fan", s), s, HeadPending(h)), n, e)
           /\ Drains(h, Fan(Spawned(h, "fan", s), s, HeadPending(h)))
           /\ Fan(Spawned(h, "fan", s), s, HeadPending(h)).waiting = Tail(h.waiting)
<1>1. h \in HostType /\ h.side[s] \in SideType /\ SideRight(h, s)
  BY DEF Right, Typed, HostType
<1>2. HeadPending(h) \in SUBSET Decisions /\ Tail(h.waiting) \in Seq(SUBSET Decisions)
  BY HeadWaits
<1>3. h.side[s].phase = "idle" /\ h.side[s].chunk = {} /\ ~h.side[s].gone
  BY <1>1 DEF SideRight, NoSide
<1>4. PICK ds \in SUBSET Decisions : ds = HeadPending(h)
  BY <1>2
<1>5. PICK y \in SideType : y = [NoSide EXCEPT !.kind = "fan", !.in = TRUE, !.alive = TRUE, !.names = h.defs]
  BY <1>1 DEF NoSide, SideType, HostType
<1>6. y.kind = "fan" /\ y.members = {} /\ ~y.gone
  BY <1>5 DEF NoSide, SideType
<1>7. PICK x \in SideType : x = [y EXCEPT !.phase = "ready", !.chunk = ds, !.listed = {}, !.retry = FALSE]
  BY DEF SideType
<1>8. /\ x.kind = "fan" /\ x.phase = "ready" /\ x.chunk = ds /\ x.listed = {} /\ x.members = {}
      /\ ~x.retry /\ ~x.gone
  BY <1>6, <1>7 DEF SideType
<1>9. PICK g : g = [h EXCEPT !.waiting = Tail(@), !.side[s] = x]
  OBVIOUS
<1>10. Right(g, n, e)
  <2>1. x.chunk = HeadPending(h) /\ h.side[s].kind \in {"none", "fan"}
    BY <1>4, <1>8
  <2>. QED
    BY <1>3, <1>8, <1>9, <2>1, FanKeeps, Zenon
<1>11. /\ g.m = h.m /\ g.batch = h.batch /\ g.timer = h.timer /\ g.spare = h.spare
       /\ g.waiting = Tail(h.waiting) /\ g.side = [h.side EXCEPT ![s] = x]
       /\ g.group = h.group /\ g.closed = h.closed
  BY <1>1, <1>9 DEF HostType
<1>12. \A t \in Sides : t = s \/ g.side[t] = h.side[t]
  BY <1>1, <1>11 DEF HostType
<1>13. Drains(h, g)
  BY <1>3, <1>10, <1>11, <1>12 DEF Drains, Right, Typed
<1>14. PICK k \in HostType : k = [h EXCEPT !.side[s] = y]
  BY <1>1 DEF HostType
<1>15. k.side = [h.side EXCEPT ![s] = y] /\ k.side[s] = y /\ k.waiting = h.waiting
  BY <1>1, <1>14 DEF HostType
<1>16. Fan(k, s, ds) = [k EXCEPT !.waiting = Tail(@), !.side[s] = x]
  BY <1>7, <1>15 DEF Fan
<1>17. [k EXCEPT !.waiting = Tail(@), !.side[s] = x] = g
  BY <1>9, <1>14, <1>15
<1>18. Spawned(h, "fan", s) = k
  BY <1>5, <1>14 DEF Spawned
<1>. QED
  BY <1>4, <1>10, <1>11, <1>13, <1>16, <1>17, <1>18

\* With no room for a side session, one of those there takes up what waits later.
LEMMA FullServes ==
    ASSUME NEW h, NEW n, NEW e, Right(h, n, e), LeftGroup(h, e), Open(h), GroupFull(h), Idle(h) = {}
    PROVE  \E s \in Sides : Serves(h, s)
<1>1. OfKind(h, "fan") # {}
  <2>1. Cardinality({}) = 0
    BY FS_EmptySet
  <2>2. Cardinality(OfKind(h, "fan")) # 0
    <3>1. Cardinality(OfKind(h, "fan")) >= MaxSessions /\ MaxSessions \in Nat \ {0}
      BY SubagentsAssumption DEF GroupFull
    <3>. QED
      BY <3>1
  <2>. QED
    BY <2>1, <2>2
<1>2. PICK s \in Sides : h.side[s].in /\ h.side[s].kind = "fan"
  BY <1>1 DEF OfKind
<1>3. h.side[s].phase # "idle"
  BY <1>2 DEF Idle, OfKind, Busy
<1>4. ~h.side[s].gone
  <2>1. \A t \in Sides : h.side[t].in /\ h.side[t].gone => t = e
    BY DEF Right, Kept
  <2>2. e \in Sides \cup {Null} /\ Null \notin Sides
    BY SubagentsAssumption DEF Right, Typed
  <2>. QED
    BY <1>2, <2>1, <2>2 DEF LeftGroup
<1>. QED
  BY <1>2, <1>3, <1>4 DEF Serves, Busy

\* _drain may go on from a right host.
LEMMA DrainedPair ==
    ASSUME NEW h, NEW n, NEW e, NEW g, Right(g, n, e), Drains(h, g), NEW a, a = [h |-> g, go |-> TRUE]
    PROVE  DrainedTo(h, n, e, a) /\ a.h = g /\ a.go
BY DEF DrainedTo, Right, Typed

\* One turn of _drain's loop.
LEMMA DrainOneKeeps ==
    ASSUME NEW h, NEW n, NEW e, LeftGroup(h, e), e \in Sides \cup {Null}, NEW a, DrainedTo(h, n, e, a), NEW any
    PROVE  /\ DrainedTo(h, n, e, DrainOne(a, any))
           /\ a.go /\ a.h.waiting # <<>> /\ DrainOne(a, any).go =>
                DrainOne(a, any).h.waiting = Tail(a.h.waiting)
<1>1. PICK g \in HostType : g = a.h /\ Right(g, n, e) /\ Drains(h, g)
  BY DEF DrainedTo
<1>2. LeftGroup(g, e)
  BY <1>1 DEF LeftGroup, Drains, Open
<1>3. \A s \in Sides : SideRight(g, s)
  BY <1>1 DEF Right
<1>4. CASE DrainOne(a, any) = a /\ ~(a.go /\ g.waiting # <<>>)
  BY <1>1, <1>4
<1>5. CASE g.waiting # <<>> /\ HeadPending(g) = {} /\ DrainOne(a, any) = [h |-> [g EXCEPT !.waiting = Tail(@)], go |-> TRUE]
  <2>1. PICK k : k = [g EXCEPT !.waiting = Tail(@)]
    OBVIOUS
  <2>2. Right(k, n, e)
    BY <1>1, <1>5, <2>1, TailKeeps
  <2>3. /\ k.m = g.m /\ k.batch = g.batch /\ k.timer = g.timer /\ k.spare = g.spare /\ k.side = g.side
        /\ k.group = g.group /\ k.closed = g.closed /\ k.waiting = Tail(g.waiting) /\ k \in HostType
    BY <2>1, <2>2 DEF HostType, Right, Typed
  <2>4. Drains(g, k)
    BY <2>3 DEF Drains
  <2>5. Drains(h, k)
    BY <1>1, <2>4, DrainsTrans
  <2>. QED
    <3>1. PICK b : b = [h |-> k, go |-> TRUE]
      OBVIOUS
    <3>2. DrainOne(a, any) = b
      BY <1>5, <2>1, <3>1
    <3>3. DrainedTo(h, n, e, b) /\ b.h = k /\ b.go
      BY <2>2, <2>5, <3>1, DrainedPair
    <3>. QED
      BY <1>1, <2>3, <3>2, <3>3
<1>6. CASE g.waiting # <<>> /\ Fit(g, HeadPending(g)) # {}
           /\ DrainOne(a, any) = [h |-> Fan(g, First(Fit(g, HeadPending(g))), HeadPending(g)), go |-> TRUE]
  <2>1. PICK s : s = First(Fit(g, HeadPending(g)))
    OBVIOUS
  <2>2. s \in Fit(g, HeadPending(g))
    <3>1. Fit(g, HeadPending(g)) \in SUBSET Sides
      BY DEF Fit, Idle, OfKind
    <3>. QED
      BY <1>6, <2>1, <3>1, FirstIsMember
  <2>3. s \in Sides /\ g.side[s].kind = "fan" /\ g.side[s].alive /\ g.side[s].in /\ ~Busy(g, s)
    BY <2>2 DEF Fit, Idle, OfKind
  <2>4. PICK k : k = Fan(g, s, HeadPending(g))
    OBVIOUS
  <2>5. Right(k, n, e) /\ Drains(g, k) /\ k.waiting = Tail(g.waiting)
    BY <1>1, <1>6, <2>3, <2>4, FitKeeps
  <2>6. Drains(h, k)
    BY <1>1, <2>5, DrainsTrans
  <2>. QED
    BY <1>1, <1>6, <2>1, <2>4, <2>5, <2>6, DrainedPair
<1>7. CASE GroupFull(g) /\ Idle(g) = {} /\ DrainOne(a, any) = [h |-> g, go |-> FALSE]
  <2>1. Open(g) => \E s \in Sides : Serves(g, s)
    BY <1>1, <1>2, <1>7, FullServes
  <2>2. PICK b : b = [h |-> g, go |-> FALSE]
    OBVIOUS
  <2>3. b \in [h : HostType, go : BOOLEAN] /\ b.h = g /\ ~b.go
    BY <2>2
  <2>4. DrainedTo(h, n, e, b)
    BY <1>1, <2>1, <2>3 DEF DrainedTo
  <2>. QED
    BY <1>7, <2>2, <2>3, <2>4
<1>8. CASE /\ g.waiting # <<>> /\ ~(GroupFull(g) /\ Idle(g) = {}) /\ Fresh(g) = {}
           /\ DrainOne(a, any) = [h |-> Unsent(Room(g), HeadPending(g)), go |-> TRUE]
  <2>1. PICK r : r = Room(g)
    OBVIOUS
  <2>2. Flags(g, r) /\ Drains(g, r)
    BY <1>3, <1>8, <2>1, RoomIs
  <2>3. Right(r, n, e)
    BY <1>1, <2>2, FlagsKeeps
  <2>4. r.waiting = g.waiting /\ HeadPending(r) = HeadPending(g)
    BY <2>2 DEF Flags, SameRest, HeadPending, Pending
  <2>5. PICK k : k = Unsent(r, HeadPending(r))
    OBVIOUS
  <2>6. Right(k, n, e) /\ Drains(r, k) /\ k.waiting = Tail(g.waiting)
    BY <1>8, <2>3, <2>4, <2>5, UnsentKeeps
  <2>7. Drains(h, k)
    BY <1>1, <2>2, <2>6, DrainsTrans
  <2>. QED
    BY <1>1, <1>8, <2>1, <2>4, <2>5, <2>6, <2>7, DrainedPair
<1>9. CASE /\ g.waiting # <<>> /\ ~(GroupFull(g) /\ Idle(g) = {}) /\ Fresh(g) # {}
           /\ DrainOne(a, any) = [h |-> Fan(Spawned(Room(g), "fan", First(Fresh(g))), First(Fresh(g)), HeadPending(g)), go |-> TRUE]
  <2>1. PICK r : r = Room(g)
    OBVIOUS
  <2>2. Flags(g, r) /\ Drains(g, r)
    BY <1>3, <1>9, <2>1, RoomIs
  <2>3. Right(r, n, e)
    BY <1>1, <2>2, FlagsKeeps
  <2>4. r.waiting = g.waiting /\ HeadPending(r) = HeadPending(g)
    BY <2>2 DEF Flags, SameRest, HeadPending, Pending
  <2>5. PICK s : s = First(Fresh(g))
    OBVIOUS
  <2>6. s \in Sides /\ g.side[s].kind = "none"
    <3>1. Fresh(g) \in SUBSET Sides
      BY DEF Fresh
    <3>2. s \in Fresh(g)
      BY <1>9, <2>5, <3>1, FirstIsMember
    <3>. QED
      BY <3>2 DEF Fresh
  <2>7. r.side[s].kind = "none"
    BY <2>2, <2>6 DEF Flags, SameSide
  <2>8. PICK k : k = Fan(Spawned(r, "fan", s), s, HeadPending(r))
    OBVIOUS
  <2>9. Right(k, n, e) /\ Drains(r, k) /\ k.waiting = Tail(g.waiting)
    BY <1>9, <2>3, <2>4, <2>6, <2>7, <2>8, SpawnKeeps
  <2>10. Drains(h, k)
    BY <1>1, <2>2, <2>9, DrainsTrans
  <2>. QED
    BY <1>1, <1>9, <2>1, <2>4, <2>5, <2>8, <2>9, <2>10, DrainedPair
<1>. QED
  BY <1>1, <1>4, <1>5, <1>6, <1>7, <1>8, <1>9 DEF DrainOne, HeadPending

\* What draining leaves waiting, a side session of the group takes up.
LEMMA DrainKeeps ==
    ASSUME NEW h, NEW n, NEW e, Right(h, n, e), LeftGroup(h, e)
    PROVE  Right(Drain(h), n, e) /\ Served(Drain(h)) /\ Drains(h, Drain(h))
<1>0. h \in HostType /\ e \in Sides \cup {Null} /\ h.waiting \in Seq(SUBSET Decisions)
  BY DEF Right, Typed, HostType
<1>1. CASE Stops(h)
  <2>1. Drain(h) = h /\ ~Open(h)
    BY <1>1 DEF Drain, Stops, Open
  <2>. QED
    BY <1>0, <2>1, DrainsSame DEF Served
<1>2. CASE ~Stops(h)
  <2>. DEFINE H == {a \in [h : HostType, go : BOOLEAN] : DrainedTo(h, n, e, a)}
  <2>1. PICK v : v = [h |-> h, go |-> TRUE]
    OBVIOUS
  <2>2. DrainedTo(h, n, e, v) /\ v.h = h /\ v.go
    BY <1>0, <2>1, DrainsSame, DrainedPair
  <2>3. v \in H
    BY <2>2 DEF DrainedTo
  <2>4. ASSUME NEW a \in H, NEW y \in SUBSET Decisions
        PROVE  /\ DrainOne(a, y) \in H
               /\ a.go /\ a.h.waiting # <<>> /\ DrainOne(a, y).go => DrainOne(a, y).h.waiting = Tail(a.h.waiting)
    <3>1. DrainedTo(h, n, e, a)
      OBVIOUS
    <3>2. /\ DrainedTo(h, n, e, DrainOne(a, y))
          /\ a.go /\ a.h.waiting # <<>> /\ DrainOne(a, y).go => DrainOne(a, y).h.waiting = Tail(a.h.waiting)
      BY <1>0, <3>1, DrainOneKeeps
    <3>3. DrainOne(a, y) \in [h : HostType, go : BOOLEAN]
      BY <3>2 DEF DrainedTo
    <3>. QED
      BY <3>2, <3>3
  <2>5. \A a \in H : /\ a.h.waiting \in Seq(SUBSET Decisions)
                     /\ ~a.go => a.go = FALSE
                     /\ DrainedTo(h, n, e, a)
    BY DEF HostType
  <2>. HIDE DEF H
  <2>7. PICK q \in Seq(SUBSET Decisions) : q = h.waiting
    BY <1>0
  <2>8. \A a \in H, y \in SUBSET Decisions : DrainOne(a, y) \in H
    BY <2>4
  <2>9. PICK r \in [0..Len(q) -> H] : /\ r[0] = v /\ r[Len(q)] = DrainEach(v, q)
                                      /\ \A k \in 1..Len(q) : r[k] = DrainOne(r[k - 1], q[k])
    BY <2>3, <2>7, <2>8, DrainSteps
  <2>10. Len(q) \in Nat /\ \A k \in 1..Len(q) : q[k] \in SUBSET Decisions
    OBVIOUS
  <2>. DEFINE S == {k \in 0..Len(q) : r[k].go => Len(r[k].h.waiting) = Len(q) - k}
  <2>11. 0 \in S
    BY <2>2, <2>7, <2>9, <2>10
  <2>12. ASSUME NEW k \in 1..Len(q), k - 1 \in S PROVE k \in S
    <3>1. k - 1 \in 0..Len(q) /\ k \in 0..Len(q) /\ k \in Nat
      BY <2>10
    <3>2. PICK a \in H : a = r[k - 1] /\ r[k] = DrainOne(a, q[k])
      BY <2>9, <3>1
    <3>3. PICK b \in H : b = r[k]
      BY <3>1
    <3>4. a.h.waiting \in Seq(SUBSET Decisions) /\ (a.go => Len(a.h.waiting) = Len(q) - (k - 1))
      BY <2>5, <2>12, <3>2
    <3>5. ASSUME b.go PROVE Len(b.h.waiting) = Len(q) - k
      <4>1. a.go
        BY <3>2, <3>3, <3>5 DEF DrainOne
      <4>2. Len(a.h.waiting) = Len(q) - (k - 1) /\ a.h.waiting # <<>>
        BY <2>10, <3>1, <3>4, <4>1
      <4>3. b.h.waiting = Tail(a.h.waiting)
        BY <2>4, <2>10, <3>2, <3>3, <3>5, <4>1, <4>2
      <4>4. Len(Tail(a.h.waiting)) = Len(a.h.waiting) - 1
        BY <3>4, <4>2
      <4>. QED
        BY <2>10, <3>1, <4>2, <4>3, <4>4
    <3>. QED
      BY <3>1, <3>3, <3>5
  <2>. HIDE DEF S
  <2>13. Len(q) \in S
    BY <2>10, <2>11, <2>12, StepsInduction
  <2>14. PICK z \in H : z = DrainEach(v, q) /\ (z.go => Len(z.h.waiting) = Len(q) - Len(q))
    BY <2>9, <2>10, <2>13 DEF S
  <2>15. Drain(h) = z.h
    BY <1>2, <2>1, <2>7, <2>14 DEF Drain, DrainEach
  <2>16. DrainedTo(h, n, e, z) /\ z.h.waiting \in Seq(SUBSET Decisions)
    BY <2>5
  <2>17. Served(z.h)
    <3>1. CASE z.go
      <4>1. Len(z.h.waiting) = 0
        BY <2>10, <2>14, <3>1
      <4>2. z.h.waiting = <<>>
        BY <2>16, <4>1
      <4>. QED
        BY <4>2 DEF Served
    <3>2. CASE ~z.go
      BY <2>16, <3>2 DEF DrainedTo, Served
    <3>. QED
      BY <3>1, <3>2
  <2>. QED
    BY <2>15, <2>16, <2>17 DEF DrainedTo
<1>. QED
  BY <1>1, <1>2

----------------------------------------------------------------------------
(* The ends of turns                                                        *)

\* No decision that is asked is on a spare of a side session without a standby turn.
LEMMA NoneReserved ==
    ASSUME NEW h, NEW n, NEW e, Right(h, n, e), NEW s \in Sides,
           h.side[s].kind # "standby" \/ h.side[s].phase \notin {"ready", "turn"}
    PROVE  /\ \A r \in Roles : h.spare[s][r] = NoSpare /\ h.spare[s][r].member = Null
           /\ \A d \in Decisions : h.m[d].spare = s => ~Pending(h, d) /\ ~Runs(h, n, e, d)
<1>0. NoSpare.member = Null
  BY DEF NoSpare
<1>1. \A r \in Roles : h.spare[s][r] = NoSpare /\ h.spare[s][r].member = Null
  <2>1. \A r \in Roles : SpareRight(h, s, r)
    BY DEF Right
  <2>2. \A r \in Roles : h.spare[s][r] = NoSpare
    BY <2>1 DEF SpareRight
  <2>. QED
    BY <1>0, <2>2
<1>2. ASSUME NEW d \in Decisions, h.m[d].spare = s PROVE ~Pending(h, d) /\ ~Runs(h, n, e, d)
  <2>1. Role(d) \in Roles /\ d # Null /\ s # Null
    BY SubagentsAssumption DEF Role, Right, Typed
  <2>2. ~Ours(h, d)
    BY <1>1, <1>2, <2>1 DEF Ours
  <2>3. MemberRight(h, d) /\ AgreeOn(h, n, e, d)
    BY DEF Right
  <2>. QED
    BY <1>2, <2>1, <2>2, <2>3 DEF MemberRight, AgreeOn
<1>. QED
  BY <1>1, <1>2

\* A fan-out session moves on.
LEMMA FanStepKeeps ==
    ASSUME NEW h, NEW n, NEW e, Right(h, n, e), NEW s \in Sides, NEW x, FanStep(h, e, s, x),
           \A d \in Decisions : FanStepOn(h, e, s, x, d), NEW g, g = [h EXCEPT !.side[s] = x]
    PROVE  Right(g, n, e)
<1>1. /\ h \in HostType /\ h.out = Null /\ s # Null
      /\ \A d \in Decisions : HeldRight(h, s, d)
  BY SubagentsAssumption DEF Right, Typed
<1>2. x \in SideType /\ x.kind = "fan"
  BY DEF FanStep
<1>3. /\ g.m = h.m /\ g.batch = h.batch /\ g.timer = h.timer /\ g.spare = h.spare /\ g.out = h.out
      /\ g.waiting = h.waiting /\ g.side = [h.side EXCEPT ![s] = x]
      /\ g.group = h.group /\ g.closed = h.closed
  BY <1>1 DEF HostType
<1>4. g \in HostType
  BY <1>1, <1>2 DEF HostType
<1>5. /\ g.side[s] = x /\ \A t \in Sides : t = s \/ g.side[t] = h.side[t]
  BY <1>1, <1>3 DEF HostType
<1>6. OneSide(h, g, s)
  BY <1>1, <1>3, <1>4, <1>5 DEF OneSide, Open, FanStep
<1>7. SideRight(g, s)
  BY <1>5 DEF SideRight, FanStep
<1>n. /\ \A r \in Roles : h.spare[s][r] = NoSpare /\ h.spare[s][r].member = Null
      /\ \A d \in Decisions : h.m[d].spare = s => ~Pending(h, d) /\ ~Runs(h, n, e, d)
  <2>1. h.side[s].kind # "standby"
    BY DEF FanStep
  <2>. QED
    BY <2>1, NoneReserved
<1>8. ASSUME NEW r \in Roles PROVE SpareRight(g, s, r)
  <2>1. ~NoSpare.pending /\ ~NoSpare.used
    BY DEF NoSpare
  <2>2. h.spare[s][r] = NoSpare /\ h.spare[s][r].member = Null
    BY <1>n
  <2>. QED
    BY <1>3, <2>1, <2>2 DEF SpareRight
<1>9. ASSUME NEW d \in Decisions PROVE OneFor(h, g, n, e, s, d)
  <2>0. FanStepOn(h, e, s, x, d) /\ HeldRight(h, s, d)
    BY <1>1
  <2>1. /\ Pending(g, d) <=> Pending(h, d)
        /\ Waits(g, d) <=> Waits(h, d)
    BY <1>3 DEF Pending, Waits
  <2>2. HeldRight(g, s, d)
    <3>1. d \in g.side[s].chunk => g.m[d].told # "none" /\ g.m[d].spare = Null
      BY <1>3, <1>5, <2>0 DEF HeldRight, FanStep
    <3>2. g.side[s] = x /\ g.m = h.m /\ x.kind = "fan"
      BY <1>2, <1>3, <1>5
    <3>. QED
      BY <2>0, <2>1, <3>1, <3>2 DEF HeldRight, FanStepOn
  <2>3. ~(h.m[d].spare = s /\ (Pending(h, d) \/ Runs(h, n, e, d)))
    BY <1>n
  <2>4. d \in g.side[s].chunk => d \in h.side[s].chunk
    BY <1>5 DEF FanStep
  <2>5. d \in g.side[s].members /\ h.m[d].used => d \in h.side[s].members
    BY <1>5, <2>0 DEF FanStepOn
  <2>6. Open(g) /\ Pending(h, d) =>
         /\ d \in h.side[s].chunk => d \in g.side[s].chunk
         /\ d \in g.side[s].chunk =>
                /\ g.side[s].phase = "turn" => d \in g.side[s].listed
                /\ g.side[s].phase = "admitting" => d \in g.side[s].listed \/ "fan" \in h.m[d].asking
                /\ g.side[s].gone => s = e \/ g.side[s].phase \in {"ready", "admitting"}
    BY <1>3, <1>5, <2>0, <2>4 DEF FanStepOn, Open
  <2>. QED
    BY <2>1, <2>2, <2>3, <2>4, <2>5, <2>6 DEF OneFor
<1>10. Open(g) /\ g.side[s].in /\ g.side[s].gone => s = e
  BY <1>3, <1>5 DEF FanStep, Open
<1>. QED
  BY <1>6, <1>7, <1>8, <1>9, <1>10, SideKeeps

\* A fan-out ends once none of its chunk is asked any more.
LEMMA FanOutOverKeeps ==
    ASSUME NEW h, NEW n, NEW e, Right(h, n, e), LeftGroup(h, e), NEW s \in Sides, h.side[s].kind = "fan",
           Open(h) => \A d \in h.side[s].chunk : ~Pending(h, d)
    PROVE  /\ Right(FanOutOver(h, s), n, e) /\ Served(FanOutOver(h, s))
           /\ FanOutOver(h, s).group = h.group /\ FanOutOver(h, s).closed = h.closed
           /\ h.side[s].gone => FanOutOver(h, s).side[s].gone
           /\ ~h.side[s].in => ~FanOutOver(h, s).side[s].in /\ FanOutOver(h, s).side[s].chunk = {}
                               /\ FanOutOver(h, s).side[s].gone = h.side[s].gone
           /\ \A d \in Decisions : Pending(FanOutOver(h, s), d) => h.m[d] = FanOutOver(h, s).m[d]
<1>1. h \in HostType /\ h.side[s] \in SideType /\ SideRight(h, s) /\ Kept(h, e) /\ e \in Sides \cup {Null}
  BY DEF Right, Typed, HostType
<1>2. PICK x \in SideType : x = [h.side[s] EXCEPT !.phase = "idle", !.chunk = {}, !.listed = {}, !.members = {}]
  BY <1>1 DEF SideType
<1>3. /\ x.kind = "fan" /\ x.phase = "idle" /\ x.chunk = {} /\ x.listed = {} /\ x.members = {}
      /\ x.gone = h.side[s].gone /\ x.alive = h.side[s].alive /\ x.in = h.side[s].in
  BY <1>1, <1>2 DEF SideType
<1>4. PICK g : g = [h EXCEPT !.side[s] = x]
  OBVIOUS
<1>5. FanStep(h, e, s, x)
  BY <1>1, <1>3 DEF FanStep, SideRight, Kept
<1>6. \A d \in Decisions : FanStepOn(h, e, s, x, d)
  BY <1>3 DEF FanStepOn
<1>7. Right(g, n, e)
  BY <1>4, <1>5, <1>6, FanStepKeeps
<1>8. g.side = [h.side EXCEPT ![s] = x] /\ g.m = h.m /\ g.group = h.group /\ g.closed = h.closed
  BY <1>1, <1>4 DEF HostType
<1>9. LeftGroup(g, e)
  <2>1. \A t \in Sides : g.side[t].kind = h.side[t].kind /\ g.side[t].in = h.side[t].in
    BY <1>1, <1>3, <1>8 DEF HostType
  <2>. QED
    BY <1>1, <1>8, <2>1 DEF LeftGroup, Open
<1>10. FanOutOver(h, s) = Drain(g)
  BY <1>2, <1>4 DEF FanOutOver
<1>11. PICK k : k = Drain(g)
  OBVIOUS
<1>12. Right(k, n, e) /\ Served(k) /\ Drains(g, k)
  BY <1>7, <1>9, <1>11, DrainKeeps
<1>13. g.side[s] = x
  BY <1>1, <1>8 DEF HostType
<1>14. ~h.side[s].in => k.side[s] = x
  BY <1>3, <1>12, <1>13 DEF Drains
<1>15. \A d \in Decisions : Pending(k, d) => h.m[d] = k.m[d]
  BY <1>8, <1>12 DEF Drains
<1>16. k.group = h.group /\ k.closed = h.closed
  BY <1>8, <1>12 DEF Drains
<1>17. h.side[s].gone => k.side[s].gone
  BY <1>3, <1>12, <1>13 DEF Drains
<1>. QED
  BY <1>3, <1>10, <1>11, <1>12, <1>14, <1>15, <1>16, <1>17

\* A standby session moves on, and loses its spares when its turn ends.
LEMMA StandbyStepKeeps ==
    ASSUME NEW h, NEW n, NEW e, Right(h, n, e), NEW s \in Sides, NEW x, NEW sp, StandbyStep(h, e, s, x, sp),
           \A d \in Decisions : StandbyStepOn(h, n, e, s, x, sp, d),
           NEW g, g = [h EXCEPT !.side[s] = x, !.spare[s] = sp]
    PROVE  Right(g, n, e)
<1>1. /\ h \in HostType /\ h.out = Null /\ s # Null /\ SideRight(h, s)
      /\ \A r \in Roles : SpareRight(h, s, r)
      /\ \A d \in Decisions : HeldRight(h, s, d) /\ AgreeOn(h, n, e, d)
  BY SubagentsAssumption DEF Right, Typed
<1>2. x \in SideType /\ x.kind = "standby" /\ sp \in [Roles -> SpareType] /\ x.chunk = {} /\ x.listed = {}
  BY DEF StandbyStep
<1>3. /\ g.m = h.m /\ g.batch = h.batch /\ g.timer = h.timer /\ g.out = h.out
      /\ g.waiting = h.waiting /\ g.side = [h.side EXCEPT ![s] = x] /\ g.spare = [h.spare EXCEPT ![s] = sp]
      /\ g.group = h.group /\ g.closed = h.closed
  BY <1>1 DEF HostType
<1>4. g \in HostType
  BY <1>1, <1>2 DEF HostType
<1>5. /\ g.side[s] = x /\ g.spare[s] = sp
      /\ \A t \in Sides : t = s \/ (g.side[t] = h.side[t] /\ g.spare[t] = h.spare[t])
  BY <1>1, <1>3 DEF HostType
<1>6. OneSide(h, g, s)
  BY <1>1, <1>3, <1>4, <1>5 DEF OneSide, Open, StandbyStep
<1>7. SideRight(g, s)
  BY <1>5 DEF SideRight, StandbyStep
<1>8. ASSUME NEW r \in Roles PROVE SpareRight(g, s, r)
  <2>0. ~NoSpare.pending /\ ~NoSpare.used /\ NoSpare.member = Null
    BY DEF NoSpare
  <2>1. CASE sp = Unheld
    <3>1. g.spare[s][r] = NoSpare
      BY <1>5, <2>1 DEF Unheld
    <3>. QED
      BY <2>0, <3>1 DEF SpareRight
  <2>2. CASE sp = h.spare[s] /\ sp # Unheld
    <3>1. g.spare[s] = h.spare[s] /\ g.m = h.m /\ SpareRight(h, s, r)
      BY <1>1, <1>3, <1>5, <2>2
    <3>2. g.side[s].kind = "standby" /\ g.side[s].phase \in {"ready", "turn"}
      BY <1>5, <2>2 DEF StandbyStep
    <3>3. g.side[s].phase = "ready" => ~g.spare[s][r].used
      BY <1>5 DEF StandbyStep
    <3>. QED
      BY <3>1, <3>2, <3>3 DEF SpareRight
  <2>. QED
    BY <2>1, <2>2 DEF StandbyStep
<1>9. ASSUME NEW d \in Decisions PROVE OneFor(h, g, n, e, s, d)
  <2>0. StandbyStepOn(h, n, e, s, x, sp, d) /\ HeldRight(h, s, d) /\ AgreeOn(h, n, e, d)
    BY <1>1
  <2>1. /\ Pending(g, d) <=> Pending(h, d)
        /\ Waits(g, d) <=> Waits(h, d)
    BY <1>3 DEF Pending, Waits
  <2>2. HeldRight(g, s, d)
    <3>1. d \in x.members => h.m[d].spare = s /\ h.m[d].told # "none"
      <4>1. MemberRight(h, d) /\ s # Null
        BY <1>1 DEF Right
      <4>. QED
        BY <2>0, <4>1 DEF MemberRight, StandbyStepOn, Blank
    <3>. QED
      BY <1>2, <1>3, <1>5, <2>0, <3>1 DEF HeldRight, StandbyStepOn
  <2>3. Ours(h, d) /\ h.m[d].spare = s /\ (Pending(h, d) \/ Runs(h, n, e, d)) =>
           Ours(g, d) \/ ~(Pending(h, d) \/ Runs(g, n, e, d))
    <3>1. CASE sp = h.spare[s]
      BY <1>3, <1>5, <3>1 DEF Ours
    <3>2. CASE sp # h.spare[s]
      <4>1. SUFFICES ASSUME h.m[d].spare = s, Pending(h, d) \/ Runs(g, n, e, d) PROVE FALSE
        OBVIOUS
      <4>2. ~Pending(h, d) /\ ~(Runs(h, n, e, d) /\ ~x.gone)
        BY <2>0, <3>2, <4>1 DEF StandbyStepOn
      <4>3. Runs(g, n, e, d)
        BY <4>1, <4>2
      <4>4. h.m[d].used
        BY <2>0, <4>3 DEF AgreeOn, Runs
      <4>5. n[d].on = s
        BY <1>1, <2>0, <4>1, <4>4 DEF AgreeOn
      <4>6. ~x.gone /\ ~h.side[s].gone
        BY <1>5, <4>3, <4>5 DEF Runs, StandbyStep
      <4>. QED
        BY <4>2, <4>3, <4>5, <4>6 DEF Runs
    <3>. QED
      BY <3>1, <3>2
  <2>4. d \notin g.side[s].chunk /\ d \notin h.side[s].chunk
    BY <1>1, <1>2, <1>5 DEF SideRight, StandbyStep
  <2>5. d \in g.side[s].members /\ h.m[d].used => n[d].on = s
    BY <1>1, <1>5, <2>0 DEF StandbyStepOn, AgreeOn
  <2>6. Open(g) /\ Pending(h, d) =>
           /\ h.m[d].spare = s /\ g.side[s].gone => s = e
           /\ h.m[d].spare = s /\ h.m[d].admitted => d \in g.side[s].members
    BY <1>3, <1>5, <2>0 DEF StandbyStepOn, Open
  <2>. QED
    BY <2>1, <2>2, <2>3, <2>4, <2>5, <2>6 DEF OneFor
<1>10. Open(g) /\ g.side[s].in /\ g.side[s].gone => s = e
  BY <1>3, <1>5 DEF StandbyStep, Open
<1>. QED
  BY <1>6, <1>7, <1>8, <1>9, <1>10, SideKeeps

\* What _fallback leaves as it was.
LEMMA FallbackAllFell ==
    ASSUME NEW h, NEW n, NEW e, Right(h, n, e), NEW ds \in SUBSET Decisions
    PROVE  Fell(h, FallbackAll(h, ds), ds)
<1>0. h \in HostType /\ spec \in Specs
  BY DEF Right, Typed
<1>1. PICK fs : fs = Falls(h, ds)
  OBVIOUS
<1>2. PICK g : g = FallbackAll(h, ds)
  OBVIOUS
<1>3. g \in HostType /\ g.waiting = h.waiting /\ g.out = h.out /\ g.group = h.group /\ g.closed = h.closed
  BY <1>0, <1>2, FallbackAllIs, Zenon
<1>4. \A s \in Sides : g.side[s] = [h.side[s] EXCEPT !.members = @ \ {d \in fs : h.m[d].spare = s}]
  BY <1>0, <1>1, <1>2, FallbackAllIs, Zenon
<1>5. \A d \in Decisions : g.m[d] = IF d \in fs THEN [h.m[d] EXCEPT !.spare = Null, !.input = Rejoined(h, d)] ELSE h.m[d]
  BY <1>0, <1>1, <1>2, FallbackAllIs, Zenon
<1>6. \A d \in Decisions :
          /\ g.m[d].told = h.m[d].told /\ g.m[d].used = h.m[d].used /\ g.m[d].delivered = h.m[d].delivered
          /\ g.m[d].admitted = h.m[d].admitted
          /\ g.m[d].spare = IF d \in fs THEN Null ELSE h.m[d].spare
  <2>. SUFFICES ASSUME NEW d \in Decisions
       PROVE /\ g.m[d].told = h.m[d].told /\ g.m[d].used = h.m[d].used /\ g.m[d].delivered = h.m[d].delivered
             /\ g.m[d].admitted = h.m[d].admitted
             /\ g.m[d].spare = IF d \in fs THEN Null ELSE h.m[d].spare
    OBVIOUS
  <2>1. h.m[d] \in MemberType
    BY <1>0 DEF HostType
  <2>2. CASE d \notin fs
    <3>1. g.m[d] = h.m[d]
      BY <1>5, <2>2, Zenon
    <3>. QED
      BY <2>2, <3>1
  <2>3. CASE d \in fs
    <3>1. g.m[d] = [h.m[d] EXCEPT !.spare = Null, !.input = Rejoined(h, d)]
      BY <1>5, <2>3, Zenon
    <3>. QED
      BY <2>1, <2>3, <3>1 DEF MemberType
  <2>. QED
    BY <2>2, <2>3
<1>7. ASSUME NEW s \in Sides
      PROVE  /\ g.side[s].kind = h.side[s].kind /\ g.side[s].in = h.side[s].in /\ g.side[s].alive = h.side[s].alive
             /\ g.side[s].gone = h.side[s].gone /\ g.side[s].ready = h.side[s].ready
             /\ g.side[s].phase = h.side[s].phase /\ g.side[s].chunk = h.side[s].chunk
             /\ g.side[s].listed = h.side[s].listed /\ g.side[s].retry = h.side[s].retry
             /\ g.side[s].members = h.side[s].members \ {d \in fs : h.m[d].spare = s}
  <2>1. h.side[s] \in SideType /\ g.side[s] = [h.side[s] EXCEPT !.members = @ \ {d \in fs : h.m[d].spare = s}]
    BY <1>0, <1>4 DEF HostType
  <2>. QED
    BY <2>1 DEF SideType
<1>8. \A d \in fs : d \in ds /\ h.m[d].spare # Null
  BY <1>1 DEF Falls
<1>9. \A d \in ds : Pending(h, d) /\ ~h.m[d].delivered => d \in fs \/ h.m[d].spare = Null
  BY <1>1 DEF Falls, Given
<1>10. ASSUME NEW s \in Sides, NEW d \in h.side[s].members, d \notin g.side[s].members
       PROVE  g.m[d].spare = Null /\ h.side[s].kind # "fan"
  <2>1. d \in fs /\ d \in Decisions
    BY <1>7, <1>10, <1>8
  <2>2. HeldRight(h, s, d)
    BY <2>1 DEF Right
  <2>. QED
    BY <1>6, <1>8, <2>1, <2>2 DEF HeldRight
<1>11. Fell(h, g, ds)
  BY <1>3, <1>6, <1>7, <1>8, <1>9, <1>10 DEF Fell
<1>. QED
  BY <1>2, <1>11

\* What settling leaves as it was.
LEMMA SettledAllTold ==
    ASSUME NEW h \in HostType, NEW ds, NEW what \in Ended
    PROVE  Told(h, SettledAll(h, ds, what), ds, what)
<1>1. PICK g : g = SettledAll(h, ds, what)
  OBVIOUS
<1>2. \A d \in Decisions : g.m[d] = IF d \in ds /\ Pending(h, d) THEN [h.m[d] EXCEPT !.told = what] ELSE h.m[d]
  BY <1>1, SettledAllIs, Zenon
<1>3. ASSUME NEW d \in Decisions
      PROVE  /\ g.m[d].told = IF d \in ds /\ Pending(h, d) THEN what ELSE h.m[d].told
             /\ g.m[d].used = h.m[d].used /\ g.m[d].spare = h.m[d].spare
             /\ g.m[d].delivered = h.m[d].delivered
             /\ g.m[d].admitted = h.m[d].admitted /\ g.m[d].asking = h.m[d].asking
             /\ ~Pending(h, d) => g.m[d] = h.m[d]
  <2>1. h.m[d] \in MemberType
    BY DEF HostType
  <2>2. CASE ~(d \in ds /\ Pending(h, d))
    BY <1>2, <2>2
  <2>3. CASE d \in ds /\ Pending(h, d)
    <3>1. g.m[d] = [h.m[d] EXCEPT !.told = what]
      BY <1>2, <2>3
    <3>. QED
      BY <2>1, <2>3, <3>1 DEF MemberType
  <2>. QED
    BY <2>2, <2>3
<1>4. \A d \in Decisions : Pending(g, d) <=> Pending(h, d) /\ d \notin ds
  BY <1>3 DEF Pending, Ended
<1>5. g \in HostType /\ g.side = h.side /\ g.spare = h.spare /\ SameRest(h, g)
  BY <1>1, SettledAllIs, Zenon
<1>6. Told(h, g, ds, what)
  BY <1>3, <1>4, <1>5 DEF Told
<1>. QED
  BY <1>1, <1>6

\* A decision with its input on a side session that is gone, ends or has not
\* started does not run there.
LEMMA NoneRuns ==
    ASSUME NEW h, NEW n, NEW e, Right(h, n, e), NEW s \in Sides, h.side[s].kind = "standby",
           s = e \/ h.side[s].gone \/ h.side[s].phase = "ready",
           NEW d \in Decisions, h.m[d].spare = s
    PROVE  ~Runs(h, n, e, d)
<1>. SUFFICES ASSUME Runs(h, n, e, d) PROVE FALSE
  OBVIOUS
<1>1. /\ AgreeOn(h, n, e, d) /\ MemberRight(h, d) /\ Role(d) \in Roles /\ d # Null /\ s # Null
      /\ \A r \in Roles : SpareRight(h, s, r)
  BY SubagentsAssumption DEF Role, Right, Typed
<1>2. h.m[d].used
  BY <1>1 DEF AgreeOn, Runs
<1>3. n[d].on = s
  BY <1>1, <1>2 DEF AgreeOn
<1>4. h.side[s].phase = "ready" /\ Ours(h, d)
  BY <1>1, <1>3 DEF Runs, AgreeOn
<1>5. h.m[d].delivered /\ h.spare[s][Role(d)].member = d
  BY <1>1, <1>2, <1>4 DEF MemberRight, Ours
<1>. QED
  BY <1>1, <1>4, <1>5 DEF SpareRight

\* Whoever is asked of a side session's spares is among those reserved there.
LEMMA OnSparesAre ==
    ASSUME NEW h, NEW n, NEW e, Right(h, n, e), NEW s \in Sides, NEW ms, ms = OnSpares(h, s)
    PROVE  /\ ms \in SUBSET Decisions
           /\ \A d \in ms : h.m[d].spare = s
           /\ \A d \in Decisions : Pending(h, d) /\ h.m[d].spare = s => d \in ms
<1>1. /\ \A d \in Decisions : MemberRight(h, d) /\ Role(d) \in Roles /\ d # Null
      /\ \A r \in Roles : SpareRight(h, s, r) /\ h.spare[s][r] \in SpareType
      /\ s # Null
  BY SubagentsAssumption DEF Role, Right, Typed, HostType
<1>2. \A r \in Roles : h.spare[s][r].member \in Decisions \cup {Null}
  BY <1>1 DEF SpareType
<1>3. \A r \in Roles : h.spare[s][r].member # Null => h.m[h.spare[s][r].member].spare = s
  BY <1>1 DEF SpareRight
<1>4. ASSUME NEW d \in ms PROVE d \in Decisions /\ h.m[d].spare = s
  BY <1>2, <1>3 DEF Spares, OnSpares
<1>5. ASSUME NEW d \in Decisions, Pending(h, d), h.m[d].spare = s PROVE d \in ms
  <2>1. Ours(h, d) /\ Wants(d) # Null
    BY <1>1, <1>5 DEF MemberRight
  <2>2. PICK r \in Roles : r = Role(d)
    BY <1>1
  <2>3. h.spare[s][r].member = d
    BY <2>1, <2>2, <1>5 DEF Ours
  <2>4. h.spare[s][r].ctx = Wants(d)
    BY <1>1, <2>3 DEF SpareRight
  <2>5. r \in Spares(h, s)
    BY <2>1, <2>4 DEF Spares, Held
  <2>. QED
    BY <1>1, <2>3, <2>5 DEF OnSpares
<1>. QED
  BY <1>4, <1>5

\* _releaseSpares: nobody is left on the spares.
LEMMA ReleaseSparesKeeps ==
    ASSUME NEW h, NEW n, NEW e, Right(h, n, e), NEW s \in Sides, h.side[s].kind = "standby",
           s = e \/ h.side[s].gone \/ h.side[s].phase = "ready"
    PROVE  /\ Right(ReleaseSpares(h, s), n, e) /\ (Served(h) => Served(ReleaseSpares(h, s)))
           /\ Freed(h, ReleaseSpares(h, s), s)
<1>0. h \in HostType /\ n \in NativeType
  BY DEF Right, Typed
<1>1. PICK ms : ms = OnSpares(h, s)
  OBVIOUS
<1>2. /\ ms \in SUBSET Decisions
      /\ \A d \in ms : h.m[d].spare = s
      /\ \A d \in Decisions : Pending(h, d) /\ h.m[d].spare = s => d \in ms
  <2>1. Right(h, n, e) /\ s \in Sides
    OBVIOUS
  <2>. QED
    BY <1>1, <2>1, OnSparesAre
<1>3. PICK ds \in SUBSET Decisions : ds = {d \in ms : Pending(h, d)}
  BY <1>2
<1>4. PICK a : a = FallbackAll(h, ds)
  OBVIOUS
<1>5. Right(a, n, e) /\ (Served(h) => Served(a)) /\ Fell(h, a, ds)
  BY <1>4, FallbackAllKeeps, FallbackAllFell
<1>6. PICK cs \in SUBSET Decisions : cs = {d \in ds : Given(h, d)}
  OBVIOUS
<1>7. ASSUME NEW d \in Decisions, h.m[d].spare = s PROVE ~Runs(a, n, e, d)
  <2>1. ~Runs(h, n, e, d) /\ AgreeOn(h, n, e, d)
    BY <1>7, NoneRuns DEF Right
  <2>2. n[d].on \in Sides \cup {Null} /\ (n[d].run = "running" => n[d].on # Null)
    BY <1>0, <2>1 DEF NativeType, AgreeOn
  <2>. QED
    BY <1>5, <2>1, <2>2 DEF Runs, Fell
<1>8. PICK b : b = SettledAll(a, cs, "over")
  OBVIOUS
<1>9. Right(b, n, e) /\ (Served(a) => Served(b))
  <2>1. \A d \in cs : ~Runs(a, n, e, d)
    BY <1>2, <1>3, <1>6, <1>7
  <2>. QED
    BY <1>5, <1>8, <2>1, SettledAllKeeps DEF Ended
<1>10. a \in HostType /\ b \in HostType
  BY <1>5, <1>9 DEF Right, Typed
<1>11. Told(a, b, cs, "over")
  BY <1>8, <1>10, SettledAllTold DEF Ended
<1>12. /\ b.side = a.side /\ b.spare = a.spare /\ SameRest(a, b)
       /\ \A d \in Decisions : /\ b.m[d].spare = a.m[d].spare
                               /\ Pending(b, d) <=> Pending(a, d) /\ d \notin cs
  BY <1>11 DEF Told
<1>13. ASSUME NEW d \in Decisions, b.m[d].spare = s PROVE ~Pending(b, d) /\ ~Runs(b, n, e, d)
  <2>1. s # Null /\ h.m[d].spare = s
    BY <1>5, <1>12, <1>13, SubagentsAssumption DEF Fell
  <2>2. ~Runs(a, n, e, d)
    BY <1>7, <2>1
  <2>3. ASSUME Pending(b, d) PROVE FALSE
    <3>1. Pending(a, d) /\ d \notin cs /\ Pending(h, d)
      BY <1>5, <1>12, <2>3 DEF Fell, Pending
    <3>2. d \in ds /\ ~h.m[d].delivered
      BY <1>2, <1>3, <1>6, <2>1, <3>1 DEF Given
    <3>. QED
      BY <1>5, <1>12, <1>13, <2>1, <3>1, <3>2 DEF Fell
  <2>4. Runs(b, n, e, d) => Runs(a, n, e, d)
    BY <1>12 DEF Runs
  <2>. QED
    BY <2>2, <2>3, <2>4
<1>14. b.side[s] \in SideType /\ SideRight(b, s) /\ b.side[s].kind = "standby"
  BY <1>5, <1>9, <1>10, <1>12 DEF Right, HostType, Fell
<1>15. PICK x \in SideType : x = [b.side[s] EXCEPT !.members = {}]
  BY <1>14 DEF SideType
<1>16. /\ x.kind = "standby" /\ x.members = {} /\ x.phase = b.side[s].phase /\ x.gone = b.side[s].gone
       /\ x.in = b.side[s].in /\ x.alive = b.side[s].alive /\ x.chunk = b.side[s].chunk /\ x.listed = b.side[s].listed
  BY <1>14, <1>15 DEF SideType
<1>17. Unheld \in [Roles -> SpareType] /\ \A r \in Roles : ~Unheld[r].used
  <2>1. NoSpare \in SpareType /\ ~NoSpare.used
    BY DEF NoSpare, SpareType
  <2>. QED
    BY <2>1 DEF Unheld
<1>18. StandbyStep(b, e, s, x, Unheld)
  <2>1. Open(b) /\ x.in /\ x.gone => s = e
    BY <1>9, <1>16 DEF Right, Kept
  <2>. QED
    BY <1>14, <1>16, <1>17, <2>1 DEF StandbyStep, SideRight
<1>19. ASSUME NEW d \in Decisions PROVE StandbyStepOn(b, n, e, s, x, Unheld, d)
  BY <1>13, <1>16 DEF StandbyStepOn
<1>20. PICK k : k = [b EXCEPT !.side[s] = x, !.spare[s] = Unheld]
  OBVIOUS
<1>21. Right(k, n, e)
  <2>1. \A d \in Decisions : StandbyStepOn(b, n, e, s, x, Unheld, d)
    BY <1>19
  <2>. QED
    BY <1>9, <1>18, <2>1, <1>20, StandbyStepKeeps, Zenon
<1>22. /\ k.m = b.m /\ k.waiting = b.waiting /\ k.group = b.group /\ k.closed = b.closed
       /\ k.side = [b.side EXCEPT ![s] = x] /\ k.spare = [b.spare EXCEPT ![s] = Unheld]
  BY <1>10, <1>20 DEF HostType
<1>23. k.side[s] = x /\ k.spare[s] = Unheld /\ \A t \in Sides : t # s => k.side[t] = b.side[t]
  BY <1>10, <1>22 DEF HostType
<1>24. Served(b) => Served(k)
  <2>1. ASSUME NEW t \in Sides, Serves(b, t) PROVE Serves(k, t)
    BY <1>14, <1>23, <2>1 DEF Serves, Busy
  <2>. QED
    BY <1>22, <2>1 DEF Served, Open
<1>25. ReleaseSpares(h, s) = k
  <2>1. ReleaseSpares(h, s) = [b EXCEPT !.spare[s] = [r \in Roles |-> NoSpare], !.side[s].members = {}]
    BY <1>1, <1>3, <1>4, <1>6, <1>8 DEF ReleaseSpares, OnSpares
  <2>2. [b EXCEPT !.spare[s] = Unheld, !.side[s].members = {}] = k
    BY <1>10, <1>15, <1>20 DEF HostType
  <2>. QED
    BY <2>1, <2>2 DEF Unheld
<1>26. Freed(h, k, s)
  <2>1. \A d \in Decisions : k.m[d].spare = s => ~Pending(k, d)
    BY <1>13, <1>22 DEF Pending
  <2>2. /\ x.phase = h.side[s].phase /\ x.gone = h.side[s].gone
        /\ x.in = h.side[s].in /\ x.alive = h.side[s].alive
    BY <1>5, <1>12, <1>16 DEF Fell
  <2>3. k.group = h.group /\ k.closed = h.closed /\ k.waiting = h.waiting
    BY <1>5, <1>12, <1>22 DEF Fell, SameRest
  <2>. QED
    BY <1>16, <1>23, <2>1, <2>2, <2>3 DEF Freed
<1>. QED
  BY <1>5, <1>9, <1>21, <1>24, <1>25, <1>26

\* A standby turn without spares ends.
LEMMA StandbyOverKeeps ==
    ASSUME NEW h, NEW n, NEW e, Right(h, n, e), NEW s \in Sides, h.side[s].kind = "standby", h.spare[s] = Unheld
    PROVE  /\ Right(StandbyOver(h, s), n, e) /\ (Served(h) => Served(StandbyOver(h, s)))
           /\ Rested(h, StandbyOver(h, s), s)
<1>1. h \in HostType /\ h.out = Null /\ spec \in Specs /\ h.side[s] \in SideType /\ SideRight(h, s) /\ Kept(h, e)
  BY DEF Right, Typed, HostType
<1>2. PICK x \in SideType : x = [h.side[s] EXCEPT !.phase = "idle", !.retire = FALSE, !.ending = FALSE, !.stop = FALSE]
  BY <1>1 DEF SideType
<1>3. /\ x.kind = "standby" /\ x.phase = "idle" /\ x.gone = h.side[s].gone /\ x.in = h.side[s].in
      /\ x.alive = h.side[s].alive /\ x.chunk = h.side[s].chunk /\ x.listed = h.side[s].listed
      /\ x.members = h.side[s].members
  BY <1>1, <1>2 DEF SideType
<1>4. PICK g : g = [h EXCEPT !.side[s] = x, !.spare[s] = Unheld]
  OBVIOUS
<1>5. Unheld \in [Roles -> SpareType]
  <2>1. NoSpare \in SpareType
    BY DEF NoSpare, SpareType
  <2>. QED
    BY <2>1 DEF Unheld
<1>6. StandbyStep(h, e, s, x, Unheld)
  <2>1. Open(h) /\ x.in /\ x.gone => s = e
    BY <1>1, <1>3 DEF Kept
  <2>. QED
    BY <1>1, <1>3, <1>5, <2>1 DEF StandbyStep, SideRight
<1>7. ASSUME NEW d \in Decisions PROVE StandbyStepOn(h, n, e, s, x, Unheld, d)
  <2>1. HeldRight(h, s, d) /\ (Open(h) => KeptOn(h, e, d))
    BY <1>1 DEF Right, Kept
  <2>. QED
    BY <1>3, <2>1 DEF StandbyStepOn, HeldRight, KeptOn
<1>8. Right(g, n, e)
  <2>1. \A d \in Decisions : StandbyStepOn(h, n, e, s, x, Unheld, d)
    BY <1>7
  <2>. QED
    BY <1>4, <1>6, <2>1, StandbyStepKeeps, Zenon
<1>9. /\ g.m = h.m /\ g.waiting = h.waiting /\ g.group = h.group /\ g.closed = h.closed
      /\ g.side = [h.side EXCEPT ![s] = x] /\ g.out = h.out
  BY <1>1, <1>4 DEF HostType
<1>10. g.side[s] = x /\ \A t \in Sides : t # s => g.side[t] = h.side[t]
  BY <1>1, <1>9 DEF HostType
<1>11. Served(h) => Served(g)
  <2>1. ASSUME NEW t \in Sides, Serves(h, t) PROVE Serves(g, t)
    BY <1>10, <2>1 DEF Serves, Busy
  <2>. QED
    BY <1>9, <2>1 DEF Served, Open
<1>12. PICK k : k = Replenish(g)
  OBVIOUS
<1>13. Right(k, n, e) /\ (Served(g) => Served(k))
  BY <1>8, <1>12, ReplenishKeeps
<1>14. Starts(g, k)
  <2>1. g \in HostType /\ spec \in Specs /\ \A t \in Sides : SideRight(g, t)
    BY <1>8 DEF Right, Typed
  <2>. QED
    BY <1>12, <2>1, ReplenishStarts
<1>15. Rested(h, k, s)
  <2>1. x.gone => k.side[s] = x
    BY <1>10, <1>14 DEF Starts, StartsStandby
  <2>2. k.group = h.group /\ k.closed = h.closed /\ k.m = h.m
    BY <1>9, <1>14 DEF Starts
  <2>3. x.chunk = {}
    BY <1>1, <1>3 DEF SideRight
  <2>. QED
    BY <1>3, <2>1, <2>2, <2>3 DEF Rested
<1>16. StandbyOver(h, s) = k
  <2>1. [h EXCEPT !.side[s] = x] = g
    BY <1>1, <1>4 DEF HostType
  <2>. QED
    BY <1>2, <1>12, <2>1 DEF StandbyOver
<1>. QED
  BY <1>11, <1>13, <1>15, <1>16

\* The two together.
LEMMA StandbyEndsKeeps ==
    ASSUME NEW h, NEW n, NEW e, Right(h, n, e), NEW s \in Sides, h.side[s].kind = "standby",
           s = e \/ h.side[s].gone \/ h.side[s].phase = "ready"
    PROVE  /\ Right(StandbyOver(ReleaseSpares(h, s), s), n, e)
           /\ Served(h) => Served(StandbyOver(ReleaseSpares(h, s), s))
           /\ h.side[s].gone =>
                 /\ StandbyOver(ReleaseSpares(h, s), s).side[s].chunk = {}
                 /\ StandbyOver(ReleaseSpares(h, s), s).side[s].in = h.side[s].in
                 /\ StandbyOver(ReleaseSpares(h, s), s).side[s].gone
           /\ StandbyOver(ReleaseSpares(h, s), s).group = h.group
           /\ StandbyOver(ReleaseSpares(h, s), s).closed = h.closed
           /\ \A d \in Decisions : StandbyOver(ReleaseSpares(h, s), s).m[d].spare = s =>
                 ~Pending(StandbyOver(ReleaseSpares(h, s), s), d)
<1>1. PICK k : k = ReleaseSpares(h, s)
  OBVIOUS
<1>2. Right(k, n, e) /\ (Served(h) => Served(k)) /\ Freed(h, k, s)
  BY <1>1, ReleaseSparesKeeps
<1>3. PICK l : l = StandbyOver(k, s)
  OBVIOUS
<1>4. Right(l, n, e) /\ (Served(k) => Served(l)) /\ Rested(k, l, s)
  BY <1>2, <1>3, StandbyOverKeeps DEF Freed
<1>5. \A d \in Decisions : l.m[d].spare = s => ~Pending(l, d)
  BY <1>2, <1>4 DEF Freed, Rested, Pending
<1>. QED
  BY <1>1, <1>2, <1>3, <1>4, <1>5 DEF Freed, Rested

----------------------------------------------------------------------------
(* What awaited a side session goes on                                      *)

\* A fan-out refuses what is left of its chunk, and ends.
LEMMA ChunkRefused ==
    ASSUME NEW h, NEW n, NEW e, Right(h, n, e), LeftGroup(h, e), NEW s \in Sides, h.side[s].kind = "fan",
           h.side[s].phase # "turn", NEW k, k = FanOutOver(SettledAll(h, h.side[s].chunk, "unsent"), s)
    PROVE  Right(k, n, e) /\ Served(k) /\ Parted(h, k, s)
<1>1. h \in HostType /\ h.side[s] \in SideType /\ \A d \in Decisions : HeldRight(h, s, d)
  BY DEF Right, Typed, HostType
<1>2. PICK ds \in SUBSET Decisions : ds = h.side[s].chunk
  BY <1>1 DEF SideType
<1>3. \A d \in ds : ~h.m[d].used
  BY <1>1, <1>2 DEF HeldRight
<1>4. PICK g : g = SettledAll(h, ds, "unsent")
  OBVIOUS
<1>5. Right(g, n, e)
  BY <1>3, <1>4, SettledAllKeeps DEF Ended
<1>6. Told(h, g, ds, "unsent")
  BY <1>1, <1>4, SettledAllTold DEF Ended
<1>7. /\ g.side = h.side /\ g.group = h.group /\ g.closed = h.closed
      /\ \A d \in Decisions : /\ g.m[d].spare = h.m[d].spare
                              /\ Pending(g, d) <=> Pending(h, d) /\ d \notin ds
  BY <1>6 DEF Told, SameRest
<1>8. LeftGroup(g, e)
  BY <1>7 DEF LeftGroup, Open
<1>9. \A d \in g.side[s].chunk : ~Pending(g, d)
  BY <1>2, <1>7
<1>10. k = FanOutOver(g, s)
  BY <1>2, <1>4
<1>11. /\ Right(k, n, e) /\ Served(k)
       /\ k.group = g.group /\ k.closed = g.closed
       /\ ~g.side[s].in => ~k.side[s].in /\ k.side[s].chunk = {} /\ k.side[s].gone = g.side[s].gone
       /\ g.side[s].gone => k.side[s].gone
       /\ \A d \in Decisions : Pending(k, d) => g.m[d] = k.m[d]
  BY <1>5, <1>7, <1>8, <1>9, <1>10, FanOutOverKeeps
<1>12. Parted(h, k, s)
  BY <1>7, <1>11 DEF Parted, Pending
<1>. QED
  BY <1>11, <1>12

\* What a rewound or lost fan-out still owes is sent again or refused.
LEMMA UnfinishedKeeps ==
    ASSUME NEW h, NEW n, NEW e, Right(h, n, e), LeftGroup(h, e), NEW s \in Sides, h.side[s].kind = "fan",
           h.side[s].phase \in {"rewinding", "killing"}, h.side[s].phase = "rewinding" \/ ~h.side[s].alive,
           NEW k, k = Unfinished(h, s)
    PROVE  Right(k, n, e) /\ (Served(h) => Served(k)) /\ Parted(h, k, s)
<1>1. /\ h \in HostType /\ h.side[s] \in SideType /\ SideRight(h, s)
      /\ \A d \in Decisions : HeldRight(h, s, d)
  BY DEF Right, Typed, HostType
<1>2. CASE h.side[s].chunk # {} /\ ~h.side[s].retry /\ h.side[s].alive
  <2>1. PICK x \in SideType : x = [h.side[s] EXCEPT !.phase = "ready", !.retry = TRUE, !.listed = {}]
    BY <1>1 DEF SideType
  <2>2. /\ x.kind = "fan" /\ x.phase = "ready" /\ x.listed = {} /\ x.chunk = h.side[s].chunk
        /\ x.members = h.side[s].members /\ x.gone = h.side[s].gone /\ x.in = h.side[s].in
        /\ x.alive = h.side[s].alive
    BY <1>1, <2>1 DEF SideType
  <2>3. ~x.gone /\ x.members = {}
    BY <1>1, <1>2, <2>2 DEF SideRight
  <2>4. FanStep(h, e, s, x)
    BY <1>1, <2>2, <2>3 DEF FanStep
  <2>5. ASSUME NEW d \in Decisions PROVE FanStepOn(h, e, s, x, d)
    <3>1. HeldRight(h, s, d)
      BY <1>1
    <3>. QED
      BY <2>2, <2>3, <3>1 DEF FanStepOn, HeldRight
  <2>6. k = [h EXCEPT !.side[s] = x]
    BY <1>2, <2>1 DEF Unfinished
  <2>7. Right(k, n, e)
    BY <2>4, <2>5, <2>6, FanStepKeeps
  <2>8. /\ k.m = h.m /\ k.waiting = h.waiting /\ k.group = h.group /\ k.closed = h.closed
        /\ k.side[s] = x /\ \A t \in Sides : t # s => k.side[t] = h.side[t]
    BY <1>1, <2>6 DEF HostType
  <2>9. Served(h) => Served(k)
    <3>1. ASSUME NEW t \in Sides, Serves(h, t) PROVE Serves(k, t)
      BY <2>2, <2>8, <3>1 DEF Serves, Busy
    <3>. QED
      BY <2>8, <3>1 DEF Served, Open
  <2>10. Parted(h, k, s)
    BY <2>2, <2>3, <2>8 DEF Parted, Pending
  <2>. QED
    BY <2>7, <2>9, <2>10
<1>3. CASE ~(h.side[s].chunk # {} /\ ~h.side[s].retry /\ h.side[s].alive)
  <2>1. k = FanOutOver(SettledAll(h, h.side[s].chunk, "unsent"), s)
    BY <1>3 DEF Unfinished
  <2>. QED
    BY <2>1, ChunkRefused
<1>. QED
  BY <1>2, <1>3

\* A side session that does nothing has nobody left to part from.
LEMMA PartedSame ==
    ASSUME NEW h, NEW n, NEW e, Right(h, n, e), NEW s \in Sides,
           h.side[s].phase \in {"idle", "ready", "admitting"}
    PROVE  Parted(h, h, s)
<1>1. SideRight(h, s)
  BY DEF Right
<1>. QED
  BY <1>1 DEF Parted, SideRight

\* What awaited a side session goes on.
LEMMA ResumedKeeps ==
    ASSUME NEW h, NEW n, NEW e, Right(h, n, e), LeftGroup(h, e), NEW s \in Sides, h.side[s].kind # "none",
           h.side[s].gone \/ (h.side[s].phase = "ready" /\ h.side[s].ready = "failed"),
           Open(h) /\ h.side[s].kind = "fan" /\ h.side[s].phase = "turn" =>
              \A d \in h.side[s].chunk : ~Pending(h, d),
           NEW k, k = Resumed(h, s)
    PROVE  Right(k, n, e) /\ (Served(h) => Served(k)) /\ Parted(h, k, s)
<1>1. /\ h \in HostType /\ h.out = Null /\ h.side[s] \in SideType /\ SideRight(h, s)
  BY DEF Right, Typed, HostType
<1>2. CASE h.side[s].kind = "standby"
  <2>1. PICK b \in HostType : b = [h EXCEPT !.backoff = TRUE]
    BY <1>1 DEF HostType
  <2>2. /\ b.m = h.m /\ b.side = h.side /\ b.spare = h.spare /\ b.batch = h.batch /\ b.waiting = h.waiting
        /\ b.timer = h.timer /\ b.out = h.out /\ b.group = h.group /\ b.closed = h.closed
    BY <1>1, <2>1 DEF HostType
  <2>3. Aside(h, b)
    BY <1>1, <2>2 DEF Aside, SameMember, SameSide, Open
  <2>4. Right(b, n, e) /\ (Served(h) => Served(b))
    BY <2>3, AsideKeeps
  <2>5. ASSUME NEW g, Right(g, n, e), Served(h) => Served(g), g.m = h.m, g.side = h.side, g.group = h.group, g.closed = h.closed,
               h.side[s].gone \/ h.side[s].phase = "ready", k = StandbyOver(ReleaseSpares(g, s), s)
        PROVE  Right(k, n, e) /\ (Served(h) => Served(k)) /\ Parted(h, k, s)
    <3>1. /\ Right(k, n, e) /\ (Served(g) => Served(k))
          /\ g.side[s].gone => k.side[s].chunk = {} /\ k.side[s].in = g.side[s].in /\ k.side[s].gone
          /\ k.group = g.group /\ k.closed = g.closed
          /\ \A d \in Decisions : k.m[d].spare = s => ~Pending(k, d)
      BY <1>2, <2>5, StandbyEndsKeeps
    <3>2. Parted(h, k, s)
      BY <2>5, <3>1 DEF Parted
    <3>. QED
      BY <2>5, <3>1, <3>2
  <2>6. CASE h.side[s].phase = "ready" /\ h.side[s].ready # "up"
    <3>1. k = StandbyOver(ReleaseSpares(b, s), s)
      BY <1>2, <2>1, <2>6 DEF Resumed
    <3>. QED
      BY <2>2, <2>4, <2>5, <2>6, <3>1
  <2>7. CASE h.side[s].phase \in {"turn", "rewinding", "killing"}
    <3>1. k = StandbyOver(ReleaseSpares(h, s), s) /\ h.side[s].gone
      BY <1>2, <2>7 DEF Resumed
    <3>. QED
      BY <2>5, <3>1
  <2>8. CASE ~(h.side[s].phase = "ready" /\ h.side[s].ready # "up") /\ h.side[s].phase \in {"idle", "ready", "admitting"}
    <3>1. k = h
      BY <1>2, <2>8 DEF Resumed
    <3>. QED
      BY <2>8, <3>1, PartedSame
  <2>. QED
    BY <1>1, <2>6, <2>7, <2>8 DEF SideType
<1>3. CASE h.side[s].kind = "fan"
  <2>1. CASE h.side[s].phase = "ready" /\ h.side[s].ready # "up"
    <3>1. k = FanOutOver(SettledAll(h, h.side[s].chunk, "unsent"), s)
      BY <1>3, <2>1 DEF Resumed
    <3>. QED
      BY <1>3, <2>1, <3>1, ChunkRefused
  <2>2. CASE h.side[s].phase = "turn"
    <3>1. k = FanOutOver(h, s)
      BY <1>3, <2>2 DEF Resumed
    <3>2. /\ Right(k, n, e) /\ Served(k)
          /\ k.group = h.group /\ k.closed = h.closed
          /\ ~h.side[s].in => ~k.side[s].in /\ k.side[s].chunk = {} /\ k.side[s].gone = h.side[s].gone
          /\ h.side[s].gone => k.side[s].gone
          /\ \A d \in Decisions : Pending(k, d) => h.m[d] = k.m[d]
      BY <1>3, <2>2, <3>1, FanOutOverKeeps
    <3>3. Parted(h, k, s)
      BY <3>2 DEF Parted, Pending
    <3>. QED
      BY <3>2, <3>3
  <2>3. CASE h.side[s].phase \in {"rewinding", "killing"}
    <3>1. k = Unfinished(h, s) /\ ~h.side[s].alive
      BY <1>1, <1>3, <2>3 DEF Resumed, SideRight
    <3>. QED
      BY <1>3, <2>3, <3>1, UnfinishedKeeps
  <2>4. CASE ~(h.side[s].phase = "ready" /\ h.side[s].ready # "up") /\ h.side[s].phase \in {"idle", "ready", "admitting"}
    <3>1. k = h
      BY <1>3, <2>4 DEF Resumed
    <3>. QED
      BY <2>4, <3>1, PartedSame
  <2>. QED
    BY <1>1, <2>1, <2>2, <2>3, <2>4 DEF SideType
<1>. QED
  BY <1>1, <1>2, <1>3 DEF SideType

----------------------------------------------------------------------------
(* A side session is lost                                                   *)

\* A side session that is there may be the one that is lost.
LEMMA MayBeLost ==
    ASSUME NEW h, NEW n, Right(h, n, Null), NEW s \in Sides PROVE Right(h, n, s)
<1>1. /\ Typed(h, n, Null) /\ Kept(h, Null) /\ Null \notin Sides
      /\ \A d \in Decisions : MemberRight(h, d) /\ ApartOn(h, d) /\ AgreeOn(h, n, Null, d)
  BY SubagentsAssumption DEF Right
<1>2. ASSUME NEW d \in Decisions PROVE AgreeOn(h, n, s, d)
  <2>1. AgreeOn(h, n, Null, d)
    BY <1>1
  <2>2. Runs(h, n, s, d) => Runs(h, n, Null, d)
    BY <2>1 DEF Runs, AgreeOn
  <2>. QED
    BY <2>1, <2>2 DEF AgreeOn
<1>3. Kept(h, s)
  <2>1. ASSUME NEW d \in Decisions, KeptOn(h, Null, d) PROVE KeptOn(h, s, d)
    BY <1>1, <2>1 DEF KeptOn
  <2>. QED
    BY <1>1, <2>1 DEF Kept
<1>. QED
  BY <1>1, <1>2, <1>3 DEF Right, Typed

\* Once nobody is left on it, it is lost.
LEMMA IsLost ==
    ASSUME NEW h, NEW n, NEW s \in Sides, Right(h, n, s), h.side[s].gone,
           Open(h) => /\ ~h.side[s].in
                      /\ \A d \in Decisions : Pending(h, d) =>
                            /\ h.m[d].spare # s
                            /\ d \in h.side[s].chunk => h.side[s].phase \in {"ready", "admitting"}
    PROVE  Right(h, n, Null)
<1>1. /\ Typed(h, n, s) /\ Kept(h, s) /\ Null \notin Sides
      /\ \A d \in Decisions : MemberRight(h, d) /\ ApartOn(h, d) /\ AgreeOn(h, n, s, d)
  BY SubagentsAssumption DEF Right
<1>2. ASSUME NEW d \in Decisions PROVE AgreeOn(h, n, Null, d)
  <2>1. AgreeOn(h, n, s, d)
    BY <1>1
  <2>2. Runs(h, n, Null, d) => Runs(h, n, s, d)
    BY DEF Runs
  <2>. QED
    BY <2>1, <2>2 DEF AgreeOn
<1>3. Kept(h, Null)
  <2>1. ASSUME Open(h), NEW d \in Decisions, KeptOn(h, s, d) PROVE KeptOn(h, Null, d)
    BY <1>1, <2>1 DEF KeptOn
  <2>. QED
    BY <1>1, <2>1 DEF Kept
<1>. QED
  BY <1>1, <1>2, <1>3 DEF Right, Typed

\* Nobody waits for the stop of a subagent on a lost side session.
LEMMA UnstoppedKeeps ==
    ASSUME NEW h, NEW n, NEW e, Right(h, n, e), NEW s \in Sides
    PROVE  /\ Right(Unstopped(h, s), n, e)
           /\ Unstopped(h, s).side = h.side /\ Unstopped(h, s).spare = h.spare /\ SameRest(h, Unstopped(h, s))
           /\ \A d \in Decisions : /\ Unstopped(h, s).m[d].told = h.m[d].told
                                   /\ Unstopped(h, s).m[d].used = h.m[d].used
                                   /\ Unstopped(h, s).m[d].spare = h.m[d].spare
<1>0. h \in HostType /\ h.out = Null /\ s # Null /\ \A d \in Decisions : MemberRight(h, d)
  BY SubagentsAssumption DEF Right, Typed
<1>1. PICK mm : mm = [d \in Decisions |-> [h.m[d] EXCEPT !.stop = IF @ = s THEN Null ELSE @]]
  OBVIOUS
<1>2. ASSUME NEW d \in Decisions
      PROVE  /\ mm[d] \in MemberType /\ SameMember(h.m[d], mm[d])
             /\ mm[d].admitted = h.m[d].admitted /\ mm[d].asking = h.m[d].asking
  <2>1. h.m[d] \in MemberType /\ h.m[d].told = "none" => h.m[d] = Blank
    BY <1>0 DEF MemberRight
  <2>2. PICK x \in MemberType : x = h.m[d]
    BY <1>0 DEF HostType
  <2>3. PICK v \in Sides \cup {Null} : v = IF x.stop = s THEN Null ELSE x.stop
    BY <2>2 DEF MemberType
  <2>4. mm[d] = [x EXCEPT !.stop = v]
    BY <1>1, <2>2, <2>3
  <2>5. PICK y \in MemberType : y = [x EXCEPT !.stop = v]
    BY DEF MemberType
  <2>6. /\ y.told = x.told /\ y.spare = x.spare /\ y.input = x.input /\ y.admitted = x.admitted
        /\ y.used = x.used /\ y.delivered = x.delivered /\ y.bad = x.bad /\ y.task = x.task /\ y.asking = x.asking
    BY <2>5 DEF MemberType
  <2>7. x.told = "none" => y = x
    <3>1. SUFFICES ASSUME x.told = "none" PROVE y = x
      OBVIOUS
    <3>2. x.stop = Null
      BY <1>0, <2>2, <3>1 DEF MemberRight, Blank
    <3>3. v = x.stop
      BY <1>0, <2>3, <3>2
    <3>. QED
      BY <2>5, <3>3 DEF MemberType
  <2>. QED
    BY <2>2, <2>4, <2>5, <2>6, <2>7 DEF SameMember
<1>3. PICK g : g = [h EXCEPT !.m = mm]
  OBVIOUS
<1>4. mm \in [Decisions -> MemberType]
  <2>1. mm = [d \in Decisions |-> mm[d]]
    BY <1>1
  <2>. QED
    BY <1>2, <2>1
<1>5. g \in HostType /\ g.m = mm /\ g.side = h.side /\ g.spare = h.spare /\ SameRest(h, g)
  BY <1>0, <1>3, <1>4 DEF HostType, SameRest
<1>6. Aside(h, g)
  BY <1>0, <1>2, <1>5 DEF Aside, SameRest, SameSide, Open
<1>7. Right(g, n, e)
  BY <1>6, AsideKeeps
<1>8. Unstopped(h, s) = g
  BY <1>1, <1>3 DEF Unstopped
<1>. QED
  BY <1>2, <1>5, <1>7, <1>8 DEF SameMember

\* It is gone.
LEMMA GoneKeeps ==
    ASSUME NEW h, NEW n, NEW s \in Sides, Right(h, n, s), h.side[s].kind # "none",
           NEW x \in SideType, x = [h.side[s] EXCEPT !.gone = TRUE, !.alive = FALSE],
           NEW g, g = [h EXCEPT !.side[s] = x]
    PROVE  Right(g, n, s)
<1>1. /\ h \in HostType /\ h.side[s] \in SideType /\ SideRight(h, s) /\ Kept(h, s)
      /\ \A d \in Decisions : HeldRight(h, s, d) /\ (Open(h) => KeptOn(h, s, d)) /\ AgreeOn(h, n, s, d)
      /\ \A r \in Roles : SpareRight(h, s, r) /\ h.spare[s][r] \in SpareType
      /\ h.spare[s] \in [Roles -> SpareType]
  BY DEF Right, Typed, HostType, Kept
<1>2. /\ x.gone /\ ~x.alive /\ x.kind = h.side[s].kind /\ x.phase = h.side[s].phase /\ x.in = h.side[s].in
      /\ x.chunk = h.side[s].chunk /\ x.listed = h.side[s].listed /\ x.members = h.side[s].members
      /\ x.retry = h.side[s].retry
  BY <1>1 DEF SideType
<1>3. CASE h.side[s].kind = "fan"
  <2>1. FanStep(h, s, s, x)
    BY <1>1, <1>2, <1>3 DEF FanStep, SideRight
  <2>2. ASSUME NEW d \in Decisions PROVE FanStepOn(h, s, s, x, d)
    <3>1. HeldRight(h, s, d) /\ (Open(h) => KeptOn(h, s, d))
      BY <1>1
    <3>. QED
      BY <1>2, <1>3, <3>1 DEF FanStepOn, HeldRight, KeptOn
  <2>3. \A d \in Decisions : FanStepOn(h, s, s, x, d)
    BY <2>2
  <2>. QED
    BY <2>1, <2>3, FanStepKeeps, Zenon
<1>4. CASE h.side[s].kind = "standby"
  <2>1. PICK sp : sp = h.spare[s]
    OBVIOUS
  <2>2. StandbyStep(h, s, s, x, sp)
    <3>1. x.phase \notin {"ready", "turn"} => sp = Unheld
      <4>1. SUFFICES ASSUME h.side[s].phase \notin {"ready", "turn"} PROVE sp = Unheld
        BY <1>2
      <4>2. \A r \in Roles : sp[r] = NoSpare
        BY <1>1, <2>1, <4>1 DEF SpareRight
      <4>. QED
        BY <1>1, <2>1, <4>2 DEF Unheld
    <3>2. x.phase = "ready" => \A r \in Roles : ~sp[r].used
      BY <1>1, <1>2, <2>1 DEF SpareRight
    <3>. QED
      BY <1>1, <1>2, <1>4, <2>1, <3>1, <3>2 DEF StandbyStep, SideRight
  <2>3. ASSUME NEW d \in Decisions PROVE StandbyStepOn(h, n, s, s, x, sp, d)
    <3>1. HeldRight(h, s, d) /\ (Open(h) => KeptOn(h, s, d))
      BY <1>1
    <3>. QED
      BY <1>2, <1>4, <2>1, <3>1 DEF StandbyStepOn, HeldRight, KeptOn
  <2>4. \A d \in Decisions : StandbyStepOn(h, n, s, s, x, sp, d)
    BY <2>3
  <2>5. g = [h EXCEPT !.side[s] = x, !.spare[s] = sp]
    BY <1>1, <2>1 DEF HostType
  <2>. QED
    <3>1. PICK k : k = [h EXCEPT !.side[s] = x, !.spare[s] = sp]
      OBVIOUS
    <3>2. Right(h, n, s)
      OBVIOUS
    <3>3. Right(k, n, s)
      BY <3>1, <3>2, <2>2, <2>4, StandbyStepKeeps, Zenon
    <3>. QED
      BY <3>1, <3>3, <2>5
<1>. QED
  BY <1>1, <1>3, <1>4 DEF SideType

\* Its flags and the stops, one after the other.
LEMMA OffIs ==
    ASSUME NEW h \in HostType, NEW s \in Sides, NEW x, x = Dead(h.side[s]), NEW u, u = Unstopped(h, s)
    PROVE  Off(h, s) = Put(u, s, x)
<1>1. PICK mm : mm = [d \in Decisions |-> [h.m[d] EXCEPT !.stop = IF @ = s THEN Null ELSE @]]
  BY Zenon
<1>2. u = [h EXCEPT !.m = mm]
  BY <1>1, Zenon DEF Unstopped
<1>3. Off(h, s) = [h EXCEPT !.side[s] = x, !.m = mm]
  BY <1>1, Zenon DEF Off, Dead
<1>4. Put(u, s, x) = [u EXCEPT !.side[s] = x]
  BY Zenon DEF Put
<1>. QED
  <2>1. [u EXCEPT !.side[s] = x] = [h EXCEPT !.side[s] = x, !.m = mm]
    BY <1>2 DEF HostType
  <2>. QED
    BY <1>3, <1>4, <2>1, Zenon

\* A side session is off: it is gone, and everybody on it still there.
LEMMA OffKeeps ==
    ASSUME NEW h, NEW n, NEW s \in Sides, Right(h, n, Null), h.side[s].kind # "none", NEW g0, g0 = Off(h, s)
    PROVE  Right(g0, n, s) /\ TurnedOff(h, g0, s)
<1>1. Right(h, n, s) /\ h \in HostType
  BY MayBeLost, Zenon DEF Right, Typed
<1>0. h.side[s] \in SideType
  BY <1>1, Zenon DEF HostType
<1>2. PICK u : u = Unstopped(h, s)
  BY Zenon
<1>3. /\ Right(u, n, s) /\ u.side = h.side /\ u.spare = h.spare /\ SameRest(h, u)
      /\ \A d \in Decisions : u.m[d].used = h.m[d].used
  BY <1>1, <1>2, UnstoppedKeeps
<1>4. PICK x : x = Dead(h.side[s])
  BY Zenon
<1>9. x \in SideType /\ x.kind = h.side[s].kind /\ x.gone /\ ~x.alive
  BY <1>0, <1>4 DEF SideType, Dead
<1>5. g0 = [u EXCEPT !.side[s] = x]
  <2>1. Off(h, s) = Put(u, s, x)
    BY <1>1, <1>2, <1>4, OffIs, Zenon
  <2>. QED
    BY <2>1, Zenon DEF Put
<1>6. Right(g0, n, s)
  <2>1. x = [u.side[s] EXCEPT !.gone = TRUE, !.alive = FALSE] /\ u.side[s].kind # "none"
    BY <1>3, <1>4, Zenon DEF Dead
  <2>. QED
    BY <1>3, <1>5, <1>9, <2>1, GoneKeeps, Zenon
<1>7. u \in HostType
  BY <1>3 DEF Right, Typed
<1>8. g0.spare = h.spare /\ g0.m = u.m /\ g0.side[s] = x /\ SameRest(h, g0)
  BY <1>3, <1>5, <1>7 DEF HostType, SameRest
<1>. QED
  BY <1>3, <1>6, <1>8, <1>9 DEF TurnedOff

\* Nobody who is asked is left on it.
LEMMA OrphansAre ==
    ASSUME NEW h, NEW n, NEW s \in Sides, NEW g0, Right(g0, n, s), SameRest(h, g0),
           g0.side[s].kind = h.side[s].kind, g0.side[s].gone,
           NEW ms, \A d \in Decisions : Pending(g0, d) /\ g0.m[d].spare = s => d \in ms,
           NEW g1, Right(g1, n, s), Fell(g0, g1, ms),
           NEW of, of = g1.side[s].members, NEW us,
           NEW a, Told(g1, a, of \cap us, "over"),
           NEW g2, Right(g2, n, s), Told(a, g2, of \ us, "unsent")
    PROVE  Orphaned(h, g2, s)
<1>5. /\ g1 \in HostType /\ g1.group = g0.group /\ g1.closed = g0.closed
      /\ g1.side[s].kind = g0.side[s].kind /\ g1.side[s].gone = g0.side[s].gone
      /\ \A d \in Decisions :
          /\ g1.m[d].told = g0.m[d].told /\ g1.m[d].used = g0.m[d].used /\ g1.m[d].delivered = g0.m[d].delivered
          /\ g1.m[d].spare \in {g0.m[d].spare, Null}
          /\ d \in ms /\ Pending(g0, d) /\ ~g0.m[d].delivered => g1.m[d].spare = Null
  BY Zenon DEF Fell
<1>6. \A d \in Decisions : MemberRight(g1, d)
  BY DEF Right
<1>11. /\ a \in HostType /\ a.side = g1.side /\ SameRest(g1, a)
       /\ \A d \in Decisions : /\ a.m[d].used = g1.m[d].used /\ a.m[d].spare = g1.m[d].spare
                               /\ Pending(a, d) <=> Pending(g1, d) /\ d \notin of \cap us
  BY DEF Told
<1>15. /\ g2.side = a.side /\ SameRest(a, g2)
       /\ \A d \in Decisions : /\ g2.m[d].spare = a.m[d].spare /\ g2.m[d].used = a.m[d].used
                               /\ Pending(g2, d) <=> Pending(a, d) /\ d \notin of \ us
  BY DEF Told
<1>16. \A d \in Decisions : KeptOn(g2, s, d) \/ ~Open(g2)
  BY DEF Right, Kept
<1>17. SideRight(g2, s) /\ (\A d \in Decisions : MemberRight(g2, d)) /\ g2.side[s] \in SideType
  BY DEF Right, Typed, HostType
<1>14. \A d \in Decisions : Pending(g2, d) => d \notin of
  BY <1>11, <1>15
<1>13. g2.side[s].members = of
  BY <1>11, <1>15
<1>18. ASSUME Open(g2), g2.side[s].kind = "fan", g2.side[s].phase = "turn", NEW d \in g2.side[s].chunk, Pending(g2, d)
       PROVE  FALSE
  <2>1. d \in Decisions
    BY <1>17, <1>18 DEF SideType
  <2>2. d \in g2.side[s].listed
    BY <1>16, <1>18, <2>1 DEF KeptOn
  <2>3. d \in of
    BY <1>13, <1>17, <1>18, <2>2 DEF SideRight
  <2>. QED
    BY <1>14, <1>18, <2>1, <2>3
<1>19. ASSUME Open(g2), NEW d \in Decisions, Pending(g2, d), g2.m[d].spare = s PROVE FALSE
  <2>1. Pending(g1, d) /\ d \notin of /\ g1.m[d].spare = s /\ g2.m[d].used = g1.m[d].used
    BY <1>11, <1>14, <1>15, <1>19
  <2>2. ~g2.m[d].admitted
    BY <1>13, <1>16, <1>19, <2>1 DEF KeptOn
  <2>3. ~g1.m[d].used
    BY <1>17, <2>1, <2>2 DEF MemberRight
  <2>4. ~g0.m[d].delivered
    BY <1>5, <1>6, <2>3 DEF MemberRight
  <2>5. s # Null
    BY SubagentsAssumption
  <2>6. g0.m[d].spare = s /\ Pending(g0, d)
    BY <1>5, <2>1, <2>5 DEF Pending
  <2>7. g1.m[d].spare = Null
    BY <1>5, <2>4, <2>6
  <2>. QED
    BY <2>1, <2>5, <2>7
<1>20. g2.group = h.group /\ g2.closed = h.closed
  BY <1>5, <1>11, <1>15, Zenon DEF SameRest
<1>21. g2.side[s].kind = h.side[s].kind /\ g2.side[s].gone
  BY <1>5, <1>11, <1>15
<1>. QED
  BY <1>18, <1>19, <1>20, <1>21, Zenon DEF Orphaned

\* _lost moves or settles everybody on its spares and in its turn.
LEMMA OrphansKeep ==
    ASSUME NEW h, NEW n, NEW s \in Sides, Right(h, n, Null), h.side[s].kind # "none", NEW g0, g0 = Off(h, s),
           NEW ms, ms = OnSpares(h, s), NEW g1, g1 = FallbackAll(g0, ms), NEW of, of = g1.side[s].members,
           NEW us, us \subseteq of, \A d \in of : d \in us <=> h.m[d].used, NEW vs, vs = of \ us,
           NEW a, a = SettledAll(g1, us, "over"), NEW g2, g2 = SettledAll(a, vs, "unsent")
    PROVE  Right(g2, n, s) /\ Orphaned(h, g2, s)
<1>0. Right(g0, n, s) /\ TurnedOff(h, g0, s)
  BY OffKeeps
<1>1. /\ Right(g0, n, s) /\ g0.spare = h.spare /\ SameRest(h, g0)
      /\ g0.side[s].kind = h.side[s].kind /\ g0.side[s].gone /\ ~g0.side[s].alive
      /\ \A d \in Decisions : g0.m[d].used = h.m[d].used
  BY <1>0, Zenon DEF TurnedOff
<1>2. ms = OnSpares(g0, s)
  BY <1>1, Zenon DEF OnSpares, Spares
<1>3. /\ ms \in SUBSET Decisions
      /\ \A d \in Decisions : Pending(g0, d) /\ g0.m[d].spare = s => d \in ms
  BY <1>0, <1>2, OnSparesAre
<1>4. Right(g1, n, s) /\ Fell(g0, g1, ms)
  BY <1>1, <1>3, FallbackAllKeeps, FallbackAllFell, Zenon
<1>5. g1 \in HostType /\ \A d \in Decisions : g1.m[d].used = g0.m[d].used
  BY <1>4, Zenon DEF Fell
<1>6. \A d \in Decisions : AgreeOn(g1, n, s, d)
  BY <1>4, Zenon DEF Right
<1>7. of \subseteq Decisions
  <2>1. g1.side[s] \in SideType
    BY <1>5, Zenon DEF HostType
  <2>. QED
    BY <2>1 DEF SideType
<1>8. \A d \in us : d \in Decisions /\ g1.m[d].used /\ d \in of
  BY <1>1, <1>5, <1>7, Zenon
<1>9. Right(a, n, s)
  <2>1. ASSUME NEW d \in us \cap Decisions, Pending(g1, d) PROVE ~Runs(g1, n, s, d)
    <3>1. AgreeOn(g1, n, s, d)
      BY <1>6
    <3>2. n[d].on = s
      BY <1>8, <3>1, Zenon DEF AgreeOn
    <3>. QED
      BY <3>2, Zenon DEF Runs
  <2>2. \A d \in us \cap Decisions : Pending(g1, d) => /\ "over" = "unsent" => ~g1.m[d].used
                                                       /\ "over" \in {"answered", "over"} => ~Runs(g1, n, s, d)
                                                       /\ "over" = "answered" => n[d].got = Whole(d)
    BY <2>1
  <2>. QED
    BY <1>4, <2>2, SettledAllKeeps, Zenon DEF Ended
<1>10. Told(g1, a, us, "over")
  BY <1>5, SettledAllTold, Zenon DEF Ended
<1>11. a \in HostType /\ \A d \in Decisions : a.m[d].used = g1.m[d].used
  BY <1>10, Zenon DEF Told
<1>13. Right(g2, n, s)
  <2>1. ASSUME NEW d \in vs \cap Decisions PROVE ~a.m[d].used
    BY <1>1, <1>5, <1>11, Zenon
  <2>2. \A d \in vs \cap Decisions : Pending(a, d) => /\ "unsent" = "unsent" => ~a.m[d].used
                                                      /\ "unsent" \in {"answered", "over"} => ~Runs(a, n, s, d)
                                                      /\ "unsent" = "answered" => n[d].got = Whole(d)
    BY <2>1
  <2>. QED
    BY <1>9, <2>2, SettledAllKeeps, Zenon DEF Ended
<1>14. Told(a, g2, vs, "unsent")
  BY <1>11, SettledAllTold, Zenon DEF Ended
<1>15. Told(g1, a, of \cap us, "over") /\ Told(a, g2, of \ us, "unsent")
  <2>1. us = of \cap us
    OBVIOUS
  <2>. QED
    BY <1>10, <1>14, <2>1, Zenon
<1>16. /\ Right(g0, n, s) /\ SameRest(h, g0) /\ g0.side[s].kind = h.side[s].kind /\ g0.side[s].gone
       /\ \A d \in Decisions : Pending(g0, d) /\ g0.m[d].spare = s => d \in ms
       /\ Right(g1, n, s) /\ Fell(g0, g1, ms)
  BY <1>1, <1>3, <1>4, Zenon
<1>17. \A x : x = g1.side[s].members => x = of
  BY Zenon
<1>. QED
  BY <1>13, <1>15, <1>16, OrphansAre

\* It leaves the group, and what waited is drained.
LEMMA LeavesGroup ==
    ASSUME NEW h, NEW n, NEW s \in Sides, NEW g2, Right(g2, n, s), Orphaned(h, g2, s), h.side[s].kind # "none",
           NEW g3, g3 = IF h.group = "released" THEN g2 ELSE Drain([g2 EXCEPT !.side[s].in = FALSE])
    PROVE  Right(g3, n, s) /\ Served(g3) /\ Orphaned(h, g3, s) /\ LeftGroup(g3, s) /\ (Open(g3) => ~g3.side[s].in)
<1>1. /\ g2.group = h.group /\ g2.closed = h.closed
      /\ g2.side[s].kind = h.side[s].kind /\ g2.side[s].gone
      /\ Open(g2) => /\ g2.side[s].kind = "fan" /\ g2.side[s].phase = "turn" => \A d \in g2.side[s].chunk : ~Pending(g2, d)
                     /\ \A d \in Decisions : Pending(g2, d) => g2.m[d].spare # s
  BY Zenon DEF Orphaned
<1>2. CASE h.group = "released"
  <2>1. ~Open(g2) /\ g3 = g2
    BY <1>1, <1>2 DEF Open
  <2>. QED
    BY <2>1, Zenon DEF Served, LeftGroup
<1>3. CASE h.group # "released"
  <2>1. g2 \in HostType /\ g2.side[s] \in SideType
    BY DEF Right, Typed, HostType
  <2>2. PICK x : x = [g2.side[s] EXCEPT !.in = FALSE]
    BY Zenon
  <2>3. PICK u : u = [g2 EXCEPT !.side[s] = x]
    BY Zenon
  <2>4. /\ x \in SideType /\ x.kind = g2.side[s].kind /\ x.phase = g2.side[s].phase /\ x.gone = g2.side[s].gone
        /\ x.chunk = g2.side[s].chunk /\ x.listed = g2.side[s].listed /\ x.members = g2.side[s].members
        /\ x.retry = g2.side[s].retry /\ x.ready = g2.side[s].ready /\ x.alive = g2.side[s].alive /\ ~x.in
    BY <2>1, <2>2 DEF SideType
  <2>5. Flags(g2, u)
    BY <1>1, <2>1, <2>3, <2>4, OneFlagged
  <2>6. Right(u, n, s)
    BY <2>5, FlagsKeeps
  <2>7. u.side[s] = x /\ u.m = g2.m /\ u.group = g2.group /\ u.closed = g2.closed
    BY <2>1, <2>3 DEF HostType
  <2>8. LeftGroup(u, s)
    BY <1>1, <2>4, <2>7 DEF LeftGroup
  <2>9. g3 = Drain(u)
    BY <1>3, <2>2, <2>3, <2>1 DEF HostType
  <2>10. Right(g3, n, s) /\ Served(g3) /\ Drains(u, g3)
    BY <2>6, <2>8, <2>9, DrainKeeps
  <2>11. /\ g3.group = u.group /\ g3.closed = u.closed /\ g3.side[s] = x
         /\ \A d \in Decisions : g3.m[d] = u.m[d] \/ (Pending(u, d) /\ ~Pending(g3, d))
    BY <1>1, <2>4, <2>7, <2>10 DEF Drains
  <2>12. Open(g3) => Open(g2)
    BY <2>7, <2>11 DEF Open
  <2>13. \A d \in Decisions : Pending(g3, d) => Pending(g2, d) /\ g3.m[d].spare = g2.m[d].spare
    BY <2>7, <2>11 DEF Pending
  <2>14. x.chunk \subseteq Decisions
    BY <2>4 DEF SideType
  <2>15. Orphaned(h, g3, s)
    BY <1>1, <2>4, <2>7, <2>11, <2>12, <2>13, <2>14 DEF Orphaned
  <2>16. LeftGroup(g3, s) /\ ~g3.side[s].in
    BY <1>1, <2>4, <2>11 DEF LeftGroup
  <2>. QED
    BY <2>10, <2>15, <2>16
<1>. QED
  BY <1>2, <1>3

\* _lost keeps the invariant.
LEMMA LoseKeeps ==
    ASSUME NEW h, NEW n, NEW s \in Sides, Right(h, n, Null), h.side[s].kind # "none", ~h.side[s].gone
    PROVE  Right(Lose(h, s), n, Null) /\ Served(Lose(h, s))
<1>a. PICK g0 : g0 = Off(h, s)
  BY Zenon
<1>b. PICK ms : ms = OnSpares(h, s)
  BY Zenon
<1>c. PICK g1 : g1 = FallbackAll(g0, ms)
  BY Zenon
<1>d. PICK of : of = g1.side[s].members
  BY Zenon
<1>e. PICK us, vs : us = {d \in of : h.m[d].used} /\ vs = {d \in of : ~h.m[d].used}
  BY Zenon
<1>f. PICK a : a = SettledAll(g1, us, "over")
  BY Zenon
<1>g. PICK g2 : g2 = SettledAll(a, vs, "unsent")
  BY Zenon
<1>h. PICK g3 : g3 = IF h.group = "released" THEN g2 ELSE Drain([g2 EXCEPT !.side[s].in = FALSE])
  BY Zenon
<1>i. PICK k : k = Resumed(g3, s)
  BY Zenon
<1>1. h \in HostType
  BY DEF Right, Typed
<1>2. Lose(h, s) = k
  BY <1>a, <1>b, <1>c, <1>d, <1>e, <1>f, <1>g, <1>h, <1>i, <1>1, Zenon DEF Lose, OnSpares, Off
<1>3. us \subseteq of /\ (\A d \in of : d \in us <=> h.m[d].used) /\ vs = of \ us
  BY <1>e
<1>4. Right(g2, n, s) /\ Orphaned(h, g2, s)
  BY <1>a, <1>b, <1>c, <1>d, <1>f, <1>g, <1>3, OrphansKeep
<1>5. Right(g3, n, s) /\ Served(g3) /\ Orphaned(h, g3, s) /\ LeftGroup(g3, s) /\ (Open(g3) => ~g3.side[s].in)
  BY <1>h, <1>4, LeavesGroup, Zenon
<1>6. /\ g3.group = h.group /\ g3.closed = h.closed
      /\ g3.side[s].kind = h.side[s].kind /\ g3.side[s].gone
      /\ Open(g3) => /\ g3.side[s].kind = "fan" /\ g3.side[s].phase = "turn" => \A d \in g3.side[s].chunk : ~Pending(g3, d)
                     /\ \A d \in Decisions : Pending(g3, d) => g3.m[d].spare # s
  BY <1>5, Zenon DEF Orphaned
<1>7. Right(k, n, s) /\ (Served(g3) => Served(k)) /\ Parted(g3, k, s)
  <2>1. /\ g3.side[s].kind # "none"
        /\ g3.side[s].gone \/ (g3.side[s].phase = "ready" /\ g3.side[s].ready = "failed")
        /\ Open(g3) /\ g3.side[s].kind = "fan" /\ g3.side[s].phase = "turn" => \A d \in g3.side[s].chunk : ~Pending(g3, d)
    BY <1>6
  <2>. QED
    BY <1>i, <1>5, <2>1, ResumedKeeps, Zenon
<1>8. /\ k.group = g3.group /\ k.closed = g3.closed
      /\ \A d \in Decisions : Pending(k, d) /\ k.m[d].spare = s => Pending(g3, d) /\ g3.m[d].spare = s
      /\ k.side[s].gone
      /\ ~g3.side[s].in =>
          /\ ~k.side[s].in
          /\ Open(k) => \A d \in k.side[s].chunk : Pending(k, d) => k.side[s].phase \in {"ready", "admitting"}
  BY <1>6, <1>7, Zenon DEF Parted
<1>9. Open(k) => Open(g3)
  BY <1>8 DEF Open
<1>10. Right(k, n, Null)
  BY <1>5, <1>6, <1>7, <1>8, <1>9, IsLost
<1>. QED
  BY <1>2, <1>5, <1>7, <1>10

----------------------------------------------------------------------------
(* A step ends: the runtime hears of it                                     *)

\* The runtime's view changes alone.
LEMMA NativeKeeps ==
    ASSUME NEW h, NEW n, NEW e, Right(h, n, e), NEW m \in NativeType, NEW f \in Sides \cup {Null}, Kept(h, f),
           \A d \in Decisions : AgreeOn(h, m, f, d)
    PROVE  Right(h, m, f)
BY Zenon DEF Right, Typed

\* The subagent of a decision is over.
LEMMA OverAgrees ==
    ASSUME NEW h, NEW n \in NativeType, NEW e, NEW d \in Decisions, AgreeOn(h, n, e, d), NEW m \in NativeType, NEW f,
           m[d] = [n[d] EXCEPT !.run = "over"], n[d].run # "none"
    PROVE  AgreeOn(h, m, f, d)
<1>1. n[d] \in [run : {"none", "running", "adrift", "over"}, on : Sides \cup {Null}, got : Text, runs : Nat]
  BY DEF NativeType
<1>2. m[d].run = "over" /\ m[d].on = n[d].on /\ m[d].got = n[d].got /\ m[d].runs = n[d].runs
  BY <1>1
<1>. QED
  BY <1>2 DEF AgreeOn, Runs

\* What the runtime makes of a host that writes nothing.
LEMMA HeardIs ==
    ASSUME NEW n, NEW h, h.out = Null, NEW e
    PROVE  \A d \in Decisions : Heard(n, h, e)[d] =
              IF n[d].run = "running" /\ (n[d].on = e \/ h.side[n[d].on].gone) THEN [n[d] EXCEPT !.run = "over"] ELSE n[d]
BY DEF Heard

\* The runtime forgets what ran on side sessions that are gone or in a turn that ended.
LEMMA HeardKeeps ==
    ASSUME NEW h, NEW n, NEW e, Right(h, n, e), e = Null \/ ~h.side[e].gone
    PROVE  Right(h, Heard(n, h, e), Null) /\ Rest(h, Heard(n, h, e))
<1>. DEFINE m == Heard(n, h, e)
<1>1. h.out = Null /\ n \in NativeType /\ h \in HostType /\ e \in Sides \cup {Null}
  BY DEF Right, Typed
<1>2. \A d \in Decisions : m[d] =
         IF n[d].run = "running" /\ (n[d].on = e \/ h.side[n[d].on].gone) THEN [n[d] EXCEPT !.run = "over"] ELSE n[d]
  BY <1>1, HeardIs
<1>3. m = [d \in Decisions |-> m[d]]
  BY DEF Heard
<1>. HIDE DEF m
<1>4. \A d \in Decisions : n[d] \in [run : {"none", "running", "adrift", "over"}, on : Sides \cup {Null}, got : Text, runs : Nat]
  BY <1>1 DEF NativeType
<1>5. m \in NativeType
  <2>1. ASSUME NEW d \in Decisions PROVE m[d] \in [run : {"none", "running", "adrift", "over"}, on : Sides \cup {Null}, got : Text, runs : Nat]
    BY <1>2, <1>4
  <2>. QED
    BY <1>3, <2>1 DEF NativeType
<1>6. \A d \in Decisions : AgreeOn(h, n, e, d)
  BY DEF Right
<1>7. ASSUME NEW d \in Decisions PROVE AgreeOn(h, m, Null, d) /\ (m[d].run = "running" => ~h.side[m[d].on].gone)
  <2>1. CASE n[d].run = "running" /\ (n[d].on = e \/ h.side[n[d].on].gone)
    <3>1. m[d] = [n[d] EXCEPT !.run = "over"] /\ n[d].run # "none"
      BY <1>2, <1>6, <2>1 DEF AgreeOn
    <3>2. AgreeOn(h, m, Null, d)
      BY <1>1, <1>5, <1>6, <3>1, OverAgrees
    <3>3. m[d].run # "running"
      BY <1>4, <3>1
    <3>. QED
      BY <3>2, <3>3
  <2>2. CASE ~(n[d].run = "running" /\ (n[d].on = e \/ h.side[n[d].on].gone))
    <3>1. m[d] = n[d]
      BY <1>2, <2>2
    <3>2. AgreeOn(h, n, e, d)
      BY <1>6
    <3>3. AgreeOn(h, m, Null, d)
      BY <2>2, <3>1, <3>2 DEF AgreeOn, Runs
    <3>4. n[d].run = "running" => n[d].on # Null
      BY <3>2 DEF AgreeOn
    <3>. QED
      BY <2>2, <3>1, <3>3, <3>4
  <2>. QED
    BY <2>1, <2>2
<1>8. Kept(h, Null)
  <2>1. Kept(h, e)
    BY DEF Right
  <2>2. e = Null \/ (e \in Sides /\ ~h.side[e].gone)
    BY <1>1
  <2>. QED
    BY <2>1, <2>2 DEF Kept, KeptOn
<1>. QED
  BY <1>5, <1>7, <1>8, NativeKeeps DEF Rest, m

\* The specification of what is asked stays as it is, so the invariant of the next
\* state is the invariant of its host and its runtime.
LEMMA InvNext ==
    ASSUME UNCHANGED spec, Right(host', native', Null), Served(host'), Rest(host', native')
    PROVE  GroupInv'
<1>1. \A d \in Decisions : Role(d)' = Role(d) /\ Wants(d)' = Wants(d) /\ Whole(d)' = Whole(d)
  BY DEF Role, Wants, Whole
<1>2. \A d \in Decisions : Ours(host, d)' <=> Ours(host', d)
  BY <1>1 DEF Ours
<1>3. ASSUME NEW d \in Decisions, MemberRight(host', d) PROVE MemberRight(host, d)'
  BY <1>1, <1>2, <1>3 DEF MemberRight, Pending
<1>4. ASSUME NEW s \in Sides, NEW r \in Roles, SpareRight(host', s, r), host' \in HostType PROVE SpareRight(host, s, r)'
  <2>1. host'.spare[s][r].member # Null => host'.spare[s][r].member \in Decisions
    BY <1>4 DEF HostType, SpareType
  <2>. QED
    BY <1>1, <1>4, <2>1 DEF SpareRight
<1>5. ASSUME NEW d \in Decisions, AgreeOn(host', native', Null, d) PROVE AgreeOn(host, native, Null, d)'
  BY <1>1, <1>2, <1>5 DEF AgreeOn, Runs
<1>6. ASSUME NEW d \in Decisions, ApartOn(host', d) PROVE ApartOn(host, d)'
  BY <1>6 DEF ApartOn, Waits, Batched
<1>7. ASSUME NEW s \in Sides, SideRight(host', s) PROVE SideRight(host, s)'
  BY <1>7 DEF SideRight
<1>8. ASSUME NEW s \in Sides, NEW d \in Decisions, HeldRight(host', s, d) PROVE HeldRight(host, s, d)'
  BY <1>8 DEF HeldRight, Pending
<1>9. Kept(host', Null) => Kept(host, Null)'
  BY DEF Kept, KeptOn, Open, Pending, Waits, Batched
<1>10. Typed(host', native', Null) => Typed(host, native, Null)'
  BY DEF Typed
<1>11. Right(host, native, Null)'
  <2>1. /\ Typed(host', native', Null)
        /\ \A d \in Decisions : MemberRight(host', d) /\ ApartOn(host', d) /\ AgreeOn(host', native', Null, d)
        /\ \A s \in Sides, r \in Roles : SpareRight(host', s, r)
        /\ \A s \in Sides : SideRight(host', s)
        /\ \A s \in Sides, d \in Decisions : HeldRight(host', s, d)
        /\ Kept(host', Null)
    BY DEF Right
  <2>2. host' \in HostType
    BY <2>1 DEF Typed
  <2>3. \A d \in Decisions : MemberRight(host, d)' /\ ApartOn(host, d)' /\ AgreeOn(host, native, Null, d)'
    BY <1>3, <1>5, <1>6, <2>1
  <2>4. \A s \in Sides, r \in Roles : SpareRight(host, s, r)'
    BY <1>4, <2>1, <2>2
  <2>5. \A s \in Sides : SideRight(host, s)'
    BY <1>7, <2>1
  <2>6. \A s \in Sides, d \in Decisions : HeldRight(host, s, d)'
    BY <1>8, <2>1
  <2>. QED
    BY <1>9, <1>10, <2>1, <2>3, <2>4, <2>5, <2>6 DEF Right
<1>12. Served(host)'
  BY DEF Served, Serves, Open, Busy
<1>13. Rest(host, native)'
  BY DEF Rest
<1>. QED
  BY <1>11, <1>12, <1>13 DEF GroupInv

\* An event's step, once its state is right.
LEMMA StepKeeps ==
    ASSUME NEW h, NEW e, Right(h, native, e), Served(h), e = Null \/ ~h.side[e].gone, Ends(h, e)
    PROVE  GroupInv'
<1>1. host' = h /\ native' = Heard(native, h, e) /\ UNCHANGED spec
  <2>1. h \in HostType /\ h.out = Null
    BY DEF Right, Typed
  <2>2. [h EXCEPT !.out = Null] = h
    BY <2>1 DEF HostType
  <2>. QED
    BY <2>2, Zenon DEF Ends
<1>2. Right(host', native', Null) /\ Rest(host', native')
  BY <1>1, HeardKeeps
<1>. QED
  BY <1>1, <1>2, InvNext

\* One decision's input reaches one subagent.
LEMMA SendKeeps ==
    ASSUME NEW h, NEW n, Right(h, n, Null), NEW s \in Sides, NEW d \in Decisions, NEW y, Sends(h, s, d, y),
           NEW m, HeardOn(n, m, s, d), NEW g, g = [h EXCEPT !.m[d] = y]
    PROVE  Right(g, m, Null) /\ (Served(h) => Served(g))
<1>1. Typed(h, n, Null) /\ h \in HostType /\ h.out = Null
  BY DEF Right, Typed
<1>2. /\ y \in MemberType
      /\ y.told = h.m[d].told /\ y.spare = h.m[d].spare /\ y.input = h.m[d].input /\ y.admitted = h.m[d].admitted
      /\ y.asking = h.m[d].asking /\ y.used /\ (y.delivered <=> y.spare # Null)
      /\ Pending(h, d) /\ ~h.m[d].used /\ h.m[d].admitted
      /\ ~Waits(h, d) /\ ~Batched(h, d)
      /\ h.m[d].spare \in {s, Null}
      /\ h.m[d].spare = s => h.spare[s][Role(d)].pending
      /\ \A t \in Sides : d \in h.side[t].members => t = s
      /\ \A t \in Sides : d \in h.side[t].chunk => h.side[t].phase = "turn"
  BY Zenon DEF Sends
<1>3. /\ g \in HostType /\ g.out = Null /\ g.side = h.side /\ g.spare = h.spare /\ SameRest(h, g)
      /\ g.m[d] = y /\ \A c \in Decisions : c = d \/ g.m[c] = h.m[c]
  <2>1. g.m = [h.m EXCEPT ![d] = y] /\ g.side = h.side /\ g.spare = h.spare /\ SameRest(h, g) /\ g.out = Null
    BY <1>1 DEF HostType, SameRest
  <2>2. g \in HostType
    BY <1>1, <1>2 DEF HostType
  <2>. QED
    BY <1>1, <2>1, <2>2 DEF HostType
<1>. HIDE DEF Typed
<1>4. Typed(g, m, Null)
  BY <1>1, <1>3 DEF Typed, HeardOn
<1>5. \A c \in Decisions : /\ g.m[c].told = h.m[c].told /\ g.m[c].spare = h.m[c].spare /\ g.m[c].admitted = h.m[c].admitted
                           /\ g.m[c].asking = h.m[c].asking /\ (Pending(g, c) <=> Pending(h, c))
                           /\ (Ours(g, c) <=> Ours(h, c))
  <2>1. ASSUME NEW c \in Decisions
        PROVE  /\ g.m[c].told = h.m[c].told /\ g.m[c].spare = h.m[c].spare /\ g.m[c].admitted = h.m[c].admitted
               /\ g.m[c].asking = h.m[c].asking
    <3>1. CASE c = d
      BY <1>2, <1>3, <3>1
    <3>2. CASE c # d
      BY <1>3, <3>2
    <3>. QED
      BY <3>1, <3>2
  <2>. QED
    BY <1>3, <2>1, Zenon DEF Pending, Ours
<1>6. ASSUME NEW c \in Decisions PROVE MemberRight(g, c)
  <2>1. MemberRight(h, c)
    BY DEF Right
  <2>2. CASE c # d
    BY <1>3, <1>5, <2>1, <2>2 DEF MemberRight
  <2>3. CASE c = d
    BY <1>2, <1>3, <1>5, <2>1, <2>3 DEF MemberRight, Pending
  <2>. QED
    BY <2>2, <2>3
<1>7. ASSUME NEW c \in Decisions PROVE ApartOn(g, c)
  <2>1. ApartOn(h, c)
    BY DEF Right
  <2>2. g.waiting = h.waiting /\ g.batch = h.batch
    BY <1>3 DEF SameRest
  <2>. QED
    BY <1>2, <1>3, <1>5, <2>1, <2>2 DEF ApartOn, Waits, Batched
<1>8. ASSUME NEW c \in Decisions PROVE AgreeOn(g, m, Null, c)
  <2>1. AgreeOn(h, n, Null, c)
    BY DEF Right
  <2>2. CASE c # d
    <3>1. m[c] = n[c] /\ g.m[c] = h.m[c]
      BY <1>3, <2>2 DEF HeardOn
    <3>. QED
      BY <1>3, <1>5, <2>1, <3>1 DEF AgreeOn, Runs
  <2>3. CASE c = d
    <3>1. m[c].run = "running" /\ m[c].on = s /\ m[c].got = Whole(c) /\ m[c].runs = n[c].runs + 1
      BY <2>3 DEF HeardOn
    <3>2. n[c].runs = 0 /\ s # Null
      BY <1>2, <2>1, <2>3, SubagentsAssumption DEF AgreeOn
    <3>3. h.m[c].spare # Null => Ours(h, c)
      BY <1>2, <2>3 DEF Right, MemberRight
    <3>4. g.m[c].told = "pending" /\ g.m[c].used
      BY <1>2, <1>3, <2>3 DEF Pending
    <3>. QED
      BY <1>2, <1>3, <1>5, <2>3, <3>1, <3>2, <3>3, <3>4 DEF AgreeOn
  <2>. QED
    BY <2>2, <2>3
<1>9. ASSUME NEW t \in Sides, NEW r \in Roles PROVE SpareRight(g, t, r)
  <2>1. SpareRight(h, t, r)
    BY DEF Right
  <2>2. h.spare[t][r].member \in Decisions \cup {Null}
    BY <1>1 DEF HostType, SpareType
  <2>3. CASE h.spare[t][r].member # d
    BY <1>3, <2>1, <2>2, <2>3 DEF SpareRight
  <2>4. CASE h.spare[t][r].member = d
    <3>1. d # Null /\ t # Null
      BY SubagentsAssumption
    <3>2. h.m[d].spare = t /\ Role(d) = r /\ t = s
      BY <1>2, <2>1, <2>4, <3>1 DEF SpareRight
    <3>. QED
      BY <1>2, <1>3, <2>1, <2>4, <3>1, <3>2 DEF SpareRight
  <2>. QED
    BY <2>3, <2>4
<1>10. ASSUME NEW t \in Sides PROVE SideRight(g, t)
  BY <1>3 DEF Right, SideRight
<1>11. ASSUME NEW t \in Sides, NEW c \in Decisions PROVE HeldRight(g, t, c)
  <2>1. HeldRight(h, t, c)
    BY DEF Right
  <2>2. c # d => g.m[c] = h.m[c]
    BY <1>3
  <2>. QED
    BY <1>2, <1>3, <1>5, <2>1, <2>2 DEF HeldRight
<1>12. Kept(g, Null)
  <2>1. Kept(h, Null)
    BY DEF Right
  <2>2. g.waiting = h.waiting /\ g.batch = h.batch /\ g.timer = h.timer /\ (Open(g) => Open(h))
    BY <1>3 DEF SameRest, Open
  <2>3. ASSUME NEW c \in Decisions, KeptOn(h, Null, c) PROVE KeptOn(g, Null, c)
    BY <1>3, <1>5, <2>2, <2>3 DEF KeptOn, Waits, Batched
  <2>. QED
    BY <1>3, <2>1, <2>2, <2>3 DEF Kept
<1>13. Served(h) => Served(g)
  BY <1>3 DEF Served, Serves, Busy, Open, SameRest
<1>. QED
  BY <1>4, <1>6, <1>7, <1>8, <1>9, <1>10, <1>11, <1>12, <1>13 DEF Right

\* What is written is what the runtime hears.
LEMMA OutHeard ==
    ASSUME NEW g, g \in HostType, g.out = Null, NEW n \in NativeType, NEW s \in Sides, NEW d \in Decisions, NEW t \in Text,
           NEW o, o = [to |-> d, on |-> s, text |-> t], NEW h, h = [g EXCEPT !.out = o],
           NEW x, x = [run |-> "running", on |-> s, got |-> t, runs |-> n[d].runs + 1],
           NEW m, m = [n EXCEPT ![d] = x]
    PROVE  Wrote(h, g, n, m)
<1>1. [h EXCEPT !.out = Null] = g /\ h.side = g.side
  BY DEF HostType
<1>2. h.out = [to |-> d, on |-> s, text |-> t]
  BY DEF HostType
<1>3. h.out # Null
  <2>1. [to |-> d, on |-> s, text |-> t] \in Message
    BY DEF Message
  <2>2. Null \notin Message
    BY SubagentsAssumption
  <2>. QED
    BY <1>2, <2>1, <2>2
<1>. QED
  BY <1>1, <1>2, <1>3 DEF Heard, NativeType, Wrote

\* The step that writes it.
LEMMA SendStep ==
    ASSUME NEW h, Right(h, native, Null), Served(h), NEW s \in Sides, NEW d \in Decisions, NEW y, Sends(h, s, d, y),
           NEW k, k = [h EXCEPT !.m[d] = y, !.out = [to |-> d, on |-> s, text |-> Whole(d)]],
           Ends(k, Null)
    PROVE  GroupInv'
<1>1. h \in HostType /\ h.out = Null /\ native \in NativeType /\ spec \in Specs
  BY DEF Right, Typed
<1>2. PICK g : g = [h EXCEPT !.m[d] = y]
  BY Zenon
<1>3. PICK w : w = Whole(d)
  BY Zenon
<1>4. w \in Text
  BY <1>1, <1>3, WholeIsText
<1>5. PICK x : x = [run |-> "running", on |-> s, got |-> w, runs |-> native[d].runs + 1]
  BY Zenon
<1>6. PICK m : m = [native EXCEPT ![d] = x]
  BY Zenon
<1>7. /\ x \in [run : {"none", "running", "adrift", "over"}, on : Sides \cup {Null}, got : Text, runs : Nat]
      /\ x.run = "running" /\ x.on = s /\ x.got = w /\ x.runs = native[d].runs + 1
  BY <1>1, <1>4, <1>5 DEF NativeType
<1>8. HeardOn(native, m, s, d)
  BY <1>1, <1>3, <1>6, <1>7 DEF HeardOn, NativeType
<1>9. Right(g, m, Null) /\ Served(g)
  BY <1>2, <1>8, SendKeeps
<1>10. g \in HostType /\ g.out = Null
  BY <1>9 DEF Right, Typed
<1>15. PICK o : o = [to |-> d, on |-> s, text |-> w]
  BY Zenon
<1>11. k = [g EXCEPT !.out = o]
  <2>2. k = [h EXCEPT !.m[d] = y, !.out = o]
    BY <1>3, <1>15, Zenon
  <2>. QED
    BY <1>1, <1>2, <2>2 DEF HostType
<1>12. Wrote(k, g, native, m)
  BY <1>1, <1>4, <1>5, <1>6, <1>10, <1>11, <1>15, OutHeard, Zenon
<1>13. host' = g /\ native' = Heard(m, g, Null) /\ UNCHANGED spec
  BY <1>12, Zenon DEF Ends, Wrote
<1>14. Right(host', native', Null) /\ Rest(host', native')
  BY <1>9, <1>13, HeardKeeps
<1>. QED
  BY <1>9, <1>13, <1>14, InvNext

----------------------------------------------------------------------------
(* The host's callers                                                       *)

\* What the invariant gives of the state an event finds.
LEMMA InvIs ==
    ASSUME GroupInv
    PROVE  /\ Right(host, native, Null) /\ Served(host) /\ Rest(host, native)
           /\ host \in HostType /\ host.out = Null /\ native \in NativeType /\ spec \in Specs
           /\ \A s \in Sides : SideRight(host, s) /\ host.side[s] \in SideType
           /\ \A d \in Decisions : host.m[d] \in MemberType
BY DEF GroupInv, Right, Typed, HostType

\* A side session gets an answer, or what changes of the group says nothing of its decisions.
LEMMA RestAside ==
    ASSUME NEW h, h \in HostType, h.out = Null, NEW g, g \in HostType, g.m = h.m, g.side = h.side, g.spare = h.spare,
           g.out = Null, g.batch = h.batch, g.waiting = h.waiting, g.timer = h.timer, Open(g) => Open(h)
    PROVE  Aside(h, g)
<1>1. \A d \in Decisions : SameMember(h.m[d], g.m[d])
  BY DEF SameMember
<1>2. \A s \in Sides : SameSide(h, g, s)
  BY DEF SameSide
<1>. QED
  BY <1>1, <1>2, Zenon DEF Aside

\* An action that steps aside keeps the invariant.
LEMMA AsideStep ==
    ASSUME GroupInv, NEW g, Aside(host, g), Ends(g, Null) PROVE GroupInv'
<1>1. Right(host, native, Null) /\ Served(host)
  BY InvIs
<1>2. Right(g, native, Null) /\ Served(g)
  BY <1>1, AsideKeeps
<1>. QED
  BY <1>2, StepKeeps

\* An action whose host is right keeps the invariant.
LEMMA RightStep ==
    ASSUME GroupInv, NEW g, Right(g, native, Null), Served(g), Ends(g, Null) PROVE GroupInv'
BY StepKeeps

\* Flags raised after another change.
LEMMA FlaggedStep ==
    ASSUME GroupInv, NEW g, Right(g, native, Null), Served(g), NEW k, Flags(g, k), Ends(k, Null) PROVE GroupInv'
<1>1. Right(k, native, Null) /\ Served(k)
  BY FlagsKeeps
<1>. QED
  BY <1>1, StepKeeps

\* BackoffOver: nothing of a decision changes.
LEMMA BackoffOverStep == ASSUME GroupInv, BackoffOver PROVE GroupInv'
<1>1. PICK g : g = [host EXCEPT !.backoff = FALSE] /\ Ends(g, Null)
  BY DEF BackoffOver, Step
<1>2. host \in HostType /\ host.out = Null
  BY InvIs
<1>3. g \in HostType /\ g.m = host.m /\ g.side = host.side /\ g.spare = host.spare
  BY <1>1, <1>2 DEF HostType
<1>4. g.out = Null /\ g.batch = host.batch /\ g.waiting = host.waiting /\ g.timer = host.timer /\ g.group = host.group /\ g.closed = host.closed
  BY <1>1, <1>2 DEF HostType
<1>5. Aside(host, g)
  BY <1>2, <1>3, <1>4, RestAside DEF Open
<1>. QED
  BY <1>1, <1>5, AsideStep

\* Released: the group is not open before or after.
LEMMA ReleasedStep == ASSUME GroupInv, Released PROVE GroupInv'
<1>1. PICK g : g = [host EXCEPT !.group = "released"] /\ Ends(g, Null)
  BY DEF Released, Step
<1>2. host \in HostType /\ host.out = Null
  BY InvIs
<1>3. g \in HostType /\ g.m = host.m /\ g.side = host.side /\ g.spare = host.spare
  BY <1>1, <1>2 DEF HostType
<1>4. g.out = Null /\ g.batch = host.batch /\ g.waiting = host.waiting /\ g.timer = host.timer /\ ~Open(g)
  BY <1>1, <1>2 DEF HostType, Open
<1>5. Aside(host, g)
  BY <1>2, <1>3, <1>4, RestAside
<1>. QED
  BY <1>1, <1>5, AsideStep

\* Prestart: the retired side sessions are flagged, and standby turns start.
LEMMA PrestartStep == ASSUME GroupInv, Prestart PROVE GroupInv'
<1>. DEFINE e == spec.prestarts[host.asked + 1]
            h == [host EXCEPT !.asked = @ + 1, !.defs = @ \cup e.roles,
                              !.desired = [r \in Roles |-> IF r \in e.roles THEN e.ctx ELSE Null]]
            stale == {s \in Sides : h.side[s].in /\ \E r \in Spares(h, s) : h.spare[s][r].ctx # h.desired[r]}
<1>1. PICK k : k = Replenish(Retired(h, stale)) /\ Ends(k, Null)
  BY Zenon DEF Prestart, Step
<1>0. host.asked < Len(spec.prestarts)
  BY Zenon DEF Prestart
<1>2. host \in HostType /\ host.out = Null /\ spec \in Specs /\ Right(host, native, Null) /\ Served(host)
  BY InvIs
<1>3. e.roles \in SUBSET Roles /\ e.ctx \in Contexts
  <2>1. spec.prestarts \in Seq([roles : SUBSET Roles, ctx : Contexts])
    BY <1>2, SubagentsAssumption
  <2>2. host.asked \in Nat /\ host.asked < Len(spec.prestarts)
    BY <1>0, <1>2 DEF HostType
  <2>3. PICK q : q = spec.prestarts
    BY Zenon
  <2>4. host.asked + 1 \in 1..Len(q)
    BY <2>1, <2>2, <2>3
  <2>5. q[host.asked + 1] \in [roles : SUBSET Roles, ctx : Contexts]
    <3>1. \A S : q \in Seq(S) => q[host.asked + 1] \in S
      BY <2>4
    <3>. QED
      BY <2>1, <2>3, <3>1, Zenon
  <2>6. PICK x \in [roles : SUBSET Roles, ctx : Contexts] : x = e
    BY <2>3, <2>5, Zenon
  <2>7. x.roles \in SUBSET Roles /\ x.ctx \in Contexts
    OBVIOUS
  <2>. QED
    BY <2>6, <2>7, Zenon
<1>. HIDE DEF e
<1>4. PICK des : des = [r \in Roles |-> IF r \in e.roles THEN e.ctx ELSE Null]
  BY Zenon
<1>5. des \in [Roles -> Contexts \cup {Null}]
  BY <1>3, <1>4
<1>16. PICK i, df : i = host.asked + 1 /\ df = host.defs \cup e.roles
  BY Zenon
<1>17. i \in Nat /\ df \in SUBSET Roles
  BY <1>2, <1>3, <1>16 DEF HostType
<1>6. h = [host EXCEPT !.asked = i, !.defs = df, !.desired = des]
  BY <1>4, <1>16, Zenon
<1>. HIDE DEF h
<1>7. h \in HostType /\ h.m = host.m /\ h.side = host.side /\ h.spare = host.spare
  BY <1>2, <1>17, <1>5, <1>6 DEF HostType
<1>8. h.out = Null /\ h.batch = host.batch /\ h.waiting = host.waiting /\ h.timer = host.timer /\ h.group = host.group /\ h.closed = host.closed
  BY <1>2, <1>6 DEF HostType
<1>9. Aside(host, h)
  BY <1>2, <1>7, <1>8, RestAside DEF Open
<1>10. Right(h, native, Null) /\ Served(h)
  BY <1>2, <1>9, AsideKeeps
<1>11. PICK ss : ss = stale
  BY Zenon
<1>12. \A s \in Sides : SideRight(h, s) /\ (s \in ss => h.side[s].in)
  BY <1>10, <1>11 DEF Right
<1>13. Flags(h, Retired(h, ss))
  BY <1>7, <1>12, RetiredFlags
<1>14. Right(Retired(h, ss), native, Null) /\ Served(Retired(h, ss))
  BY <1>10, <1>13, FlagsKeeps
<1>15. Right(k, native, Null) /\ Served(k)
  BY <1>1, <1>11, <1>14, ReplenishKeeps
<1>. QED
  BY <1>1, <1>15, StepKeeps

\* CloseIdle: flags of side sessions, and nothing of a decision.
LEMMA CloseIdleStep == ASSUME GroupInv, CloseIdle PROVE GroupInv'
<1>1. PICK des, h, g, k, ss :
         /\ des = [r \in Roles |-> Null]
         /\ h = [host EXCEPT !.desired = des, !.defs = {}]
         /\ g = IF \E r \in Roles : host.desired[r] # Null
                THEN Retired(h, {s \in Sides : h.side[s].in /\ Spares(h, s) # {}}) ELSE h
         /\ k = KilledAll(g, ss) /\ Ends(k, Null)
  BY Zenon DEF CloseIdle, Step
<1>2. host \in HostType /\ host.out = Null /\ Right(host, native, Null) /\ Served(host)
  BY InvIs
<1>3. des \in [Roles -> Contexts \cup {Null}]
  BY <1>1
<1>4. h = [host EXCEPT !.desired = des, !.defs = {}]
  BY <1>1, Zenon
<1>5. h \in HostType /\ h.m = host.m /\ h.side = host.side /\ h.spare = host.spare
  BY <1>2, <1>3, <1>4 DEF HostType
<1>6. h.out = Null /\ h.batch = host.batch /\ h.waiting = host.waiting /\ h.timer = host.timer /\ h.group = host.group /\ h.closed = host.closed
  BY <1>2, <1>4 DEF HostType
<1>7. Aside(host, h)
  BY <1>2, <1>5, <1>6, RestAside DEF Open
<1>8. Right(h, native, Null) /\ Served(h)
  BY <1>2, <1>7, AsideKeeps
<1>9. Right(g, native, Null) /\ Served(g)
  <2>1. PICK q : q = {s \in Sides : h.side[s].in /\ Spares(h, s) # {}}
    BY Zenon
  <2>2. \A s \in Sides : SideRight(h, s) /\ (s \in q => h.side[s].in)
    BY <1>8, <2>1 DEF Right
  <2>3. Flags(h, Retired(h, q))
    BY <1>5, <2>2, RetiredFlags
  <2>4. Right(Retired(h, q), native, Null) /\ Served(Retired(h, q))
    BY <1>8, <2>3, FlagsKeeps
  <2>5. g = Retired(h, q) \/ g = h
    BY <1>1, <2>1, Zenon
  <2>. QED
    BY <1>8, <2>4, <2>5
<1>10. Flags(g, k)
  <2>1. g \in HostType /\ \A s \in Sides : SideRight(g, s)
    BY <1>9 DEF Right, Typed
  <2>. QED
    BY <1>1, <2>1, KilledAllFlags
<1>. QED
  BY <1>1, <1>9, <1>10, FlaggedStep, Zenon

\* Nothing waits in a group that is not open.
LEMMA EmptyKeeps ==
    ASSUME NEW h, NEW n, NEW e, Right(h, n, e), ~Open(h),
           NEW g, g = [h EXCEPT !.batch = <<>>, !.waiting = <<>>, !.timer = FALSE]
    PROVE  Right(g, n, e) /\ Served(g)
<1>1. h \in HostType /\ h.out = Null
  BY DEF Right, Typed
<1>2. g \in HostType
  <2>1. PICK b, w : b = <<>> /\ w = <<>>
    BY Zenon
  <2>2. b \in Seq(Decisions) /\ w \in Seq(SUBSET Decisions)
    BY <2>1
  <2>3. g = [h EXCEPT !.batch = b, !.waiting = w, !.timer = FALSE]
    BY <2>1, Zenon
  <2>. QED
    BY <1>1, <2>2, <2>3 DEF HostType
<1>3. g.m = h.m /\ g.side = h.side /\ g.spare = h.spare /\ g.out = Null /\ ~Open(g) /\ g.batch = <<>> /\ g.waiting = <<>>
  BY <1>1 DEF HostType, Open
<1>4. \A d \in Decisions : Pending(g, d) <=> Pending(h, d)
  BY <1>3 DEF Pending
<1>5. Typed(g, n, e)
  BY <1>2, <1>3 DEF Right, Typed
<1>6. ASSUME NEW d \in Decisions PROVE MemberRight(g, d)
  <2>1. MemberRight(h, d)
    BY DEF Right
  <2>2. Ours(g, d) <=> Ours(h, d)
    BY <1>3, Zenon DEF Ours
  <2>. QED
    BY <1>3, <1>4, <2>1, <2>2 DEF MemberRight
<1>7. ASSUME NEW d \in Decisions PROVE ApartOn(g, d)
  <2>1. ~Waits(g, d) /\ ~Batched(g, d)
    BY <1>3 DEF Waits, Batched
  <2>. QED
    BY <1>3, <2>1 DEF Right, ApartOn
<1>8. ASSUME NEW d \in Decisions PROVE AgreeOn(g, n, e, d)
  BY <1>3, Zenon DEF Right, AgreeOn, Runs, Ours
<1>9. ASSUME NEW s \in Sides, NEW r \in Roles PROVE SpareRight(g, s, r)
  <2>1. SpareRight(h, s, r)
    BY DEF Right
  <2>. QED
    BY <1>3, <2>1, Zenon DEF SpareRight
<1>10. ASSUME NEW s \in Sides PROVE SideRight(g, s)
  BY <1>3, Zenon DEF Right, SideRight
<1>11. ASSUME NEW s \in Sides, NEW d \in Decisions PROVE HeldRight(g, s, d)
  <2>1. HeldRight(h, s, d)
    BY DEF Right
  <2>. QED
    BY <1>3, <1>4, <2>1 DEF HeldRight
<1>. QED
  BY <1>3, <1>5, <1>6, <1>7, <1>8, <1>9, <1>10, <1>11 DEF Right, Kept, Served

\* What waited is refused.
LEMMA EmptiedKeeps ==
    ASSUME NEW h, NEW n, NEW e, Right(h, n, e), ~Open(h), NEW ds, ds = Waiters(h),
           NEW g, g = [h EXCEPT !.batch = <<>>, !.waiting = <<>>, !.timer = FALSE]
    PROVE  Right(SettledAll(g, ds, "unsent"), n, e) /\ Served(SettledAll(g, ds, "unsent"))
<1>1. h \in HostType
  BY DEF Right, Typed
<1>2. Right(g, n, e) /\ Served(g)
  BY EmptyKeeps, Zenon
<1>3. g.m = h.m
  BY <1>1 DEF HostType
<1>4. ASSUME NEW d \in ds \cap Decisions PROVE ~g.m[d].used
  <2>1. Waits(h, d) \/ Batched(h, d)
    <3>1. h.batch \in Seq(Decisions) /\ h.waiting \in Seq(SUBSET Decisions)
      BY <1>1 DEF HostType
    <3>. QED
      BY <3>1 DEF Waiters, Range, Waits, Batched
  <2>2. ApartOn(h, d)
    BY DEF Right
  <2>. QED
    BY <1>3, <2>1, <2>2, Zenon DEF ApartOn
<1>5. \A d \in ds \cap Decisions : Pending(g, d) => /\ "unsent" = "unsent" => ~g.m[d].used
                                                    /\ "unsent" \in {"answered", "over"} => ~Runs(g, n, e, d)
                                                    /\ "unsent" = "answered" => n[d].got = Whole(d)
  BY <1>4
<1>. QED
  BY <1>2, <1>5, SettledAllKeeps, Zenon DEF Ended

\* Close keeps the invariant.
LEMMA CloseStep == ASSUME GroupInv, Close PROVE GroupInv'
<1>1. host \in HostType /\ host.out = Null /\ Right(host, native, Null) /\ Served(host)
  BY InvIs
<1>2. PICK c : c = [host EXCEPT !.closed = TRUE]
  BY Zenon
<1>3. c \in HostType /\ c.m = host.m /\ c.side = host.side /\ c.spare = host.spare
  BY <1>1, <1>2 DEF HostType
<1>4. c.out = Null /\ c.batch = host.batch /\ c.waiting = host.waiting /\ c.timer = host.timer /\ ~Open(c)
  BY <1>1, <1>2 DEF HostType, Open
<1>5. Aside(host, c)
  BY <1>1, <1>3, <1>4, RestAside
<1>6. CASE host.group = "released"
  <2>1. Ends(c, Null)
    BY <1>2, <1>6, Zenon DEF Close, Step
  <2>. QED
    BY <1>5, <2>1, AsideStep
<1>7. CASE host.group # "released"
  <2>1. PICK ds : ds = Range(host.batch) \cup UNION Range(host.waiting)
    BY Zenon
  <2>2. PICK g : g = [c EXCEPT !.batch = <<>>, !.waiting = <<>>, !.timer = FALSE]
    BY Zenon
  <2>3. PICK h : h = SettledAll(g, ds, "unsent")
    BY Zenon
  <2>4. PICK ss : ss = {s \in Sides : host.side[s].in}
    BY Zenon
  <2>5. Right(c, native, Null)
    BY <1>1, <1>5, AsideKeeps
  <2>6. ds = Waiters(c)
    BY <1>4, <2>1, Zenon DEF Waiters
  <2>7. Right(h, native, Null) /\ Served(h)
    BY <1>4, <2>2, <2>3, <2>5, <2>6, EmptiedKeeps, Zenon
  <2>8. Ends(KilledAll(h, ss), Null)
    <3>1. [host EXCEPT !.closed = TRUE, !.timer = FALSE, !.batch = <<>>, !.waiting = <<>>] = g
      <4>1. PICK v, w : v = <<>> /\ w = <<>>
        BY Zenon
      <4>2. [host EXCEPT !.closed = TRUE, !.timer = FALSE, !.batch = v, !.waiting = w] = [c EXCEPT !.batch = v, !.waiting = w, !.timer = FALSE]
        BY <1>1, <1>2 DEF HostType
      <4>. QED
        BY <2>2, <4>1, <4>2, Zenon
    <3>. QED
      BY <1>7, <2>1, <2>3, <2>4, <3>1, Zenon DEF Close, Step
  <2>9. Flags(h, KilledAll(h, ss))
    <3>1. h \in HostType /\ \A s \in Sides : SideRight(h, s)
      BY <2>7 DEF Right, Typed
    <3>. QED
      BY <3>1, KilledAllFlags
  <2>. QED
    BY <2>7, <2>8, <2>9, FlaggedStep
<1>. QED
  BY <1>6, <1>7

\* ReleaseGroup keeps the invariant.
LEMMA ReleaseGroupStep == ASSUME GroupInv, ReleaseGroup PROVE GroupInv'
<1>1. host \in HostType /\ host.out = Null /\ Right(host, native, Null) /\ Served(host)
  BY InvIs
<1>2. PICK ds, ss, des, sd : /\ ds = Range(host.batch) \cup UNION Range(host.waiting)
                             /\ ss = {s \in Sides : host.side[s].in}
                             /\ des = [r \in Roles |-> Null]
                             /\ sd = [s \in Sides |-> IF s \in ss THEN [host.side[s] EXCEPT !.retire = TRUE] ELSE host.side[s]]
  BY Zenon
<1>3. PICK c : c = [host EXCEPT !.desired = des, !.group = "releasing", !.ending = ss, !.side = sd]
  BY Zenon
<1>4. des \in [Roles -> Contexts \cup {Null}] /\ ss \in SUBSET Sides
  BY <1>2
<1>5. \A s \in Sides : host.side[s] \in SideType
  BY <1>1 DEF HostType
<1>6. \A s \in Sides : /\ sd[s] \in SideType /\ sd[s].kind = host.side[s].kind /\ sd[s].phase = host.side[s].phase
                       /\ sd[s].gone = host.side[s].gone /\ sd[s].chunk = host.side[s].chunk
                       /\ sd[s].listed = host.side[s].listed /\ sd[s].members = host.side[s].members
                       /\ sd[s].retry = host.side[s].retry /\ sd[s].alive = host.side[s].alive /\ sd[s].in = host.side[s].in
                       /\ host.side[s].kind = "none" => sd[s] = host.side[s]
  <2>1. ASSUME NEW s \in Sides, host.side[s].kind = "none" PROVE s \notin ss
    <3>1. SideRight(host, s)
      BY <1>1 DEF Right
    <3>. QED
      BY <1>2, <2>1, <3>1 DEF SideRight, NoSide
  <2>2. ASSUME NEW s \in Sides PROVE sd[s] = IF s \in ss THEN [host.side[s] EXCEPT !.retire = TRUE] ELSE host.side[s]
    BY <1>2
  <2>3. ASSUME NEW s \in Sides
        PROVE  /\ sd[s] \in SideType /\ sd[s].kind = host.side[s].kind /\ sd[s].phase = host.side[s].phase
               /\ sd[s].gone = host.side[s].gone /\ sd[s].chunk = host.side[s].chunk
               /\ sd[s].listed = host.side[s].listed /\ sd[s].members = host.side[s].members
               /\ sd[s].retry = host.side[s].retry /\ sd[s].alive = host.side[s].alive /\ sd[s].in = host.side[s].in
    <3>1. host.side[s] \in SideType
      BY <1>5
    <3>2. CASE s \in ss
      <4>1. sd[s] = [host.side[s] EXCEPT !.retire = TRUE]
        BY <2>2, <3>2
      <4>. QED
        BY <3>1, <4>1 DEF SideType
    <3>3. CASE s \notin ss
      <4>1. sd[s] = host.side[s]
        BY <2>2, <3>3
      <4>. QED
        BY <3>1, <4>1
    <3>. QED
      BY <3>2, <3>3
  <2>. QED
    BY <2>1, <2>2, <2>3, Zenon
<1>7. sd \in [Sides -> SideType]
  <2>1. sd = [s \in Sides |-> sd[s]]
    BY <1>2
  <2>. QED
    BY <1>6, <2>1
<1>8. /\ c \in HostType /\ c.m = host.m /\ c.side = sd /\ c.spare = host.spare /\ c.out = Null
      /\ c.batch = host.batch /\ c.waiting = host.waiting /\ c.timer = host.timer /\ c.group = "releasing"
  BY <1>1, <1>3, <1>4, <1>7 DEF HostType
<1>9. Aside(host, c)
  <2>1. \A d \in Decisions : SameMember(host.m[d], c.m[d])
    BY <1>8 DEF SameMember
  <2>2. \A s \in Sides : SameSide(host, c, s)
    BY <1>6, <1>8 DEF SameSide
  <2>. QED
    BY <1>8, <2>1, <2>2 DEF Aside, Open
<1>10. PICK g : g = [c EXCEPT !.batch = <<>>, !.waiting = <<>>, !.timer = FALSE]
  BY Zenon
<1>11. PICK h : h = SettledAll(g, ds, "unsent")
  BY Zenon
<1>12. ds = Waiters(c) /\ ~Open(c)
  BY <1>2, <1>8 DEF Waiters, Open
<1>13. Right(c, native, Null)
  BY <1>1, <1>9, AsideKeeps
<1>14. Right(h, native, Null) /\ Served(h)
  BY <1>10, <1>11, <1>12, <1>13, EmptiedKeeps, Zenon
<1>15. Ends(KilledAll(h, ss), Null)
  <2>1. [host EXCEPT !.desired = des, !.timer = FALSE, !.batch = <<>>, !.waiting = <<>>, !.group = "releasing",
                     !.ending = ss, !.side = sd] = g
    <3>1. PICK v, w : v = <<>> /\ w = <<>>
      BY Zenon
    <3>2. [host EXCEPT !.desired = des, !.timer = FALSE, !.batch = v, !.waiting = w, !.group = "releasing",
                       !.ending = ss, !.side = sd] = [c EXCEPT !.batch = v, !.waiting = w, !.timer = FALSE]
      BY <1>1, <1>3 DEF HostType
    <3>. QED
      BY <1>10, <3>1, <3>2, Zenon
  <2>. QED
    BY <1>2, <1>11, <2>1, Zenon DEF ReleaseGroup, Step
<1>16. Flags(h, KilledAll(h, ss))
  <2>1. h \in HostType /\ \A s \in Sides : SideRight(h, s)
    BY <1>14 DEF Right, Typed
  <2>. QED
    BY <2>1, KilledAllFlags
<1>. QED
  BY <1>14, <1>15, <1>16, FlaggedStep

----------------------------------------------------------------------------
(* A side session starts and takes a turn                                   *)

\* One side session changes its flags.
LEMMA OneSideAside ==
    ASSUME NEW h, h \in HostType, h.out = Null, NEW s \in Sides, NEW x, x \in SideType, h.side[s].kind # "none",
           x.kind = h.side[s].kind, x.phase = h.side[s].phase, x.gone = h.side[s].gone,
           x.chunk = h.side[s].chunk, x.listed = h.side[s].listed, x.members = h.side[s].members,
           x.retry = h.side[s].retry, x.alive => h.side[s].alive, x.in => h.side[s].in,
           NEW g, g = [h EXCEPT !.side[s] = x]
    PROVE  Aside(h, g)
<1>1. g \in HostType
  BY DEF HostType
<1>2. /\ g.out = Null /\ g.batch = h.batch /\ g.waiting = h.waiting /\ g.timer = h.timer
      /\ g.group = h.group /\ g.closed = h.closed /\ g.m = h.m /\ g.spare = h.spare
      /\ g.side[s] = x /\ \A t \in Sides : t = s \/ g.side[t] = h.side[t]
  BY DEF HostType
<1>3. \A t \in Sides : SameSide(h, g, t)
  BY <1>2 DEF SameSide
<1>4. \A d \in Decisions : SameMember(h.m[d], g.m[d])
  BY <1>2 DEF SameMember
<1>. QED
  BY <1>1, <1>2, <1>3, <1>4, Zenon DEF Aside, Open

\* Killed: a flag of the side session, whatever came before.
LEMMA KilledKeeps ==
    ASSUME NEW h, NEW n, NEW e, Right(h, n, e), NEW s
    PROVE  Right(Killed(h, s), n, e) /\ (Served(h) => Served(Killed(h, s))) /\ Flags(h, Killed(h, s))
<1>1. h \in HostType /\ \A t \in Sides : SideRight(h, t)
  BY DEF Right, Typed
<1>2. Flags(h, KilledAll(h, {s}))
  BY <1>1, KilledAllFlags
<1>. QED
  BY <1>2, FlagsKeeps DEF Killed

\* Ready: a side session is up, or killed.
LEMMA ReadyStep == ASSUME GroupInv, NEW s \in Sides, Ready(s) PROVE GroupInv'
<1>1. /\ host \in HostType /\ host.out = Null /\ Right(host, native, Null) /\ Served(host) /\ host.side[s] \in SideType
      /\ host.side[s].kind # "none"
  BY InvIs DEF Ready, Talks
<1>2. PICK x : x = [host.side[s] EXCEPT !.ready = "up"]
  BY Zenon
<1>3. PICK y : y = [host.side[s] EXCEPT !.ready = "failed"]
  BY Zenon
<1>4. PICK g : g = [host EXCEPT !.side[s] = x]
  BY Zenon
<1>5. PICK h : h = [host EXCEPT !.side[s] = y]
  BY Zenon
<1>6. Aside(host, g)
  <2>1. /\ x \in SideType /\ x.kind = host.side[s].kind /\ x.phase = host.side[s].phase /\ x.gone = host.side[s].gone
        /\ x.chunk = host.side[s].chunk /\ x.listed = host.side[s].listed /\ x.members = host.side[s].members
        /\ x.retry = host.side[s].retry /\ x.alive = host.side[s].alive /\ x.in = host.side[s].in
    BY <1>1, <1>2 DEF SideType
  <2>. QED
    BY <1>1, <1>4, <2>1, OneSideAside
<1>7. y.phase = host.side[s].phase /\ y.ready = "failed"
  BY <1>1, <1>3 DEF SideType
<1>8. Aside(host, h)
  <2>1. /\ y \in SideType /\ y.kind = host.side[s].kind /\ y.phase = host.side[s].phase /\ y.gone = host.side[s].gone
        /\ y.chunk = host.side[s].chunk /\ y.listed = host.side[s].listed /\ y.members = host.side[s].members
        /\ y.retry = host.side[s].retry /\ y.alive = host.side[s].alive /\ y.in = host.side[s].in
    BY <1>1, <1>3 DEF SideType
  <2>. QED
    BY <1>1, <1>5, <2>1, OneSideAside
<1>9. h.side[s] = y
  BY <1>1, <1>5 DEF HostType
<1>10. Right(h, native, Null) /\ Served(h)
  BY <1>1, <1>8, AsideKeeps
<1>11. PICK k : k = Killed(h, s)
  BY Zenon
<1>12. Right(k, native, Null) /\ Served(k) /\ Flags(h, k)
  BY <1>10, <1>11, KilledKeeps
<1>13. k.side[s].phase = host.side[s].phase /\ k.side[s].ready = "failed" /\ k.side[s].kind # "none"
  <2>1. SameSide(h, k, s) /\ k.side[s].ready = h.side[s].ready
    BY <1>12, Zenon DEF Flags
  <2>2. h.side[s].kind = host.side[s].kind
    BY <1>1, <1>3, <1>9 DEF SideType
  <2>. QED
    BY <1>1, <1>7, <1>9, <2>1, <2>2 DEF SameSide
<1>14. Ends(g, Null) \/ Ends(IF host.side[s].phase = "ready" THEN Resumed(k, s) ELSE k, Null)
  BY <1>2, <1>3, <1>4, <1>5, <1>11, Zenon DEF Ready, Step
<1>15. CASE Ends(g, Null)
  BY <1>6, <1>15, AsideStep
<1>16. CASE host.side[s].phase = "ready" /\ Ends(Resumed(k, s), Null)
  <2>1. LeftGroup(k, Null)
    BY DEF LeftGroup
  <2>2. Right(Resumed(k, s), native, Null) /\ Served(Resumed(k, s))
    <3>1. PICK r : r = Resumed(k, s)
      BY Zenon
    <3>2. k.side[s].phase = "ready" /\ k.side[s].ready = "failed"
      BY <1>13, <1>16
    <3>3. /\ k.side[s].gone \/ (k.side[s].phase = "ready" /\ k.side[s].ready = "failed")
          /\ Open(k) /\ k.side[s].kind = "fan" /\ k.side[s].phase = "turn" => \A d \in k.side[s].chunk : ~Pending(k, d)
      BY <3>2
    <3>4. Right(r, native, Null) /\ (Served(k) => Served(r)) /\ Parted(k, r, s)
      BY <1>12, <1>13, <2>1, <3>1, <3>3, ResumedKeeps, Zenon
    <3>. QED
      BY <1>12, <3>1, <3>4
  <2>. QED
    BY <1>16, <2>2, RightStep
<1>17. CASE host.side[s].phase # "ready" /\ Ends(k, Null)
  BY <1>12, <1>17, RightStep
<1>. QED
  BY <1>14, <1>15, <1>16, <1>17

\* Interrupts: the wrap-up of a fan-out is cut short.
LEMMA InterruptsStep == ASSUME GroupInv, NEW s \in Sides, Interrupts(s) PROVE GroupInv'
<1>1. /\ host \in HostType /\ host.out = Null /\ host.side[s] \in SideType
      /\ host.side[s].kind # "none"
  BY InvIs DEF Interrupts
<1>2. PICK x, g : x = [host.side[s] EXCEPT !.stop = TRUE] /\ g = [host EXCEPT !.side[s] = x]
  BY Zenon
<1>3. Ends(g, Null)
  BY <1>2, Zenon DEF Interrupts, Step
<1>4. /\ x \in SideType /\ x.kind = host.side[s].kind /\ x.phase = host.side[s].phase /\ x.gone = host.side[s].gone
      /\ x.chunk = host.side[s].chunk /\ x.listed = host.side[s].listed /\ x.members = host.side[s].members
      /\ x.retry = host.side[s].retry /\ x.alive = host.side[s].alive /\ x.in = host.side[s].in
  BY <1>1, <1>2 DEF SideType
<1>5. Aside(host, g)
  BY <1>1, <1>2, <1>4, OneSideAside
<1>. QED
  BY <1>3, <1>5, AsideStep

\* Exits: a side session is lost.
LEMMA ExitsStep == ASSUME GroupInv, NEW s \in Sides, Exits(s) PROVE GroupInv'
<1>1. Right(host, native, Null) /\ host.side[s].kind # "none" /\ ~host.side[s].gone /\ Ends(Lose(host, s), Null)
  BY InvIs DEF Exits, Talks, Step
<1>2. Right(Lose(host, s), native, Null) /\ Served(Lose(host, s))
  BY <1>1, LoseKeeps
<1>. QED
  BY <1>1, <1>2, RightStep

\* What runs on a side session that is given up is no longer known to run.
LEMMA AdriftKeeps ==
    ASSUME NEW h, NEW n, Right(h, n, Null), NEW s \in Sides, NEW m, m = Adrift(n, s) PROVE Right(h, m, Null)
<1>1. n \in NativeType /\ Kept(h, Null) /\ \A d \in Decisions : AgreeOn(h, n, Null, d)
  BY DEF Right, Typed
<1>2. \A d \in Decisions : m[d] = n[d] \/ (n[d].run = "running" /\ m[d] = [n[d] EXCEPT !.run = "adrift"])
  BY DEF Adrift
<1>3. m \in NativeType
  <2>1. m = [d \in Decisions |-> m[d]]
    BY DEF Adrift
  <2>2. ASSUME NEW d \in Decisions, NEW x, x = m[d]
        PROVE  x \in [run : {"none", "running", "adrift", "over"}, on : Sides \cup {Null}, got : Text, runs : Nat]
    <3>1. n[d] \in [run : {"none", "running", "adrift", "over"}, on : Sides \cup {Null}, got : Text, runs : Nat]
      BY <1>1 DEF NativeType
    <3>. QED
      BY <1>2, <2>2, <3>1
  <2>. QED
    BY <2>1, <2>2 DEF NativeType
<1>4. ASSUME NEW d \in Decisions PROVE AgreeOn(h, m, Null, d)
  <2>1. m[d] = n[d] \/ (/\ n[d].run = "running" /\ m[d].run = "adrift" /\ m[d].on = n[d].on
                         /\ m[d].got = n[d].got /\ m[d].runs = n[d].runs)
    BY <1>1, <1>2 DEF NativeType
  <2>. QED
    BY <1>1, <2>1 DEF AgreeOn, Runs
<1>. QED
  BY <1>1, <1>3, <1>4, NativeKeeps

\* GivenUpOn: a side session is lost, though it did not exit.
LEMMA GivenUpOnStep == ASSUME GroupInv, NEW s \in Sides, GivenUpOn(s) PROVE GroupInv'
<1>1. /\ Right(host, native, Null) /\ host.side[s].kind # "none" /\ ~host.side[s].gone
      /\ host' = Lose(host, s) /\ native' = Heard(Adrift(native, s), Lose(host, s), Null) /\ UNCHANGED spec
  BY InvIs DEF GivenUpOn, Talks
<1>2. PICK m : m = Adrift(native, s)
  BY Zenon
<1>3. Right(host', m, Null) /\ Served(host')
  BY <1>1, <1>2, AdriftKeeps, LoseKeeps
<1>4. Right(host', native', Null) /\ Rest(host', native')
  BY <1>1, <1>2, <1>3, HeardKeeps
<1>. QED
  BY <1>1, <1>3, <1>4, InvNext

\* Whatever waits is still served.
LEMMA ServedStays ==
    ASSUME NEW h, NEW g, Served(h), g.waiting = h.waiting, Open(g) => Open(h),
           \A t \in Sides : Serves(h, t) => Serves(g, t)
    PROVE  Served(g)
BY DEF Served

\* Standby: the turn starts, or does not and its spares are released.
LEMMA StandbyStepStep == ASSUME GroupInv, NEW s \in Sides, Standby(s) PROVE GroupInv'
<1>1. host \in HostType /\ host.out = Null /\ Right(host, native, Null) /\ Served(host)
  BY InvIs
<1>2. PICK h : h = [host EXCEPT !.backoff = FALSE]
  BY Zenon
<1>3. h \in HostType /\ h.m = host.m /\ h.side = host.side /\ h.spare = host.spare
  BY <1>1, <1>2 DEF HostType
<1>4. h.out = Null /\ h.batch = host.batch /\ h.waiting = host.waiting /\ h.timer = host.timer /\ h.group = host.group /\ h.closed = host.closed
  BY <1>1, <1>2 DEF HostType
<1>5. Aside(host, h)
  BY <1>1, <1>3, <1>4, RestAside DEF Open
<1>6. Right(h, native, Null) /\ Served(h)
  BY <1>1, <1>5, AsideKeeps
<1>7. h.side[s].kind = "standby" /\ h.side[s].phase = "ready"
  BY <1>3, Zenon DEF Standby
<1>8. PICK x, g, sp : x = [h.side[s] EXCEPT !.phase = "turn"] /\ g = [h EXCEPT !.side[s] = x] /\ sp = h.spare[s]
  BY Zenon
<1>9. Ends(g, Null) \/ Ends(StandbyOver(ReleaseSpares(h, s), s), Null)
  BY <1>2, <1>8, Zenon DEF Standby, Step
<1>10. CASE Ends(g, Null)
  <2>1. /\ h.side[s] \in SideType /\ SideRight(h, s) /\ Kept(h, Null) /\ sp \in [Roles -> SpareType]
        /\ \A d \in Decisions : HeldRight(h, s, d) /\ (Open(h) => KeptOn(h, Null, d))
    BY <1>3, <1>6, <1>8 DEF Right, HostType, Kept
  <2>2. /\ x \in SideType /\ x.kind = "standby" /\ x.phase = "turn" /\ x.gone = h.side[s].gone
        /\ x.chunk = h.side[s].chunk /\ x.listed = h.side[s].listed /\ x.members = h.side[s].members
        /\ x.retry = h.side[s].retry /\ x.alive = h.side[s].alive /\ x.in = h.side[s].in
    BY <1>7, <1>8, <2>1 DEF SideType
  <2>3. StandbyStep(h, Null, s, x, sp)
    BY <1>7, <1>8, <2>1, <2>2 DEF StandbyStep, SideRight, Kept
  <2>4. \A d \in Decisions : StandbyStepOn(h, native, Null, s, x, sp, d)
    <3>1. ASSUME NEW d \in Decisions PROVE StandbyStepOn(h, native, Null, s, x, sp, d)
      <4>1. HeldRight(h, s, d) /\ (Open(h) => KeptOn(h, Null, d))
        BY <2>1
      <4>. QED
        BY <1>7, <1>8, <2>2, <4>1 DEF StandbyStepOn, HeldRight, KeptOn
    <3>. QED
      BY <3>1
  <2>5. PICK k : k = [h EXCEPT !.side[s] = x, !.spare[s] = sp]
    BY Zenon
  <2>6. Right(k, native, Null)
    BY <1>6, <2>3, <2>4, <2>5, StandbyStepKeeps, Zenon
  <2>7. g = k
    BY <1>3, <1>8, <2>5 DEF HostType
  <2>8. Served(g)
    <3>1. /\ g.waiting = h.waiting /\ g.group = h.group /\ g.closed = h.closed
          /\ \A t \in Sides : t = s \/ g.side[t] = h.side[t]
      BY <1>3, <1>8 DEF HostType
    <3>2. \A t \in Sides : Serves(h, t) => Serves(g, t)
      BY <1>7, <3>1 DEF Serves, Busy
    <3>. QED
      BY <1>6, <3>1, <3>2, ServedStays DEF Open
  <2>. QED
    BY <1>10, <2>6, <2>7, <2>8, RightStep
<1>11. CASE Ends(StandbyOver(ReleaseSpares(h, s), s), Null)
  <2>1. Right(StandbyOver(ReleaseSpares(h, s), s), native, Null) /\ Served(StandbyOver(ReleaseSpares(h, s), s))
    BY <1>6, <1>7, StandbyEndsKeeps
  <2>. QED
    BY <1>11, <2>1, RightStep
<1>. QED
  BY <1>9, <1>10, <1>11

\* The member whose registration is asked for.
LEMMA AsksIs ==
    ASSUME NEW x \in MemberType, NEW y, y = Asks(x), x.told = "pending"
    PROVE  /\ y \in MemberType /\ SameMember(x, y) /\ y.admitted = x.admitted
           /\ x.asking \subseteq y.asking /\ "fan" \in y.asking
<1>1. PICK as, n : as = x.asking \cup {"fan"} /\ n = x.asks + 1
  BY Zenon
<1>2. as \in SUBSET {"spare", "fan"} /\ n \in Nat /\ x.asking \subseteq as /\ "fan" \in as /\ as \ x.asking \subseteq {"fan"}
  BY <1>1 DEF MemberType
<1>3. y = [x EXCEPT !.asking = as, !.asks = n]
  BY <1>1, Zenon DEF Asks
<1>4. y \in MemberType
  BY <1>2, <1>3 DEF MemberType
<1>5. /\ y.told = x.told /\ y.spare = x.spare /\ y.input = x.input /\ y.admitted = x.admitted
      /\ y.used = x.used /\ y.delivered = x.delivered /\ y.bad = x.bad /\ y.task = x.task /\ y.asking = as
  BY <1>3 DEF MemberType
<1>. QED
  BY <1>2, <1>4, <1>5 DEF SameMember

\* FanOut: the chunk is registered.
LEMMA FanOutStep == ASSUME GroupInv, NEW s \in Sides, FanOut(s) PROVE GroupInv'
<1>1. host \in HostType /\ host.out = Null /\ Right(host, native, Null) /\ Served(host) /\ host.side[s] \in SideType
  BY InvIs
<1>2. host.side[s].kind = "fan" /\ host.side[s].phase = "ready"
  BY DEF FanOut
<1>3. PICK ds, old : /\ ds = {d \in host.side[s].chunk : Pending(host, d)}
                     /\ old = {d \in ds : host.side[s].retry \/ host.m[d].admitted}
  BY Zenon
<1>4. PICK mm : mm = [d \in Decisions |-> IF d \notin ds \ old THEN host.m[d]
                                          ELSE Asks(host.m[d])]
  BY Zenon
<1>5. PICK x : x = [host.side[s] EXCEPT !.phase = "admitting", !.listed = old]
  BY Zenon
<1>6. PICK h, g : h = [host EXCEPT !.m = mm] /\ g = [h EXCEPT !.side[s] = x]
  BY Zenon
<1>7. Ends(g, Null)
  <2>1. Ends([host EXCEPT !.side[s] = x, !.m = mm], Null)
    BY <1>3, <1>4, <1>5, Zenon DEF FanOut, Step, Asks
  <2>2. g = [host EXCEPT !.side[s] = x, !.m = mm]
    BY <1>1, <1>6 DEF HostType
  <2>. QED
    BY <2>1, <2>2
<1>8. \A d \in Decisions : /\ mm[d] \in MemberType /\ SameMember(host.m[d], mm[d]) /\ mm[d].admitted = host.m[d].admitted
                           /\ host.m[d].asking \subseteq mm[d].asking
                           /\ d \in ds \ old => "fan" \in mm[d].asking
  <2>1. ASSUME NEW d \in Decisions
        PROVE  /\ mm[d] \in MemberType /\ SameMember(host.m[d], mm[d]) /\ mm[d].admitted = host.m[d].admitted
               /\ host.m[d].asking \subseteq mm[d].asking
               /\ d \in ds \ old => "fan" \in mm[d].asking
    <3>1. host.m[d] \in MemberType
      BY <1>1 DEF HostType
    <3>2. CASE d \in ds \ old
      <4>1. mm[d] = Asks(host.m[d])
        BY <1>4, <3>2
      <4>2. host.m[d].told = "pending"
        BY <1>3, <3>2 DEF Pending
      <4>. QED
        BY <3>1, <4>1, <4>2, AsksIs
    <3>3. CASE d \notin ds \ old
      <4>1. mm[d] = host.m[d]
        BY <1>4, <3>3
      <4>. QED
        BY <3>1, <3>3, <4>1 DEF SameMember
    <3>. QED
      BY <3>2, <3>3
  <2>. QED
    BY <2>1
<1>9. mm \in [Decisions -> MemberType]
  <2>1. mm = [d \in Decisions |-> mm[d]]
    BY <1>4
  <2>. QED
    BY <1>8, <2>1
<1>10. h \in HostType /\ h.m = mm /\ h.side = host.side /\ h.spare = host.spare /\ SameRest(host, h)
  BY <1>1, <1>6, <1>9 DEF HostType, SameRest
<1>11. Aside(host, h)
  <2>1. \A t \in Sides : SameSide(host, h, t)
    BY <1>10 DEF SameSide
  <2>. QED
    BY <1>1, <1>8, <1>10, <2>1 DEF Aside, Open, SameRest
<1>12. Right(h, native, Null) /\ Served(h)
  BY <1>1, <1>11, AsideKeeps
<1>13. /\ SideRight(h, s) /\ Kept(h, Null)
       /\ \A d \in Decisions : HeldRight(h, s, d) /\ (Open(h) => KeptOn(h, Null, d))
  BY <1>12 DEF Right, Kept
<1>14. old \subseteq host.side[s].chunk /\ host.side[s].chunk \subseteq Decisions
  BY <1>1, <1>3 DEF SideType
<1>15. /\ x \in SideType /\ x.kind = "fan" /\ x.phase = "admitting" /\ x.gone = h.side[s].gone /\ x.listed = old
       /\ x.chunk = h.side[s].chunk /\ x.members = h.side[s].members
       /\ x.retry = h.side[s].retry /\ x.alive = h.side[s].alive /\ x.in = h.side[s].in
  BY <1>1, <1>2, <1>5, <1>10, <1>14 DEF SideType
<1>16. FanStep(h, Null, s, x)
  BY <1>2, <1>10, <1>13, <1>14, <1>15 DEF FanStep, SideRight, Kept
<1>17. \A d \in Decisions : FanStepOn(h, Null, s, x, d)
  <2>1. ASSUME NEW d \in Decisions PROVE FanStepOn(h, Null, s, x, d)
    <3>1. HeldRight(h, s, d)
      BY <1>13
    <3>2. h.side[s].members = {}
      BY <1>2, <1>10, <1>13 DEF SideRight
    <3>3. d \in old => h.m[d].admitted
      BY <1>3, <1>8, <1>10, <3>1 DEF HeldRight
    <3>4. Pending(h, d) /\ d \in h.side[s].chunk => d \in ds
      BY <1>3, <1>8, <1>10 DEF SameMember, Pending
    <3>5. d \in ds => d \in old \/ "fan" \in h.m[d].asking
      BY <1>8, <1>10
    <3>. QED
      BY <1>2, <1>10, <1>15, <3>1, <3>2, <3>3, <3>4, <3>5 DEF FanStepOn, HeldRight
  <2>. QED
    BY <2>1
<1>18. Right(g, native, Null)
  BY <1>6, <1>12, <1>16, <1>17, FanStepKeeps, Zenon
<1>19. Served(g)
  <2>1. /\ g.waiting = h.waiting /\ g.group = h.group /\ g.closed = h.closed /\ g.side[s] = x
        /\ \A t \in Sides : t = s \/ g.side[t] = h.side[t]
    BY <1>6, <1>10 DEF HostType
  <2>2. \A t \in Sides : Serves(h, t) => Serves(g, t)
    BY <1>2, <1>15, <2>1 DEF Serves, Busy
  <2>. QED
    BY <1>12, <2>1, <2>2, ServedStays DEF Open
<1>. QED
  BY <1>7, <1>18, <1>19, RightStep

\* Nobody is left in a fan-out whose members are all refused before its turn.
LEMMA ListedRefused ==
    ASSUME NEW h, NEW n, NEW e, Right(h, n, e), NEW s \in Sides, h.side[s].phase = "admitting",
           \A d \in h.side[s].chunk : "fan" \notin h.m[d].asking,
           NEW g, g = SettledAll(h, h.side[s].listed, "unsent")
    PROVE  /\ Right(g, n, e) /\ (Served(h) => Served(g)) /\ g.side = h.side /\ g.side[s].kind = "fan"
           /\ Open(g) => \A d \in g.side[s].chunk : ~Pending(g, d)
<1>1. h \in HostType /\ h.side[s] \in SideType /\ SideRight(h, s) /\ Kept(h, e) /\ \A d \in Decisions : HeldRight(h, s, d)
  BY DEF Right, Typed, HostType
<1>2. h.side[s].kind = "fan" /\ h.side[s].listed \subseteq h.side[s].chunk /\ h.side[s].chunk \subseteq Decisions
  BY <1>1 DEF SideRight, SideType, NoSide
<1>3. \A d \in h.side[s].listed \cap Decisions : ~h.m[d].used
  BY <1>1, <1>2 DEF HeldRight
<1>4. \A d \in h.side[s].listed \cap Decisions :
          Pending(h, d) => /\ "unsent" = "unsent" => ~h.m[d].used
                           /\ "unsent" \in {"answered", "over"} => ~Runs(h, n, e, d)
                           /\ "unsent" = "answered" => n[d].got = Whole(d)
  BY <1>3
<1>5. Right(g, n, e) /\ (Served(h) => Served(g))
  BY <1>4, SettledAllKeeps, Zenon DEF Ended
<1>6. Told(h, g, h.side[s].listed, "unsent")
  BY <1>1, SettledAllTold, Zenon DEF Ended
<1>7. g.side = h.side /\ (Open(g) => Open(h)) /\ \A d \in Decisions : Pending(g, d) => Pending(h, d) /\ d \notin h.side[s].listed
  BY <1>6 DEF Told, SameRest, Open
<1>8. ASSUME Open(g), NEW d \in g.side[s].chunk, Pending(g, d) PROVE FALSE
  <2>1. d \in Decisions /\ d \in h.side[s].chunk /\ Pending(h, d) /\ d \notin h.side[s].listed /\ Open(h)
    BY <1>2, <1>7, <1>8
  <2>2. KeptOn(h, e, d)
    BY <1>1, <2>1 DEF Kept
  <2>. QED
    BY <2>1, <2>2 DEF KeptOn
<1>. QED
  BY <1>2, <1>5, <1>7, <1>8

\* A fan-out that will not go on is being killed.
LEMMA KillingKeeps ==
    ASSUME NEW h, NEW n, NEW e, Right(h, n, e), Served(h), NEW s \in Sides, h.side[s].kind = "fan",
           h.side[s].phase \in {"admitting", "turn"}, Open(h) => \A d \in h.side[s].chunk : ~Pending(h, d),
           \A d \in h.side[s].members : ~Pending(h, d),
           NEW x, x = [h.side[s] EXCEPT !.phase = "killing", !.chunk = {}],
           NEW g, g = [h EXCEPT !.side[s] = x]
    PROVE  Right(Killed(g, s), n, e) /\ Served(Killed(g, s))
<1>1. h \in HostType /\ h.side[s] \in SideType /\ SideRight(h, s) /\ Kept(h, e) /\ \A d \in Decisions : HeldRight(h, s, d)
  BY DEF Right, Typed, HostType
<1>3. /\ x \in SideType /\ x.kind = "fan" /\ x.phase = "killing" /\ x.gone = h.side[s].gone /\ x.listed = h.side[s].listed
      /\ x.chunk = {} /\ x.members = h.side[s].members /\ x.alive = h.side[s].alive /\ x.in = h.side[s].in
      /\ x.retry = h.side[s].retry
  BY <1>1 DEF SideType
<1>5. FanStep(h, e, s, x)
  BY <1>1, <1>3 DEF FanStep, SideRight, Kept
<1>6. \A d \in Decisions : FanStepOn(h, e, s, x, d)
  <2>1. ASSUME NEW d \in Decisions PROVE FanStepOn(h, e, s, x, d)
    <3>1. HeldRight(h, s, d)
      BY <1>1
    <3>. QED
      BY <1>3, <3>1 DEF FanStepOn, HeldRight
  <2>. QED
    BY <2>1
<1>7. Right(g, n, e)
  BY <1>5, <1>6, FanStepKeeps, Zenon
<1>8. Served(g)
  <2>1. /\ g.waiting = h.waiting /\ g.group = h.group /\ g.closed = h.closed /\ g.side[s] = x
        /\ \A t \in Sides : t = s \/ g.side[t] = h.side[t]
    BY <1>1 DEF HostType
  <2>2. \A t \in Sides : Serves(h, t) => Serves(g, t)
    BY <1>3, <2>1 DEF Serves, Busy
  <2>3. Open(g) => Open(h)
    BY <2>1 DEF Open
  <2>4. Served(h)
    BY <1>1
  <2>. QED
    BY <2>1, <2>2, <2>3, <2>4, ServedStays, Zenon
<1>. QED
  BY <1>7, <1>8, KilledKeeps

\* Dispatch: the members admitted are listed in a turn, or refused.
LEMMA DispatchStep == ASSUME GroupInv, NEW s \in Sides, Dispatch(s) PROVE GroupInv'
<1>1. /\ host \in HostType /\ host.out = Null /\ Right(host, native, Null) /\ Served(host) /\ host.side[s] \in SideType
      /\ SideRight(host, s) /\ Kept(host, Null) /\ \A d \in Decisions : HeldRight(host, s, d)
  BY InvIs DEF Right
<1>2. host.side[s].phase = "admitting" /\ \A d \in host.side[s].chunk : "fan" \notin host.m[d].asking
  BY Zenon DEF Dispatch
<1>3. host.side[s].kind = "fan" /\ host.side[s].listed \subseteq host.side[s].chunk /\ host.side[s].chunk \subseteq Decisions
      /\ host.side[s].members = {}
  BY <1>1, <1>2 DEF SideRight, SideType, NoSide
<1>a. PICK g : g = SettledAll(host, host.side[s].listed, "unsent")
  BY Zenon
<1>6. /\ Right(g, native, Null) /\ (Served(host) => Served(g)) /\ g.side = host.side /\ g.side[s].kind = "fan"
      /\ Open(g) => \A d \in g.side[s].chunk : ~Pending(g, d)
  <2>1. /\ Right(host, native, Null)
        /\ host.side[s].phase = "admitting"
        /\ \A d \in host.side[s].chunk : "fan" \notin host.m[d].asking
    BY <1>1, <1>2
  <2>. QED
    BY <1>a, <2>1, ListedRefused
<1>b. PICK y : y = [g.side[s] EXCEPT !.phase = "killing", !.chunk = {}]
  BY Zenon
<1>c. PICK h : h = [g EXCEPT !.side[s] = y]
  BY Zenon
<1>d. h = [g EXCEPT !.side[s].phase = "killing", !.side[s].chunk = {}]
  <2>1. g \in HostType
    BY <1>6 DEF Right, Typed
  <2>. QED
    BY <2>1, <1>b, <1>c DEF HostType, SideType
<1>e. PICK x : x = [host.side[s] EXCEPT !.phase = "turn", !.members = host.side[s].listed, !.stop = FALSE]
  BY Zenon
<1>f. PICK k : k = [host EXCEPT !.side[s] = x]
  BY Zenon
<1>5. \/ Ends(FanOutOver(g, s), Null) \/ (host.side[s].alive /\ Ends(k, Null)) \/ Ends(Killed(h, s), Null)
  <2>1. k = [host EXCEPT !.side[s] = [@ EXCEPT !.phase = "turn", !.members = host.side[s].listed, !.stop = FALSE]]
    BY <1>1, <1>e, <1>f DEF HostType
  <2>. QED
    BY <1>a, <1>d, <2>1, Zenon DEF Dispatch, Step
<1>7. Right(FanOutOver(g, s), native, Null) /\ Served(FanOutOver(g, s))
  <2>1. LeftGroup(g, Null)
    BY DEF LeftGroup
  <2>. QED
    BY <1>6, <2>1, FanOutOverKeeps, Zenon
<1>8. Right(Killed(h, s), native, Null) /\ Served(Killed(h, s))
  <2>1. g.side[s].phase \in {"admitting", "turn"} /\ g.side[s].members = {} /\ Served(g)
    BY <1>1, <1>2, <1>3, <1>6
  <2>2. \A d \in g.side[s].members : ~Pending(g, d)
    BY <2>1
  <2>. QED
    BY <1>6, <1>b, <1>c, <2>1, <2>2, KillingKeeps, Zenon
<1>9. ASSUME host.side[s].alive PROVE Right(k, native, Null) /\ Served(k)
  <2>1. /\ x \in SideType /\ x.kind = "fan" /\ x.phase = "turn" /\ x.gone = host.side[s].gone /\ x.listed = host.side[s].listed
        /\ x.chunk = host.side[s].chunk /\ x.members = host.side[s].listed /\ x.alive = host.side[s].alive
        /\ x.in = host.side[s].in /\ x.retry = host.side[s].retry
    BY <1>1, <1>3, <1>e DEF SideType
  <2>0. ~host.side[s].gone
    BY <1>1, <1>9 DEF SideRight
  <2>2. FanStep(host, Null, s, x)
    BY <1>1, <1>2, <1>3, <2>1 DEF FanStep, SideRight, Kept
  <2>3. \A d \in Decisions : FanStepOn(host, Null, s, x, d)
    <3>1. ASSUME NEW d \in Decisions PROVE FanStepOn(host, Null, s, x, d)
      <4>1. HeldRight(host, s, d) /\ (Open(host) => KeptOn(host, Null, d))
        BY <1>1 DEF Kept
      <4>3. Open(host) /\ Pending(host, d) /\ d \in host.side[s].chunk => d \in host.side[s].listed
        BY <1>2, <4>1 DEF KeptOn
      <4>4. d \in x.members => host.m[d].spare = Null /\ host.m[d].told # "none" /\ ~host.m[d].used
        BY <1>2, <1>3, <2>1, <4>1 DEF HeldRight
      <4>5. d \in x.listed => host.m[d].admitted
        BY <1>2, <2>1, <4>1 DEF HeldRight
      <4>6. d \in x.chunk /\ x.retry => host.m[d].admitted
        BY <2>1, <4>1 DEF HeldRight
      <4>. QED
        BY <2>0, <2>1, <4>3, <4>4, <4>5, <4>6 DEF FanStepOn
    <3>. QED
      BY <3>1
  <2>4. Right(k, native, Null)
    BY <1>1, <1>f, <2>2, <2>3, FanStepKeeps, Zenon
  <2>5. /\ k.waiting = host.waiting /\ k.group = host.group /\ k.closed = host.closed /\ k.side[s] = x
        /\ \A t \in Sides : t = s \/ k.side[t] = host.side[t]
    BY <1>1, <1>f DEF HostType
  <2>6. \A t \in Sides : Serves(host, t) => Serves(k, t)
    BY <2>1, <2>5 DEF Serves, Busy
  <2>. QED
    BY <1>1, <2>4, <2>5, <2>6, ServedStays DEF Open
<1>. QED
  BY <1>5, <1>7, <1>8, <1>9, RightStep, Zenon

\* A change of one side session, and nothing else.
LEMMA PutIs ==
    ASSUME NEW h \in HostType, NEW s \in Sides, NEW x
    PROVE  /\ Put(h, s, x).waiting = h.waiting /\ Put(h, s, x).group = h.group /\ Put(h, s, x).closed = h.closed
           /\ Put(h, s, x).side[s] = x /\ \A t \in Sides : t = s \/ Put(h, s, x).side[t] = h.side[t]
           /\ Put(h, s, x).m = h.m /\ Put(h, s, x).spare = h.spare
           /\ x \in SideType => Put(h, s, x) \in HostType
BY DEF Put, HostType

\* A side session without spares moves on.
LEMMA PutUnheld ==
    ASSUME NEW h \in HostType, NEW s \in Sides, NEW x, h.spare[s] = Unheld,
           NEW k, k = [h EXCEPT !.side[s] = x, !.spare[s] = Unheld]
    PROVE  Put(h, s, x) = k
BY DEF Put, HostType

\* A fan-out session moves on.
LEMMA FanStepPut ==
    ASSUME NEW h, NEW n, NEW e, Right(h, n, e), NEW s \in Sides, NEW x, FanStep(h, e, s, x),
           \A d \in Decisions : FanStepOn(h, e, s, x, d)
    PROVE  Right(Put(h, s, x), n, e)
<1>1. Put(h, s, x) = [h EXCEPT !.side[s] = x]
  BY DEF Put
<1>. QED
  BY <1>1, FanStepKeeps, Zenon

\* A side session that stays busy goes on serving what waits.
LEMMA SideServed ==
    ASSUME NEW h, h \in HostType, Served(h), NEW s \in Sides, NEW x,
           h.side[s].kind = "fan" /\ ~h.side[s].gone => x.kind = "fan" /\ ~x.gone /\ x.phase # "idle"
    PROVE  Served(Put(h, s, x))
<1>. DEFINE k == Put(h, s, x)
<1>1. /\ k.waiting = h.waiting /\ k.group = h.group /\ k.closed = h.closed /\ k.side[s] = x
      /\ \A t \in Sides : t = s \/ k.side[t] = h.side[t]
  BY PutIs
<1>. HIDE DEF k
<1>2. \A t \in Sides : Serves(h, t) => Serves(k, t)
  BY <1>1 DEF Serves, Busy
<1>3. Served(k)
  BY <1>1, <1>2, ServedStays DEF Open
<1>. QED
  BY <1>3 DEF k

\* The side session after its fan-out turn.
LEMMA TurnedIs ==
    ASSUME NEW e \in SideType, NEW next \in {"turn", "rewinding", "killing"}, NEW rest \in SUBSET Decisions,
           NEW x, x = Turned(e, next, rest)
    PROVE  /\ x \in SideType /\ x.kind = e.kind /\ x.phase = next /\ x.gone = e.gone /\ x.listed = e.listed
           /\ x.chunk = rest /\ x.members = {} /\ x.alive = e.alive /\ x.in = e.in /\ x.retry = e.retry
BY DEF Turned, SideType

\* Who was cut off, and who was skipped.
LEMMA CutIs ==
    ASSUME NEW s
    PROVE  /\ \A d : d \in Cut(s) <=> d \in host.side[s].listed /\ Pending(host, d) /\ host.m[d].used
           /\ \A d : d \in Skipped(s) <=> d \in host.side[s].listed /\ Pending(host, d) /\ ~host.m[d].used
BY DEF Cut, Skipped

\* The turn of a fan-out ends: what still ran is over, what it skipped is left.
LEMMA FanResultKeeps ==
    ASSUME GroupInv, NEW s \in Sides, host.side[s].kind = "fan", host.side[s].phase = "turn", ~host.side[s].gone,
           NEW g, g = SettledAll(host, Cut(s), "over"), NEW next \in {"rewinding", "killing"},
           NEW x, x = Turned(g.side[s], next, Skipped(s))
    PROVE  Right(Put(g, s, x), native, s) /\ Served(Put(g, s, x)) /\ ~Put(g, s, x).side[s].gone
<1>1. /\ host \in HostType /\ host.out = Null /\ Right(host, native, Null) /\ Served(host) /\ host.side[s] \in SideType
      /\ Right(host, native, s)
  BY InvIs, MayBeLost
<1>2. /\ SideRight(host, s) /\ Kept(host, s) /\ \A d \in Decisions : HeldRight(host, s, d) /\ AgreeOn(host, native, s, d)
  BY <1>1 DEF Right
<1>3. host.side[s].listed \subseteq host.side[s].chunk /\ host.side[s].chunk \subseteq Decisions
      /\ host.side[s].members = host.side[s].listed
  BY <1>1, <1>2 DEF SideRight, SideType, NoSide
<1>4. \A d \in Cut(s) \cap Decisions : ~Runs(host, native, s, d)
  BY <1>2, <1>3, CutIs DEF AgreeOn, Runs
<1>5. Right(g, native, s) /\ (Served(host) => Served(g))
  BY <1>1, <1>4, SettledAllKeeps, Zenon DEF Ended
<1>6. Told(host, g, Cut(s), "over")
  BY <1>1, SettledAllTold, Zenon DEF Ended
<1>7. /\ g \in HostType /\ g.side = host.side /\ (Open(g) <=> Open(host))
      /\ \A d \in Decisions : /\ g.m[d].used = host.m[d].used /\ g.m[d].admitted = host.m[d].admitted
                              /\ Pending(g, d) <=> Pending(host, d) /\ d \notin Cut(s)
  BY <1>6 DEF Told, SameRest, Open
<1>8. /\ x \in SideType /\ x.kind = "fan" /\ x.phase = next /\ x.gone = host.side[s].gone
      /\ x.listed = host.side[s].listed
      /\ x.chunk = Skipped(s) /\ x.members = {} /\ x.alive = host.side[s].alive
      /\ x.in = host.side[s].in /\ x.retry = host.side[s].retry
  <2>1. Skipped(s) \in SUBSET Decisions /\ next \in {"turn", "rewinding", "killing"}
    BY <1>3, CutIs
  <2>2. g.side[s] = host.side[s]
    BY <1>7
  <2>. QED
    BY <1>1, <2>1, <2>2, TurnedIs
<1>9. FanStep(g, s, s, x)
  <2>1. g.side[s] = host.side[s] /\ ~x.gone /\ Skipped(s) \subseteq host.side[s].chunk
    BY <1>3, <1>7, <1>8, CutIs
  <2>. QED
    BY <1>8, <2>1 DEF FanStep
<1>10. \A d \in Decisions : FanStepOn(g, s, s, x, d)
  <2>1. ASSUME NEW d \in Decisions PROVE FanStepOn(g, s, s, x, d)
    <3>1. HeldRight(host, s, d) /\ (Open(host) => KeptOn(host, s, d))
      BY <1>2 DEF Kept
    <3>2. d \in Skipped(s) => ~g.m[d].used /\ g.m[d].admitted
      BY <1>7, <3>1, CutIs DEF HeldRight
    <3>3. Open(g) /\ Pending(g, d) /\ d \in g.side[s].chunk => d \in Skipped(s)
      <4>1. Open(host) /\ Pending(host, d) /\ d \in host.side[s].chunk => d \in host.side[s].listed
        BY <3>1 DEF KeptOn
      <4>. QED
        BY <1>7, <4>1, CutIs
    <3>. QED
      BY <1>8, <3>2, <3>3 DEF FanStepOn
  <2>. QED
    BY <2>1
<1>11. Right(Put(g, s, x), native, s)
  BY <1>5, <1>9, <1>10, FanStepPut, Zenon
<1>12. Served(Put(g, s, x))
  <2>1. x.kind = "fan" /\ ~x.gone /\ x.phase # "idle" /\ Served(g)
    BY <1>1, <1>5, <1>8
  <2>. QED
    BY <1>7, <2>1, SideServed
<1>13. ~Put(g, s, x).side[s].gone
  BY <1>7, <1>8, PutIs
<1>. QED
  BY <1>11, <1>12, <1>13

\* A side session in its next phase.
LEMMA RephasedIs ==
    ASSUME NEW e \in SideType, NEW next \in {"turn", "rewinding", "killing"}, NEW x, x = Rephased(e, next)
    PROVE  /\ x \in SideType /\ x.kind = e.kind /\ x.phase = next /\ x.gone = e.gone /\ x.listed = e.listed
           /\ x.chunk = e.chunk /\ x.members = e.members /\ x.alive = e.alive /\ x.in = e.in /\ x.retry = e.retry
BY DEF Rephased, SideType

\* The host then.
LEMMA RephasedPut ==
    ASSUME NEW h \in HostType, NEW s \in Sides, NEW next, NEW x, x = Rephased(h.side[s], next),
           NEW k, k = [h EXCEPT !.side[s].phase = next]
    PROVE  Put(h, s, x) = k
BY DEF Rephased, Put, HostType

\* A standby session without spares moves on.
LEMMA UnheldKeeps ==
    ASSUME NEW h, NEW n, NEW e, Right(h, n, e), Served(h), NEW s \in Sides, h.side[s].kind = "standby",
           h.spare[s] = Unheld, \A d \in Decisions : h.m[d].spare = s => ~Pending(h, d),
           NEW next \in {"turn", "rewinding", "killing"},
           NEW x, x = Rephased(h.side[s], next)
    PROVE  Right(Put(h, s, x), n, e) /\ Served(Put(h, s, x)) /\ Put(h, s, x).side[s].gone = h.side[s].gone
<1>1. /\ h \in HostType /\ h.side[s] \in SideType /\ SideRight(h, s) /\ Kept(h, e)
      /\ \A d \in Decisions : HeldRight(h, s, d)
  BY DEF Right, Typed, HostType
<1>2. /\ x \in SideType /\ x.kind = "standby" /\ x.phase = next /\ x.gone = h.side[s].gone /\ x.alive = h.side[s].alive
      /\ x.in = h.side[s].in /\ x.chunk = {} /\ x.listed = {} /\ x.members = h.side[s].members
  <2>1. h.side[s].chunk = {} /\ h.side[s].listed = {}
    BY <1>1 DEF SideRight
  <2>. QED
    BY <1>1, <2>1, RephasedIs
<1>3. StandbyStep(h, e, s, x, Unheld)
  <2>1. Unheld \in [Roles -> SpareType]
    BY <1>1 DEF HostType
  <2>2. x.gone => ~x.alive
    BY <1>1, <1>2 DEF SideRight
  <2>3. Open(h) /\ x.in /\ x.gone => s = e
    BY <1>1, <1>2 DEF Kept
  <2>. QED
    BY <1>2, <2>1, <2>2, <2>3 DEF StandbyStep
<1>4. \A d \in Decisions : StandbyStepOn(h, n, e, s, x, Unheld, d)
  BY <1>1, <1>2 DEF StandbyStepOn, HeldRight
<1>5. PICK k : k = [h EXCEPT !.side[s] = x, !.spare[s] = Unheld]
  BY Zenon
<1>6. Right(Put(h, s, x), n, e)
  <2>0. Put(h, s, x) = k
    BY <1>1, <1>5, PutUnheld, Zenon
  <2>1. Right(k, n, e)
    BY <1>3, <1>4, <1>5, StandbyStepKeeps, Zenon
  <2>. QED
    BY <2>0, <2>1
<1>. QED
  BY <1>1, <1>2, <1>6, SideServed, PutIs

\* TurnResult: the fan-out keeps what it skipped, the standby turn frees its spares.
LEMMA TurnResultStep == ASSUME GroupInv, NEW s \in Sides, TurnResult(s) PROVE GroupInv'
<1>1. /\ host \in HostType /\ host.out = Null /\ Right(host, native, Null) /\ Served(host) /\ host.side[s] \in SideType
      /\ Right(host, native, s) /\ SideRight(host, s)
  BY InvIs, MayBeLost
<1>2. host.side[s].phase = "turn" /\ Talks(s)
  BY Zenon DEF TurnResult
<1>3. host.side[s].kind \in {"fan", "standby"} /\ ~host.side[s].gone
  BY <1>1, <1>2 DEF Talks, SideType
<1>4. PICK next : next = IF host.side[s].alive THEN "rewinding" ELSE "killing"
  BY Zenon
<1>5. next \in {"rewinding", "killing"} /\ next \in {"turn", "rewinding", "killing"}
  BY <1>4
<1>6. CASE host.side[s].kind = "fan"
  <2>1. PICK g : g = SettledAll(host, Cut(s), "over")
    BY Zenon
  <2>2. PICK x : x = Turned(g.side[s], next, Skipped(s))
    BY Zenon
  <2>3. Ends(Put(g, s, x), s)
    <3>1. g \in HostType
      BY <1>1, <2>1, SettledAllIs, Zenon DEF Ended
    <3>2. Put(g, s, x) = [g EXCEPT !.side[s] = [@ EXCEPT !.phase = next, !.members = {}, !.chunk = Skipped(s)]]
      BY <2>2, <3>1 DEF HostType, Put, Turned
    <3>. QED
      BY <1>4, <1>6, <2>1, <3>2, Zenon DEF TurnResult, Cut, Skipped
  <2>4. Right(Put(g, s, x), native, s) /\ Served(Put(g, s, x)) /\ ~Put(g, s, x).side[s].gone
    BY <1>2, <1>3, <1>5, <1>6, <2>1, <2>2, FanResultKeeps, Zenon
  <2>. QED
    BY <2>3, <2>4, StepKeeps, Zenon
<1>7. CASE host.side[s].kind = "standby"
  <2>1. PICK g : g = ReleaseSpares(host, s)
    BY Zenon
  <2>2. PICK x : x = Rephased(g.side[s], next)
    BY Zenon
  <2>4. Right(g, native, s) /\ (Served(host) => Served(g)) /\ Freed(host, g, s)
    BY <1>1, <1>7, <2>1, ReleaseSparesKeeps, Zenon
  <2>5. g \in HostType /\ SideRight(g, s)
    BY <2>4 DEF Right, Typed
  <2>7. /\ g.side[s].kind = "standby" /\ g.spare[s] = Unheld /\ g.side[s].members = {} /\ Served(g)
        /\ ~g.side[s].gone /\ \A d \in Decisions : g.m[d].spare = s => ~Pending(g, d)
    BY <1>1, <1>3, <1>7, <2>4 DEF Freed
  <2>6. Ends(Put(g, s, x), s)
    <3>0. PICK k : k = [g EXCEPT !.side[s].phase = next]
      BY Zenon
    <3>1. Put(g, s, x) = k
      BY <2>2, <2>5, <3>0, RephasedPut, Zenon
    <3>2. host.side[s].kind # "fan"
      BY <1>7
    <3>. QED
      BY <1>4, <2>1, <3>0, <3>1, <3>2, Zenon DEF TurnResult
  <2>8. Right(Put(g, s, x), native, s) /\ Served(Put(g, s, x)) /\ Put(g, s, x).side[s].gone = g.side[s].gone
    BY <1>5, <2>2, <2>4, <2>7, UnheldKeeps
  <2>. QED
    BY <2>6, <2>7, <2>8, StepKeeps, Zenon
<1>. QED
  BY <1>3, <1>6, <1>7

\* Unanswered: what is killed is a standby turn, or a fan-out nobody waits for.
LEMMA UnansweredStep == ASSUME GroupInv, NEW s \in Sides, Unanswered(s) PROVE GroupInv'
<1>1. /\ host \in HostType /\ Right(host, native, Null) /\ Served(host) /\ host.side[s] \in SideType
      /\ SideRight(host, s) /\ Kept(host, Null)
  BY InvIs DEF Right
<1>2. host.side[s].phase = "turn"
  BY Zenon DEF Unanswered
<1>3. PICK x : x = [host.side[s] EXCEPT !.phase = "killing", !.chunk = {}]
  BY Zenon
<1>4. PICK g : g = [host EXCEPT !.side[s] = x]
  BY Zenon
<1>5. g = [host EXCEPT !.side[s] = [@ EXCEPT !.phase = "killing", !.chunk = {}]]
  BY <1>1, <1>3, <1>4 DEF HostType
<1>6. CASE Ends(Killed(host, s), Null)
  BY <1>1, <1>6, KilledKeeps, RightStep
<1>7. CASE host.side[s].kind = "fan" /\ (\A d \in host.side[s].listed : ~Pending(host, d)) /\ Ends(Killed(g, s), Null)
  <2>1. host.side[s].members = host.side[s].listed /\ host.side[s].chunk \subseteq Decisions
    BY <1>1, <1>2, <1>7 DEF SideRight, SideType
  <2>2. \A d \in host.side[s].members : ~Pending(host, d)
    BY <1>7, <2>1
  <2>3. Open(host) => \A d \in host.side[s].chunk : ~Pending(host, d)
    BY <1>1, <1>2, <1>7, <2>1 DEF Kept, KeptOn
  <2>4. host.side[s].kind = "fan" /\ host.side[s].phase \in {"admitting", "turn"}
    BY <1>2, <1>7
  <2>5. Right(Killed(g, s), native, Null) /\ Served(Killed(g, s))
    BY <1>1, <1>3, <1>4, <2>2, <2>3, <2>4, KillingKeeps, Zenon
  <2>. QED
    BY <1>7, <2>5, RightStep, Zenon
<1>. QED
  BY <1>5, <1>6, <1>7, Zenon DEF Unanswered, Step

\* Rewound: the turn is over, or the side session is killed.
LEMMA RewoundStep == ASSUME GroupInv, NEW s \in Sides, Rewound(s) PROVE GroupInv'
<1>1. /\ host \in HostType /\ Right(host, native, Null) /\ Served(host) /\ host.side[s] \in SideType
      /\ SideRight(host, s) /\ Kept(host, Null) /\ \A d \in Decisions : HeldRight(host, s, d)
  BY InvIs DEF Right
<1>2. host.side[s].phase = "rewinding" /\ Talks(s)
  BY Zenon DEF Rewound
<1>3. host.side[s].kind \in {"fan", "standby"} /\ ~host.side[s].gone
  BY <1>1, <1>2 DEF Talks, SideType
<1>4. PICK x : x = Rephased(host.side[s], "killing")
  BY Zenon
<1>a. PICK k : k = [host EXCEPT !.side[s].phase = "killing"]
  BY Zenon
<1>5. Put(host, s, x) = k
  BY <1>1, <1>4, <1>a, RephasedPut, Zenon
<1>6. LeftGroup(host, Null)
  BY DEF LeftGroup
<1>7. \/ host.side[s].kind = "fan" /\ Ends(Unfinished(host, s), Null)
      \/ host.side[s].kind = "standby" /\ Ends(StandbyOver(host, s), Null)
      \/ Ends(Killed(Put(host, s, x), s), Null)
  <2>1. Ends(Killed(Put(host, s, x), s), Null) \/ Ends(IF host.side[s].kind = "fan" THEN Unfinished(host, s) ELSE StandbyOver(host, s), Null)
    BY <1>5, <1>a, Zenon DEF Rewound, Step
  <2>. QED
    BY <1>3, <2>1, Zenon
<1>8. ASSUME host.side[s].kind = "fan" PROVE Right(Unfinished(host, s), native, Null) /\ Served(Unfinished(host, s))
  <2>1. host.side[s].phase \in {"rewinding", "killing"} /\ (host.side[s].phase = "rewinding" \/ ~host.side[s].alive)
    BY <1>2
  <2>. QED
    BY <1>1, <1>6, <1>8, <2>1, UnfinishedKeeps, Zenon
<1>9. ASSUME host.side[s].kind = "standby"
      PROVE  host.spare[s] = Unheld /\ \A d \in Decisions : host.m[d].spare = s => ~Pending(host, d)
  <2>1. /\ \A r \in Roles : host.spare[s][r] = NoSpare
        /\ \A d \in Decisions : host.m[d].spare = s => ~Pending(host, d)
    BY <1>1, <1>2, NoneReserved
  <2>2. host.spare[s] = Unheld
    BY <1>1, <2>1 DEF HostType, Unheld
  <2>. QED
    BY <2>1, <2>2
<1>10. ASSUME host.side[s].kind = "standby" PROVE Right(StandbyOver(host, s), native, Null) /\ Served(StandbyOver(host, s))
  BY <1>1, <1>9, <1>10, StandbyOverKeeps
<1>11. Right(Put(host, s, x), native, Null) /\ Served(Put(host, s, x))
  <2>1. CASE host.side[s].kind = "standby"
    <3>1. "killing" \in {"turn", "rewinding", "killing"}
      OBVIOUS
    <3>. QED
      BY <1>1, <1>4, <1>9, <2>1, <3>1, UnheldKeeps
  <2>2. CASE host.side[s].kind = "fan"
    <3>1. /\ x \in SideType /\ x.kind = "fan" /\ x.phase = "killing" /\ x.gone = host.side[s].gone
          /\ x.listed = host.side[s].listed
          /\ x.chunk = host.side[s].chunk /\ x.members = host.side[s].members /\ x.alive = host.side[s].alive
          /\ x.in = host.side[s].in /\ x.retry = host.side[s].retry
      BY <1>1, <1>4, <2>2, RephasedIs
    <3>2. host.side[s].members = {}
      BY <1>1, <1>2, <2>2 DEF SideRight
    <3>3. FanStep(host, Null, s, x)
      BY <1>1, <1>3, <2>2, <3>1, <3>2 DEF FanStep, SideRight, Kept
    <3>4. \A d \in Decisions : FanStepOn(host, Null, s, x, d)
      <4>1. ASSUME NEW d \in Decisions PROVE FanStepOn(host, Null, s, x, d)
        <5>1. HeldRight(host, s, d)
          BY <1>1
        <5>. QED
          BY <1>2, <1>3, <3>1, <3>2, <5>1 DEF FanStepOn, HeldRight
      <4>. QED
        BY <4>1
    <3>5. Right(Put(host, s, x), native, Null)
      BY <1>1, <3>3, <3>4, FanStepPut, Zenon
    <3>6. x.kind = "fan" /\ ~x.gone /\ x.phase # "idle"
      BY <1>3, <3>1
    <3>. QED
      BY <1>1, <3>5, <3>6, SideServed
  <2>. QED
    BY <1>3, <2>1, <2>2
<1>12. Right(Killed(Put(host, s, x), s), native, Null) /\ Served(Killed(Put(host, s, x), s))
  BY <1>11, KilledKeeps, Zenon
<1>. QED
  BY <1>7, <1>8, <1>10, <1>12, RightStep, Zenon

----------------------------------------------------------------------------
(* The batch is flushed                                                     *)

\* Division rounds down.
LEMMA Quotients ==
    ASSUME NEW a \in Nat, NEW b \in Nat \ {0}
    PROVE  a \div b \in Nat /\ b * (a \div b) <= a /\ a < b * (a \div b) + b
OBVIOUS

\* Multiples are in order.
LEMMA Multiples ==
    ASSUME NEW b \in Nat \ {0}, NEW p \in Nat, NEW q \in Nat, b * p < b * q + b
    PROVE  p <= q
<1>1. SUFFICES ASSUME p > q PROVE FALSE
  OBVIOUS
<1>2. p >= q + 1 /\ p - (q + 1) \in Nat
  BY <1>1
<1>3. b * (p - (q + 1)) \in Nat /\ b * p = b * (p - (q + 1)) + b * (q + 1) /\ b * (q + 1) = b * q + b
  BY <1>2
<1>. QED
  BY <1>3

\* Up rounds up, and is monotone.
LEMMA UpIs ==
    ASSUME NEW a \in Nat, NEW b \in Nat \ {0}
    PROVE  /\ Up(a, b) \in Nat /\ (a >= 1 => Up(a, b) >= 1)
           /\ \A c \in Nat : c <= a => Up(c, b) <= Up(a, b)
<1>1. a + b - 1 \in Nat /\ (a >= 1 => a + b - 1 >= b)
  OBVIOUS
<1>2. Up(a, b) \in Nat /\ b * Up(a, b) <= a + b - 1 /\ a + b - 1 < b * Up(a, b) + b
  BY <1>1, Quotients DEF Up
<1>3. a >= 1 => Up(a, b) >= 1
  <2>1. SUFFICES ASSUME a >= 1, ~(Up(a, b) >= 1) PROVE FALSE
    OBVIOUS
  <2>2. Up(a, b) = 0
    BY <1>2, <2>1
  <2>3. b * Up(a, b) = 0
    BY <2>2
  <2>. QED
    BY <1>1, <1>2, <2>1, <2>3
<1>4. ASSUME NEW c \in Nat, c <= a PROVE Up(c, b) <= Up(a, b)
  <2>1. c + b - 1 \in Nat /\ c + b - 1 <= a + b - 1
    BY <1>4
  <2>2. Up(c, b) \in Nat /\ b * Up(c, b) <= c + b - 1
    BY <2>1, Quotients DEF Up
  <2>3. PICK p \in Nat, q \in Nat : p = Up(c, b) /\ q = Up(a, b)
    BY <1>2, <2>2
  <2>4. b * p \in Nat /\ b * q \in Nat /\ b * p <= c + b - 1 /\ a + b - 1 < b * q + b
    BY <1>2, <2>2, <2>3
  <2>5. b * p < b * q + b
    BY <1>1, <2>1, <2>4
  <2>. QED
    BY <2>3, <2>5, Multiples
<1>. QED
  BY <1>2, <1>3, <1>4

\* Up is a natural number, and positive when what it divides is.
LEMMA UpPositive == \A a \in Nat, b \in Nat \ {0} : Up(a, b) \in Nat /\ (a # 0 => Up(a, b) \in Nat \ {0} /\ Up(a, b) >= 1)
<1>1. ASSUME NEW a \in Nat, NEW b \in Nat \ {0}
      PROVE  Up(a, b) \in Nat /\ (a # 0 => Up(a, b) \in Nat \ {0} /\ Up(a, b) >= 1)
  <2>1. Up(a, b) \in Nat /\ (a >= 1 => Up(a, b) >= 1)
    BY UpIs
  <2>. QED
    BY <2>1
<1>. QED
  BY <1>1

\* Up is monotone.
LEMMA UpMonotone == \A a, c \in Nat, b \in Nat \ {0} : c <= a => Up(c, b) <= Up(a, b)
BY UpIs

\* Each decision of the batch that is asked has a place in one chunk.
LEMMA PlaceIs ==
    ASSUME NEW h, h \in HostType, At(h) # {}
    PROVE  /\ Up(Cardinality(At(h)), Size(h)) \in Nat
           /\ \A j \in At(h) : Place(h, j) \in 1..Up(Cardinality(At(h)), Size(h))
<1>1. Len(h.batch) \in Nat /\ At(h) \subseteq 1..Len(h.batch)
  BY DEF HostType, At
<1>2. IsFiniteSet(1..Len(h.batch))
  BY <1>1, FS_Interval
<1>3. IsFiniteSet(At(h)) /\ Cardinality(At(h)) \in Nat /\ Cardinality(At(h)) # 0
  BY <1>1, <1>2, FS_Subset, FS_CardinalityType, FS_EmptySet
<1>4. MaxMembers \in Nat \ {0}
  BY SubagentsAssumption
<1>5. Size(h) \in Nat \ {0}
  <2>1. Up(Cardinality(At(h)), MaxMembers) \in Nat \ {0}
    BY <1>3, <1>4, UpPositive
  <2>. QED
    BY <1>3, <2>1, UpPositive DEF Size
<1>6. ASSUME NEW j \in At(h) PROVE Place(h, j) \in 1..Up(Cardinality(At(h)), Size(h))
  <2>. DEFINE T == {k \in At(h) : k <= j}
  <2>1. j \in T /\ T \subseteq At(h)
    BY <1>1, <1>6
  <2>2. IsFiniteSet(T) /\ Cardinality(T) \in Nat /\ Cardinality(T) <= Cardinality(At(h)) /\ Cardinality(T) # 0
    BY <1>3, <2>1, FS_Subset, FS_CardinalityType, FS_EmptySet
  <2>3. Place(h, j) = Up(Cardinality(T), Size(h))
    BY DEF Place
  <2>. HIDE DEF T
  <2>4. /\ Up(Cardinality(T), Size(h)) \in Nat /\ Up(Cardinality(T), Size(h)) >= 1
        /\ Up(Cardinality(At(h)), Size(h)) \in Nat
        /\ Up(Cardinality(T), Size(h)) <= Up(Cardinality(At(h)), Size(h))
    BY <1>3, <1>5, <2>2, UpPositive, UpMonotone
  <2>. QED
    BY <2>3, <2>4
<1>. QED
  BY <1>3, <1>5, <1>6, UpPositive

\* The chunks spread the batch: each asked decision is in one.
LEMMA ChunksSpread ==
    ASSUME NEW h, h \in HostType, At(h) # {}, \A d \in Decisions : ApartOn(h, d), NEW w, w = Chunks(h)
    PROVE  Spread(h, w)
<1>. DEFINE n == Up(Cardinality(At(h)), Size(h))
<1>1. n \in Nat /\ \A j \in At(h) : Place(h, j) \in 1..n
  BY PlaceIs
<1>2. \A j \in At(h) : /\ j \in 1..Len(h.batch) /\ Pending(h, h.batch[j]) /\ h.batch[j] \in Decisions
                       /\ Batched(h, h.batch[j])
  BY DEF At, HostType, Batched
<1>3. w = [i \in 1..n |-> {h.batch[j] : j \in {k \in At(h) : Place(h, k) = i}}]
  BY DEF Chunks
<1>. HIDE DEF n
<1>4. \A i \in 1..n : w[i] \in SUBSET Decisions
  BY <1>2, <1>3
<1>5. w \in [1..n -> SUBSET Decisions]
  BY <1>3, <1>4
<1>6. w \in Seq(SUBSET Decisions) /\ Len(w) = n
  BY <1>1, <1>5
<1>7. \A i \in 1..n : \A d : d \in w[i] <=> \E j \in At(h) : Place(h, j) = i /\ h.batch[j] = d
  BY <1>3
<1>8. \A i \in 1..n : \A d \in w[i] : Batched(h, d) /\ d \in Decisions
  BY <1>2, <1>7
<1>9. ASSUME NEW i \in 1..n, NEW j \in 1..n, NEW d \in w[i], d \in w[j] PROVE i = j
  <2>1. PICK a \in At(h) : Place(h, a) = i /\ h.batch[a] = d
    BY <1>7, <1>9
  <2>2. PICK b \in At(h) : Place(h, b) = j /\ h.batch[b] = d
    BY <1>7, <1>9
  <2>3. a = b
    BY <1>2, <2>1, <2>2 DEF ApartOn
  <2>. QED
    BY <2>1, <2>2, <2>3
<1>10. ASSUME NEW d \in Decisions, Pending(h, d), Batched(h, d) PROVE \E i \in 1..n : d \in w[i]
  <2>1. PICK j \in 1..Len(h.batch) : h.batch[j] = d
    BY <1>10 DEF Batched
  <2>2. j \in At(h)
    BY <1>10, <2>1 DEF At
  <2>. QED
    BY <1>1, <1>7, <2>1, <2>2
<1>. QED
  BY <1>6, <1>8, <1>9, <1>10 DEF Spread

\* The batch becomes chunks that wait.
LEMMA SpreadKeeps ==
    ASSUME NEW h, NEW n, NEW e, Right(h, n, e), NEW w, Spread(h, w), NEW q, q = h.waiting \o w,
           NEW g, g = [h EXCEPT !.batch = <<>>, !.timer = FALSE, !.waiting = q]
    PROVE  Right(g, n, e)
<1>1. /\ h \in HostType /\ h.out = Null /\ n \in NativeType /\ e \in Sides \cup {Null} /\ spec \in Specs
      /\ h.waiting \in Seq(SUBSET Decisions) /\ w \in Seq(SUBSET Decisions)
  BY DEF Right, Typed, HostType, Spread
<1>2. /\ q \in Seq(SUBSET Decisions) /\ Len(h.waiting) \in Nat /\ Len(w) \in Nat /\ Len(q) = Len(h.waiting) + Len(w)
      /\ \A i \in 1..Len(h.waiting) : i \in 1..Len(q) /\ q[i] = h.waiting[i]
      /\ \A i \in 1..Len(w) : Len(h.waiting) + i \in 1..Len(q) /\ q[Len(h.waiting) + i] = w[i]
      /\ \A i \in 1..Len(q) : i \in 1..Len(h.waiting) \/ (i - Len(h.waiting) \in 1..Len(w) /\ q[i] = w[i - Len(h.waiting)])
  BY <1>1, Concats
<1>3. /\ g \in HostType /\ g.out = Null /\ g.m = h.m /\ g.side = h.side /\ g.spare = h.spare /\ g.group = h.group
      /\ g.closed = h.closed /\ g.batch = <<>> /\ g.waiting = q
  <2>0. q \in Seq(SUBSET Decisions) /\ <<>> \in Seq(Decisions)
    BY <1>2
  <2>. QED
    BY <1>1, <2>0, Zenon DEF HostType
<1>4. /\ \A d \in Decisions : ~Batched(g, d)
      /\ \A d \in Decisions : Waits(g, d) <=> Waits(h, d) \/ \E i \in 1..Len(w) : d \in w[i]
  <2>1. \A d \in Decisions : ~Batched(g, d)
    BY <1>3 DEF Batched
  <2>2. ASSUME NEW d \in Decisions PROVE Waits(g, d) <=> Waits(h, d) \/ \E i \in 1..Len(w) : d \in w[i]
    <3>1. Waits(g, d) => Waits(h, d) \/ \E i \in 1..Len(w) : d \in w[i]
      BY <1>2, <1>3 DEF Waits
    <3>2. Waits(h, d) => Waits(g, d)
      BY <1>2, <1>3 DEF Waits
    <3>3. (\E i \in 1..Len(w) : d \in w[i]) => Waits(g, d)
      BY <1>2, <1>3 DEF Waits
    <3>. QED
      BY <3>1, <3>2, <3>3
  <2>. QED
    BY <2>1, <2>2
<1>5. \A d \in Decisions : Waits(g, d) => Waits(h, d) \/ Batched(h, d)
  BY <1>4 DEF Spread
<1>6. \A d \in Decisions : Pending(h, d) /\ (Batched(h, d) \/ Waits(h, d)) => Waits(g, d)
  BY <1>4 DEF Spread
<1>7. ASSUME NEW d \in Decisions PROVE ApartOn(g, d)
  <2>1. ApartOn(h, d)
    BY DEF Right
  <2>2. ASSUME NEW i \in 1..Len(q), NEW j \in 1..Len(q), d \in q[i], d \in q[j] PROVE i = j
    <3>1. Waits(h, d) => ~Batched(h, d)
      BY <2>1 DEF ApartOn
    <3>2. \A k \in 1..Len(w) : d \in w[k] => Batched(h, d)
      BY DEF Spread
    <3>3. \A k \in 1..Len(h.waiting) : d \in h.waiting[k] => Waits(h, d)
      BY DEF Waits
    <3>4. CASE i \in 1..Len(h.waiting)
      <4>1. j \in 1..Len(h.waiting)
        BY <1>2, <2>2, <3>1, <3>2, <3>3, <3>4
      <4>. QED
        BY <1>2, <2>1, <2>2, <3>4, <4>1 DEF ApartOn
    <3>5. CASE i \notin 1..Len(h.waiting)
      <4>1. i - Len(h.waiting) \in 1..Len(w) /\ d \in w[i - Len(h.waiting)]
        BY <1>2, <2>2, <3>5
      <4>2. j \notin 1..Len(h.waiting)
        BY <1>2, <2>2, <3>1, <3>2, <3>3, <4>1
      <4>3. j - Len(h.waiting) \in 1..Len(w) /\ d \in w[j - Len(h.waiting)]
        BY <1>2, <2>2, <4>2
      <4>4. i - Len(h.waiting) = j - Len(h.waiting)
        BY <4>1, <4>3 DEF Spread
      <4>. QED
        BY <1>2, <4>4
    <3>. QED
      BY <3>4, <3>5
  <2>3. \A i, j \in 1..Len(g.batch) : g.batch[i] = d /\ g.batch[j] = d => i = j
    BY <1>3
  <2>. QED
    BY <1>3, <1>4, <1>5, <2>1, <2>2, <2>3 DEF ApartOn
<1>8. \A d \in Decisions : MemberRight(g, d) /\ AgreeOn(g, n, e, d)
  BY <1>3 DEF Right, MemberRight, AgreeOn, Pending, Ours, Runs
<1>9. /\ \A s \in Sides, r \in Roles : SpareRight(g, s, r)
      /\ \A s \in Sides : SideRight(g, s) /\ \A d \in Decisions : HeldRight(g, s, d)
  BY <1>3 DEF Right, SpareRight, SideRight, HeldRight, Pending
<1>10. Kept(g, e)
  <2>1. ASSUME Open(h), NEW d \in Decisions PROVE KeptOn(g, e, d)
    <3>1. KeptOn(h, e, d)
      BY <2>1 DEF Right, Kept
    <3>. QED
      BY <1>3, <1>6, <3>1 DEF KeptOn, Pending
  <2>. QED
    BY <1>3, <2>1 DEF Right, Kept, Open
<1>. QED
  BY <1>1, <1>3, <1>7, <1>8, <1>9, <1>10 DEF Right, Typed

\* _flush by its parts.
LEMMA FlushIs ==
    ASSUME NEW h, NEW g, g = [h EXCEPT !.batch = <<>>, !.timer = FALSE], NEW k, k = [g EXCEPT !.waiting = @ \o Chunks(h)]
    PROVE  Flush(h) = IF At(h) = {} THEN g ELSE Drain(k)
<1>1. Flush(h) = IF At(h) = {} THEN [h EXCEPT !.batch = <<>>, !.timer = FALSE]
                 ELSE Drain([[h EXCEPT !.batch = <<>>, !.timer = FALSE] EXCEPT !.waiting = @ \o Chunks(h)])
  BY Zenon DEF Flush, At, Size, Place, Chunks
<1>. QED
  BY <1>1, Zenon

\* _flush keeps the invariant's parts.
LEMMA FlushKeeps ==
    ASSUME NEW h, NEW n, Right(h, n, Null), Served(h)
    PROVE  Right(Flush(h), n, Null) /\ Served(Flush(h))
<1>1. h \in HostType /\ \A d \in Decisions : ApartOn(h, d)
  BY DEF Right, Typed
<1>2. LeftGroup(h, Null)
  BY DEF LeftGroup
<1>3. PICK w : w = IF At(h) = {} THEN <<>> ELSE Chunks(h)
  BY Zenon
<1>4. Spread(h, w)
  <2>1. CASE At(h) # {}
    BY <1>1, <1>3, <2>1, ChunksSpread
  <2>2. CASE At(h) = {}
    <3>1. w = <<>> /\ <<>> \in Seq(SUBSET Decisions) /\ Len(<<>>) = 0
      BY <1>3, <2>2
    <3>2. \A d \in Decisions : ~(Pending(h, d) /\ Batched(h, d))
      BY <2>2 DEF At, Batched
    <3>. QED
      BY <3>1, <3>2 DEF Spread
  <2>. QED
    BY <2>1, <2>2
<1>5. PICK q : q = h.waiting \o w
  BY Zenon
<1>6. PICK f : f = [h EXCEPT !.batch = <<>>, !.timer = FALSE, !.waiting = q]
  BY Zenon
<1>7. Right(f, n, Null)
  BY <1>4, <1>5, <1>6, SpreadKeeps, Zenon
<1>8. PICK g : g = [h EXCEPT !.batch = <<>>, !.timer = FALSE]
  BY Zenon
<1>9. PICK k : k = [g EXCEPT !.waiting = @ \o Chunks(h)]
  BY Zenon
<1>10. Flush(h) = IF At(h) = {} THEN g ELSE Drain(k)
  BY <1>8, <1>9, FlushIs, Zenon
<1>11. CASE At(h) = {}
  <2>1. h.waiting \in Seq(SUBSET Decisions)
    BY <1>1 DEF HostType
  <2>2. q = h.waiting
    BY <1>3, <1>5, <1>11, <2>1
  <2>3. f = g
    BY <1>1, <1>6, <1>8, <2>2 DEF HostType
  <2>4. /\ g.waiting = h.waiting /\ g.group = h.group /\ g.closed = h.closed /\ g.side = h.side
    BY <1>1, <1>8 DEF HostType
  <2>5. Served(g)
    BY <2>4, ServedStays DEF Open, Serves, Busy
  <2>. QED
    BY <1>7, <1>10, <1>11, <2>3, <2>5
<1>12. CASE At(h) # {}
  <2>1. w = Chunks(h)
    BY <1>3, <1>12
  <2>2. f = k
    BY <1>1, <1>5, <1>6, <1>8, <1>9, <2>1 DEF HostType
  <2>3. LeftGroup(k, Null)
    BY DEF LeftGroup
  <2>4. Right(Drain(k), n, Null) /\ Served(Drain(k))
    BY <1>7, <2>2, <2>3, DrainKeeps
  <2>. QED
    BY <1>10, <1>12, <2>4
<1>. QED
  BY <1>11, <1>12

\* BatchTimer: what the batch holds waits in chunks, and is drained.
LEMMA BatchTimerStep == ASSUME GroupInv, BatchTimer PROVE GroupInv'
<1>1. Right(host, native, Null) /\ Served(host)
  BY DEF GroupInv
<1>2. Ends(Flush(host), Null)
  BY Zenon DEF BatchTimer, Step
<1>. QED
  BY <1>1, <1>2, FlushKeeps, RightStep, Zenon

----------------------------------------------------------------------------
(* A member of a fan-out                                                    *)

\* What With changes.
LEMMA WithIs ==
    ASSUME NEW h \in HostType, NEW d \in Decisions, NEW y
    PROVE  /\ With(h, d, y).waiting = h.waiting /\ With(h, d, y).group = h.group /\ With(h, d, y).closed = h.closed
           /\ With(h, d, y).batch = h.batch /\ With(h, d, y).timer = h.timer /\ With(h, d, y).out = h.out
           /\ With(h, d, y).side = h.side /\ With(h, d, y).spare = h.spare
           /\ With(h, d, y).m[d] = y /\ \A c \in Decisions : c = d \/ With(h, d, y).m[c] = h.m[c]
           /\ y \in MemberType => With(h, d, y) \in HostType
BY DEF With, HostType

\* The later change of a member holds.
LEMMA WithWith ==
    ASSUME NEW h \in HostType, NEW d \in Decisions, NEW y, NEW z
    PROVE  With(With(h, d, y), d, z) = With(h, d, z)
BY DEF With, HostType

\* Changes of a member and of a side session commute.
LEMMA PutWith ==
    ASSUME NEW h \in HostType, NEW d \in Decisions, NEW y, NEW s \in Sides, NEW x
    PROVE  Put(With(h, d, y), s, x) = With(Put(h, s, x), d, y)
BY DEF With, Put, HostType

\* It says nothing of where the decision is or what it was told.
LEMMA WithAside ==
    ASSUME NEW h, h \in HostType, h.out = Null, NEW d \in Decisions, NEW y \in MemberType, SameMember(h.m[d], y),
           y.admitted /\ ~h.m[d].admitted => \A s \in Sides : h.m[d].spare = s => d \in h.side[s].members,
           Pending(h, d) /\ "fan" \in h.m[d].asking /\ "fan" \notin y.asking =>
                \A s \in Sides : d \in h.side[s].chunk /\ h.side[s].phase = "admitting" => d \in h.side[s].listed
    PROVE  Aside(h, With(h, d, y))
<1>. DEFINE g == With(h, d, y)
<1>1. /\ g \in HostType /\ g.out = Null /\ g.batch = h.batch /\ g.waiting = h.waiting /\ g.timer = h.timer
      /\ g.group = h.group /\ g.closed = h.closed /\ g.side = h.side /\ g.spare = h.spare
      /\ g.m[d] = y /\ \A c \in Decisions : c = d \/ g.m[c] = h.m[c]
  BY WithIs
<1>. HIDE DEF g
<1>2. \A c \in Decisions : h.m[c] \in MemberType
  BY DEF HostType
<1>3. \A c \in Decisions : SameMember(h.m[c], g.m[c])
  BY <1>1, <1>2 DEF SameMember
<1>4. \A s \in Sides : SameSide(h, g, s)
  BY <1>1 DEF SameSide
<1>5. \A c \in Decisions : g.m[c].admitted /\ ~h.m[c].admitted =>
          \A s \in Sides : h.m[c].spare = s => c \in h.side[s].members
  BY <1>1
<1>6. \A c \in Decisions : Pending(h, c) /\ "fan" \in h.m[c].asking /\ "fan" \notin g.m[c].asking =>
          \A s \in Sides : c \in h.side[s].chunk /\ h.side[s].phase = "admitting" => c \in h.side[s].listed
  BY <1>1
<1>7. Aside(h, g)
  BY <1>1, <1>3, <1>4, <1>5, <1>6, Zenon DEF Aside, Open
<1>. QED
  BY <1>7 DEF g

\* The member after its registration.
LEMMA UnaskedIs ==
    ASSUME NEW x \in MemberType, NEW w, NEW y, y = Unasked(x, w), x.told # "none"
    PROVE  y \in MemberType /\ SameMember(x, y) /\ y.admitted = x.admitted /\ y.asking = x.asking \ {w}
           /\ y.told = x.told /\ y.spare = x.spare /\ y.delivered = x.delivered
BY DEF Unasked, MemberType, SameMember

\* A registration is over.
LEMMA UnaskedKeeps ==
    ASSUME NEW h, NEW n, NEW e, Right(h, n, e), NEW d \in Decisions, NEW w, h.m[d].told # "none",
           w \in {"fan", "spare"}, w = "fan" /\ Pending(h, d) =>
                \A s \in Sides : d \in h.side[s].chunk /\ h.side[s].phase = "admitting" => d \in h.side[s].listed,
           NEW g, g = With(h, d, Unasked(h.m[d], w))
    PROVE  Right(g, n, e) /\ (Served(h) => Served(g))
<1>1. h \in HostType /\ h.out = Null /\ h.m[d] \in MemberType
  BY DEF Right, Typed, HostType
<1>2. PICK y : y = Unasked(h.m[d], w)
  BY Zenon
<1>3. y \in MemberType /\ SameMember(h.m[d], y) /\ y.admitted = h.m[d].admitted /\ y.asking = h.m[d].asking \ {w}
  BY <1>1, <1>2, UnaskedIs
<1>4. Pending(h, d) /\ "fan" \in h.m[d].asking /\ "fan" \notin y.asking => w = "fan"
  BY <1>3
<1>5. Aside(h, With(h, d, y))
  BY <1>1, <1>3, <1>4, WithAside
<1>. QED
  BY <1>2, <1>5, AsideKeeps

\* A registration for a fan-out is over.
LEMMA FanUnasked ==
    ASSUME NEW h, NEW n, NEW e, Right(h, n, e), NEW d \in Decisions, h.m[d].told # "none",
           Pending(h, d) =>
                \A s \in Sides : d \in h.side[s].chunk /\ h.side[s].phase = "admitting" => d \in h.side[s].listed,
           NEW g, g = With(h, d, Unasked(h.m[d], "fan"))
    PROVE  Right(g, n, e) /\ (Served(h) => Served(g))
<1>. PICK w : w = "fan"
  BY Zenon
<1>. QED
  BY UnaskedKeeps

\* A registration for a spare is over.
LEMMA SpareUnasked ==
    ASSUME NEW h, NEW n, NEW e, Right(h, n, e), NEW d \in Decisions, h.m[d].told # "none",
           NEW g, g = With(h, d, Unasked(h.m[d], "spare"))
    PROVE  Right(g, n, e) /\ (Served(h) => Served(g))
<1>. PICK w : w = "spare"
  BY Zenon
<1>1. w # "fan"
  OBVIOUS
<1>. QED
  BY <1>1, UnaskedKeeps

\* The member after it is settled.
LEMMA SaysIs ==
    ASSUME NEW x \in MemberType, NEW what \in Ended, NEW w
    PROVE  /\ Says(x, what) \in MemberType /\ Says(x, what).told = what /\ Unasked(x, w).told = x.told
           /\ Unasked(Says(x, what), w) = Says(Unasked(x, w), what)
BY DEF Says, Unasked, MemberType, Ended

\* Settling one changes one member.
LEMMA SettledWith ==
    ASSUME NEW h \in HostType, NEW d \in Decisions, NEW what, Pending(h, d), NEW g, g = SettledAs(h, d, what)
    PROVE  g = With(h, d, Says(h.m[d], what))
BY DEF SettledAs, With, Says, HostType

\* The member after it is admitted.
LEMMA GrantedIs ==
    ASSUME NEW x \in MemberType, NEW y, y = Granted(x), x.told # "none", x.spare = Null \/ "spare" \notin x.asking
    PROVE  y \in MemberType /\ SameMember(x, y) /\ y.admitted /\ y.asking = x.asking
           /\ y.told = x.told /\ y.spare = x.spare /\ y.used = x.used
BY DEF Granted, MemberType, SameMember

\* A member is admitted that its spare's side session knows.
LEMMA GrantedKeeps ==
    ASSUME NEW h, NEW n, NEW e, Right(h, n, e), NEW d \in Decisions, h.m[d].told # "none",
           \A s \in Sides : h.m[d].spare = s => d \in h.side[s].members, h.m[d].spare = Null \/ "spare" \notin h.m[d].asking,
           NEW g, g = With(h, d, Granted(h.m[d]))
    PROVE  Right(g, n, e) /\ (Served(h) => Served(g))
<1>1. h \in HostType /\ h.out = Null /\ h.m[d] \in MemberType
  BY DEF Right, Typed, HostType
<1>2. PICK y : y = Granted(h.m[d])
  BY Zenon
<1>3. y \in MemberType /\ SameMember(h.m[d], y) /\ y.asking = h.m[d].asking
  BY <1>1, <1>2, GrantedIs
<1>4. ~(Pending(h, d) /\ "fan" \in h.m[d].asking /\ "fan" \notin y.asking)
  BY <1>3
<1>5. Aside(h, With(h, d, y))
  BY <1>1, <1>3, <1>4, WithAside
<1>. QED
  BY <1>2, <1>5, AsideKeeps

\* The side session that lists one more.
LEMMA ListedIs ==
    ASSUME NEW e \in SideType, NEW d \in Decisions, NEW x, x = Listed(e, d)
    PROVE  /\ x \in SideType /\ x.kind = e.kind /\ x.phase = e.phase /\ x.gone = e.gone /\ x.listed = e.listed \cup {d}
           /\ x.chunk = e.chunk /\ x.members = e.members /\ x.alive = e.alive /\ x.in = e.in /\ x.retry = e.retry
BY DEF Listed, SideType

\* An admitted member is listed.
LEMMA ListedKeeps ==
    ASSUME NEW h, NEW n, NEW e, Right(h, n, e), Served(h), NEW s \in Sides, NEW d \in Decisions,
           h.side[s].phase = "admitting", d \in h.side[s].chunk, h.m[d].admitted,
           NEW x, x = Listed(h.side[s], d)
    PROVE  Right(Put(h, s, x), n, e) /\ Served(Put(h, s, x))
<1>1. /\ h \in HostType /\ h.side[s] \in SideType /\ SideRight(h, s) /\ Kept(h, e)
      /\ \A c \in Decisions : HeldRight(h, s, c)
  BY DEF Right, Typed, HostType
<1>2. h.side[s].kind = "fan" /\ h.side[s].listed \subseteq h.side[s].chunk /\ h.side[s].members = {}
  BY <1>1 DEF SideRight, SideType, NoSide
<1>3. /\ x \in SideType /\ x.kind = "fan" /\ x.phase = "admitting" /\ x.gone = h.side[s].gone
      /\ x.listed = h.side[s].listed \cup {d}
      /\ x.chunk = h.side[s].chunk /\ x.members = {} /\ x.alive = h.side[s].alive
      /\ x.in = h.side[s].in /\ x.retry = h.side[s].retry
  BY <1>1, <1>2, ListedIs
<1>4. FanStep(h, e, s, x)
  BY <1>1, <1>2, <1>3 DEF FanStep, SideRight, Kept
<1>5. \A c \in Decisions : FanStepOn(h, e, s, x, c)
  <2>1. ASSUME NEW c \in Decisions PROVE FanStepOn(h, e, s, x, c)
    <3>1. HeldRight(h, s, c) /\ (Open(h) => KeptOn(h, e, c))
      BY <1>1 DEF Kept
    <3>2. c \in x.listed => h.m[c].admitted
      BY <1>3, <3>1 DEF HeldRight
    <3>3. c \in x.chunk => ~h.m[c].used /\ (x.retry => h.m[c].admitted)
      BY <1>3, <3>1 DEF HeldRight
    <3>4. Open(h) /\ Pending(h, c) /\ c \in h.side[s].chunk => c \in x.listed \/ "fan" \in h.m[c].asking
      BY <1>3, <3>1 DEF KeptOn
    <3>. QED
      BY <1>3, <3>2, <3>3, <3>4 DEF FanStepOn
  <2>. QED
    BY <2>1
<1>6. Right(Put(h, s, x), n, e)
  BY <1>4, <1>5, FanStepPut, Zenon
<1>7. Served(Put(h, s, x))
  <2>1. h.side[s].kind = "fan" /\ ~h.side[s].gone => x.kind = "fan" /\ ~x.gone /\ x.phase # "idle"
    BY <1>3
  <2>. QED
    BY <1>1, <2>1, SideServed
<1>. QED
  BY <1>6, <1>7

\* FanAdmitted: settled and refused, forgotten, or listed.
LEMMA FanAdmittedStep == ASSUME GroupInv, NEW s \in Sides, NEW d \in Decisions, FanAdmitted(s, d) PROVE GroupInv'
<1>1. /\ host \in HostType /\ host.out = Null /\ Right(host, native, Null) /\ Served(host) /\ host.side[s] \in SideType
      /\ SideRight(host, s) /\ HeldRight(host, s, d) /\ host.m[d] \in MemberType
  BY InvIs DEF Right
<1>2. host.side[s].phase = "admitting" /\ d \in host.side[s].chunk
  BY Zenon DEF FanAdmitted
<1>3. host.m[d].told # "none" /\ host.m[d].spare = Null /\ ~host.m[d].used
  BY <1>1, <1>2 DEF HeldRight
<1>4. PICK h : h = [host EXCEPT !.m[d].asking = @ \ {"fan"}]
  BY Zenon
<1>5. h = With(host, d, Unasked(host.m[d], "fan"))
  BY <1>1, <1>4 DEF With, Unasked, HostType
<1>6. PICK k : k = [h EXCEPT !.m[d].admitted = TRUE, !.side[s].listed = @ \cup {d}]
  BY Zenon
<1>7. \/ Ends(SettledAs(h, d, "unsent"), Null)
      \/ ~Pending(host, d) /\ Ends(h, Null)
      \/ Ends(k, Null)
  BY <1>4, <1>6, Zenon DEF FanAdmitted, Step, Admitted
<1>8. CASE Ends(SettledAs(h, d, "unsent"), Null)
  <2>1. PICK g : g = SettledAll(host, {d}, "unsent")
    BY Zenon
  <2>2. Right(g, native, Null) /\ (Served(host) => Served(g))
    BY <1>1, <1>3, <2>1, SettledAllKeeps DEF Ended
  <2>3. Told(host, g, {d}, "unsent")
    BY <1>1, <2>1, SettledAllTold DEF Ended
  <2>4. g.m[d].told # "none" /\ ~Pending(g, d)
    BY <1>3, <2>3 DEF Told
  <2>5. PICK f : f = With(g, d, Unasked(g.m[d], "fan"))
    BY Zenon
  <2>6. Right(f, native, Null) /\ (Served(g) => Served(f))
    BY <2>2, <2>4, <2>5, FanUnasked
  <2>7. f = SettledAs(h, d, "unsent")
    <3>1. g = IF Pending(host, d) THEN [host EXCEPT !.m[d].told = "unsent"] ELSE host
      BY <1>1, <2>1, SettledAsIs DEF SettledAs
    <3>2. CASE Pending(host, d)
      <4>0. h \in HostType /\ h.m[d] = Unasked(host.m[d], "fan") /\ g \in HostType
        <5>1. Unasked(host.m[d], "fan") \in MemberType
          BY <1>1, <1>3, UnaskedIs
        <5>. QED
          BY <1>1, <1>5, <5>1, WithIs, <2>3 DEF Told
      <4>1. Pending(h, d)
        BY <1>1, <3>2, <4>0, SaysIs DEF Pending, Ended
      <4>2. g = With(host, d, Says(host.m[d], "unsent"))
        BY <1>1, <2>1, <3>2, SettledAsIs, SettledWith
      <4>3. SettledAs(h, d, "unsent") = With(h, d, Says(h.m[d], "unsent"))
        BY <4>0, <4>1, SettledWith
      <4>4. h.m[d] = Unasked(host.m[d], "fan") /\ g.m[d] = Says(host.m[d], "unsent")
        BY <1>1, <4>0, <4>2, WithIs
      <4>5. f = With(host, d, Unasked(Says(host.m[d], "unsent"), "fan"))
        BY <1>1, <2>5, <4>2, <4>4, WithWith
      <4>6. SettledAs(h, d, "unsent") = With(host, d, Says(Unasked(host.m[d], "fan"), "unsent"))
        BY <1>1, <1>5, <4>3, <4>4, WithWith
      <4>. QED
        BY <1>1, <4>5, <4>6, SaysIs DEF Ended
    <3>3. CASE ~Pending(host, d)
      <4>1. g = host /\ ~Pending(h, d)
        BY <1>1, <1>4, <3>1, <3>3 DEF HostType, MemberType, Pending
      <4>. QED
        BY <1>5, <2>5, <4>1 DEF SettledAs
    <3>. QED
      BY <3>2, <3>3
  <2>. QED
    BY <1>1, <1>8, <2>2, <2>6, <2>7, RightStep
<1>9. CASE ~Pending(host, d) /\ Ends(h, Null)
  <2>0. Pending(host, d) =>
           \A t \in Sides : d \in host.side[t].chunk /\ host.side[t].phase = "admitting" => d \in host.side[t].listed
    BY <1>9
  <2>1. Right(h, native, Null) /\ (Served(host) => Served(h))
    BY <1>1, <1>3, <1>5, <2>0, FanUnasked
  <2>. QED
    BY <1>1, <1>9, <2>1, RightStep
<1>10. CASE Ends(k, Null)
  <2>1. PICK a : a = With(host, d, Granted(host.m[d]))
    BY Zenon
  <2>2. \A t \in Sides : host.m[d].spare # t
    BY <1>3, SubagentsAssumption
  <2>3. Right(a, native, Null) /\ (Served(host) => Served(a))
    BY <1>1, <1>3, <1>10, <2>1, <2>2, GrantedKeeps
  <2>4. PICK x : x = Listed(a.side[s], d)
    BY Zenon
  <2>5. PICK b : b = Put(a, s, x)
    BY Zenon
  <2>6. a \in HostType /\ a.side = host.side /\ a.m[d].admitted /\ a.m[d].told = host.m[d].told
    <3>1. PICK y : y = Granted(host.m[d])
      BY Zenon
    <3>2. y \in MemberType /\ y.admitted /\ y.told = host.m[d].told
      BY <1>1, <1>3, <3>1, GrantedIs
    <3>. QED
      BY <1>1, <2>1, <3>1, <3>2, WithIs
  <2>7. Right(b, native, Null) /\ Served(b)
    BY <1>1, <1>2, <2>3, <2>4, <2>5, <2>6, ListedKeeps
  <2>8. b.m = a.m /\ b.side[s] = x /\ (\A t \in Sides : t = s \/ b.side[t] = a.side[t]) /\ d \in x.listed /\ b \in HostType
    <3>1. x \in SideType /\ x.listed = a.side[s].listed \cup {d}
      BY <1>1, <2>4, <2>6, ListedIs
    <3>. QED
      BY <2>5, <2>6, <3>1, PutIs
  <2>9. b.m[d].told # "none"
    BY <1>3, <2>6, <2>8
  <2>10. Pending(b, d) => \A t \in Sides : d \in b.side[t].chunk /\ b.side[t].phase = "admitting" => d \in b.side[t].listed
    <3>1. ApartOn(host, d)
      BY <1>1 DEF Right
    <3>2. \A t \in Sides : d \in host.side[t].chunk => t = s
      BY <1>2, <3>1 DEF ApartOn
    <3>. QED
      BY <2>6, <2>8, <3>2
  <2>11. PICK c : c = With(b, d, Unasked(b.m[d], "fan"))
    BY Zenon
  <2>12. Right(c, native, Null) /\ (Served(b) => Served(c))
    <3>1. Right(c, native, Null) /\ (Served(b) => Served(c))
      BY <2>7, <2>9, <2>10, <2>11, FanUnasked
    <3>. QED
      BY <3>1, Zenon
  <2>13. c = k
    <3>1. Unasked(Granted(host.m[d]), "fan") = Granted(Unasked(host.m[d], "fan"))
      BY <1>1 DEF MemberType, Granted, Unasked
    <3>2. c = With(Put(host, s, x), d, Granted(Unasked(host.m[d], "fan")))
      <4>1. b = With(Put(host, s, x), d, Granted(host.m[d]))
        BY <1>1, <2>1, <2>5, PutWith
      <4>2. Put(host, s, x) \in HostType
        <5>1. x \in SideType
          BY <1>1, <2>4, <2>6, ListedIs
        <5>. QED
          BY <1>1, <5>1, PutIs
      <4>3. b.m[d] = Granted(host.m[d])
        BY <4>1, <4>2, WithIs
      <4>. QED
        BY <2>11, <3>1, <4>1, <4>2, <4>3, WithWith
    <3>3. h \in HostType /\ h.m[d] = Unasked(host.m[d], "fan") /\ h.side = host.side
      <4>1. Unasked(host.m[d], "fan") \in MemberType
        BY <1>1, <1>3, UnaskedIs
      <4>. QED
        BY <1>1, <1>5, <4>1, WithIs
    <3>4. k = Put(With(h, d, Granted(h.m[d])), s, x)
      BY <1>6, <2>4, <2>6, <3>3 DEF Put, With, Granted, Listed, HostType
    <3>5. k = Put(With(host, d, Granted(Unasked(host.m[d], "fan"))), s, x)
      BY <1>1, <1>5, <3>3, <3>4, WithWith
    <3>. QED
      BY <1>1, <3>2, <3>5, PutWith
  <2>. QED
    BY <1>10, <2>7, <2>12, <2>13, RightStep
<1>. QED
  BY <1>7, <1>8, <1>9, <1>10

\* Called: the member's prompt is replaced with its input, once.
LEMMA CalledStep == ASSUME GroupInv, NEW s \in Sides, NEW d \in Decisions, Called(s, d) PROVE GroupInv'
<1>1. /\ host \in HostType /\ host.out = Null /\ Right(host, native, Null) /\ Served(host) /\ host.m[d] \in MemberType
      /\ host.side[s] \in SideType
      /\ MemberRight(host, d) /\ ApartOn(host, d)
      /\ \A t \in Sides : SideRight(host, t) /\ HeldRight(host, t, d)
  BY InvIs DEF Right
<1>2. /\ host.side[s].kind = "fan" /\ host.side[s].phase = "turn" /\ d \in host.side[s].members
      /\ Pending(host, d) /\ ~host.m[d].used
  BY Zenon DEF Called, Allows
<1>3. /\ host.m[d].spare = Null /\ d \in host.side[s].chunk /\ host.m[d].admitted
  BY <1>1, <1>2 DEF HeldRight, SideRight
<1>4. host.m[d].input = Whole(d) /\ ~host.m[d].delivered
  BY <1>1, <1>2, <1>3 DEF MemberRight
<1>5. ~Waits(host, d) /\ ~Batched(host, d) /\ \A t \in Sides : d \in host.side[t].chunk => t = s
  BY <1>1, <1>3 DEF ApartOn
<1>6. Null \notin Sides
  BY SubagentsAssumption
<1>7. \A t \in Sides : d \in host.side[t].members => t = s
  <2>1. ASSUME NEW t \in Sides, d \in host.side[t].members PROVE t = s
    <3>1. host.side[t].kind = "fan" /\ host.side[t].phase # "killing"
      BY <1>1, <1>2, <1>3, <1>6, <2>1 DEF HeldRight
    <3>2. host.side[t].phase = "turn"
      BY <1>1, <2>1, <3>1 DEF SideRight
    <3>3. d \in host.side[t].chunk
      BY <1>1, <2>1, <3>1, <3>2 DEF SideRight
    <3>. QED
      BY <1>5, <3>3
  <2>. QED
    BY <2>1
<1>8. PICK y : y = [host.m[d] EXCEPT !.used = TRUE]
  BY Zenon
<1>9. y \in MemberType /\ y.told = host.m[d].told /\ y.spare = host.m[d].spare /\ y.input = host.m[d].input
      /\ y.admitted = host.m[d].admitted /\ y.asking = host.m[d].asking /\ y.used /\ y.delivered = host.m[d].delivered
  BY <1>1, <1>8 DEF MemberType
<1>10. Sends(host, s, d, y)
  BY <1>2, <1>3, <1>4, <1>5, <1>6, <1>7, <1>9 DEF Sends
<1>11. PICK k : k = [host EXCEPT !.m[d] = y, !.out = [to |-> d, on |-> s, text |-> Whole(d)]]
  BY Zenon
<1>12. Ends(k, Null)
  <2>1. k = [host EXCEPT !.m[d].used = TRUE, !.out = [to |-> d, on |-> s, text |-> host.m[d].input]]
    <3>1. host.m[d].input = Whole(d)
      BY <1>4
    <3>. QED
      BY <1>1, <1>8, <1>11, <3>1 DEF HostType
  <2>. QED
    BY <2>1, Zenon DEF Called, Step
<1>. QED
  BY <1>1, <1>10, <1>11, <1>12, SendStep, Zenon

\* A subagent is over.
LEMMA OverKeeps ==
    ASSUME NEW h, NEW n, NEW e, Right(h, n, e), NEW d \in Decisions, n[d].run # "none", NEW m, m = Over(n, d)
    PROVE  /\ Right(h, m, e) /\ m[d].run = "over" /\ m[d].got = n[d].got
           /\ \A g : Rest(g, n) => Rest(g, m)
<1>1. n \in NativeType /\ Kept(h, e) /\ e \in Sides \cup {Null} /\ \A c \in Decisions : AgreeOn(h, n, e, c)
  BY DEF Right, Typed
<1>2. /\ m \in NativeType /\ m[d] = [n[d] EXCEPT !.run = "over"] /\ m[d].run = "over" /\ m[d].got = n[d].got
      /\ \A c \in Decisions : c = d \/ m[c] = n[c]
  BY <1>1 DEF Over, NativeType
<1>3. AgreeOn(h, m, e, d)
  BY <1>1, <1>2, OverAgrees
<1>4. \A c \in Decisions : AgreeOn(h, m, e, c)
  <2>1. ASSUME NEW c \in Decisions, c # d PROVE AgreeOn(h, m, e, c)
    <3>1. m[c] = n[c] /\ AgreeOn(h, n, e, c)
      BY <1>1, <1>2, <2>1
    <3>. QED
      BY <3>1 DEF AgreeOn, Runs
  <2>. QED
    BY <1>3, <2>1
<1>5. Right(h, m, e)
  BY <1>1, <1>2, <1>4, NativeKeeps
<1>6. ASSUME NEW g, Rest(g, n) PROVE Rest(g, m)
  BY <1>2, <1>6 DEF Rest
<1>. QED
  BY <1>2, <1>5, <1>6

\* Notified: the member's subagent is over, and the decision with it.
LEMMA NotifiedStep == ASSUME GroupInv, NEW s \in Sides, NEW d \in Decisions, Notified(s, d) PROVE GroupInv'
<1>1. /\ host \in HostType /\ Right(host, native, Null) /\ Served(host) /\ Rest(host, native) /\ host.m[d] \in MemberType
      /\ AgreeOn(host, native, Null, d)
  BY InvIs DEF Right
<1>2. RunsOn(s, d) /\ UNCHANGED spec
  BY Zenon DEF Notified
<1>3. PICK m : m = Over(native, d)
  BY Zenon
<1>4. native' = m
  BY <1>3, Zenon DEF Notified, Over
<1>5. /\ Right(host, m, Null) /\ m[d].run = "over" /\ m[d].got = native[d].got /\ Rest(host, m)
  BY <1>1, <1>2, <1>3, OverKeeps DEF RunsOn
<1>6. PICK what \in {"answered", "over"} : host' = SettledAs(host, d, what) /\ (what = "answered" => ~host.m[d].bad)
  <2>1. PICK completed \in BOOLEAN : host' = SettledBy(host, d, completed)
    BY DEF Notified
  <2>2. PICK w : w = IF completed /\ ~host.m[d].bad THEN "answered" ELSE "over"
    BY Zenon
  <2>3. host' = SettledAs(host, d, w)
    BY <2>1, <2>2, Zenon DEF SettledBy
  <2>. QED
    BY <2>2, <2>3
<1>7. what = "answered" => m[d].got = Whole(d)
  BY <1>1, <1>2, <1>5, <1>6 DEF AgreeOn, RunsOn
<1>8. PICK g : g = SettledAll(host, {d}, what)
  BY Zenon
<1>9. host' = g /\ what \in Ended
  BY <1>1, <1>6, <1>8, SettledAsIs DEF Ended
<1>10. ~Runs(host, m, Null, d) /\ what # "unsent"
  BY <1>5, <1>6 DEF Runs
<1>11. \A c \in {d} \cap Decisions : Pending(host, c) =>
              /\ what = "unsent" => ~host.m[c].used
              /\ what \in {"answered", "over"} => ~Runs(host, m, Null, c)
              /\ what = "answered" => m[c].got = Whole(c)
  BY <1>7, <1>10
<1>12. Right(g, m, Null) /\ (Served(host) => Served(g))
  BY <1>5, <1>8, <1>9, <1>11, SettledAllKeeps, Zenon
<1>13. g.side = host.side
  BY <1>1, <1>8, <1>9, SettledAllIs
<1>14. Rest(g, m)
  BY <1>5, <1>13 DEF Rest
<1>. QED
  BY <1>1, <1>2, <1>4, <1>9, <1>12, <1>14, InvNext

\* TaskStarted: what is seen of a subagent says whether it has its input.
LEMMA TaskStartedStep == ASSUME GroupInv, NEW s \in Sides, NEW d \in Decisions, TaskStarted(s, d) PROVE GroupInv'
<1>1. /\ host \in HostType /\ host.out = Null /\ Right(host, native, Null) /\ Served(host) /\ Rest(host, native)
      /\ host.m[d] \in MemberType /\ native \in NativeType
      /\ MemberRight(host, d) /\ AgreeOn(host, native, Null, d)
  BY InvIs DEF Right
<1>2. native[d].run = "running" /\ native[d].on = s /\ UNCHANGED spec /\ ~host.m[d].task /\ ~host.side[s].gone
  BY Zenon DEF TaskStarted, RunsOn, Talks
<1>3. PICK same \in BOOLEAN : /\ host' = [host EXCEPT !.m[d].task = TRUE, !.m[d].bad = ~same]
                              /\ native' = [native EXCEPT ![d].got = IF same THEN @ ELSE <<"other">>]
  <2>1. \E same \in {TRUE} \cup (IF Fault("tampers") THEN {FALSE} ELSE {}) :
              /\ host' = [host EXCEPT !.m[d].task = TRUE, !.m[d].bad = ~same]
              /\ native' = [native EXCEPT ![d].got = IF same THEN @ ELSE <<"other">>]
    BY Zenon DEF TaskStarted
  <2>2. \A same \in {TRUE} \cup (IF Fault("tampers") THEN {FALSE} ELSE {}) : same \in BOOLEAN
    OBVIOUS
  <2>. QED
    BY <2>1, <2>2, Zenon
<1>4. host.m[d].used /\ host.m[d].told # "none"
  BY <1>1, <1>2 DEF AgreeOn, MemberRight, Blank
<1>5. PICK y : y = Started(host.m[d], same)
  BY Zenon
<1>6. PICK g : g = With(host, d, y)
  BY Zenon
<1>7. host' = g
  BY <1>1, <1>3, <1>5, <1>6 DEF With, Started, HostType
<1>8. y \in MemberType /\ SameMember(host.m[d], y) /\ y.admitted = host.m[d].admitted /\ y.asking = host.m[d].asking
      /\ y.told = host.m[d].told /\ y.spare = host.m[d].spare /\ y.used = host.m[d].used /\ y.task /\ (y.bad <=> ~same)
  <2>1. host.m[d] \in MemberType /\ host.m[d].told # "none" /\ ~host.m[d].task
    BY <1>1, <1>2, <1>4
  <2>2. PICK x : x = host.m[d]
    BY Zenon
  <2>3. x \in MemberType /\ x.told # "none" /\ ~x.task /\ y = Started(x, same)
    BY <1>5, <2>1, <2>2
  <2>4. /\ y \in MemberType /\ SameMember(x, y) /\ y.admitted = x.admitted /\ y.asking = x.asking
        /\ y.told = x.told /\ y.spare = x.spare /\ y.used = x.used /\ y.task /\ (y.bad <=> ~same)
    BY <2>3 DEF Started, MemberType, SameMember
  <2>. QED
    BY <2>2, <2>4
<1>9. Aside(host, g)
  BY <1>1, <1>6, <1>8, WithAside
<1>10. Right(g, native, Null) /\ Served(g)
  BY <1>1, <1>9, AsideKeeps
<1>11. g.side = host.side /\ g.m[d] = y
  BY <1>1, <1>6, WithIs
<1>12. CASE same
  <2>1. native' = native
    BY <1>1, <1>3, <1>12 DEF NativeType
  <2>2. Rest(g, native)
    BY <1>1, <1>11 DEF Rest
  <2>. QED
    BY <1>2, <1>7, <1>10, <2>1, <2>2, InvNext
<1>13. CASE ~same
  <2>1. PICK m : m = Heeds(native, d)
    BY Zenon
  <2>2. native' = m
    BY <1>3, <1>13, <2>1, Zenon DEF Heeds
  <2>3. <<"other">> \in Text
    BY DEF Text
  <2>4. /\ m \in NativeType /\ m[d].run = native[d].run /\ m[d].on = native[d].on /\ m[d].runs = native[d].runs
        /\ \A c \in Decisions : c = d \/ m[c] = native[c]
    BY <1>1, <2>1, <2>3 DEF NativeType, Heeds
  <2>5. Kept(g, Null) /\ \A c \in Decisions : AgreeOn(g, native, Null, c)
    BY <1>10 DEF Right
  <2>6. Runs(g, native, Null, d)
    BY <1>2, <1>11, SubagentsAssumption DEF Runs
  <2>7. AgreeOn(g, native, Null, d)
    BY <2>5
  <2>8. y.told # "answered"
    BY <1>11, <2>6, <2>7 DEF AgreeOn
  <2>9. Runs(g, m, Null, d) <=> Runs(g, native, Null, d)
    BY <2>4 DEF Runs
  <2>10. AgreeOn(g, m, Null, d)
    BY <1>8, <1>11, <1>13, <2>4, <2>7, <2>8, <2>9 DEF AgreeOn
  <2>11. \A c \in Decisions : AgreeOn(g, m, Null, c)
    <3>1. ASSUME NEW c \in Decisions, c # d PROVE AgreeOn(g, m, Null, c)
      <4>1. m[c] = native[c] /\ AgreeOn(g, native, Null, c)
        BY <2>4, <2>5, <3>1
      <4>. QED
        BY <4>1 DEF AgreeOn, Runs
    <3>. QED
      BY <2>10, <3>1
  <2>12. Right(g, m, Null)
    BY <1>10, <2>4, <2>5, <2>11, NativeKeeps
  <2>13. Rest(g, m)
    BY <1>1, <1>2, <1>11, <2>4 DEF Rest
  <2>. QED
    BY <1>2, <1>7, <1>10, <2>2, <2>12, <2>13, InvNext
<1>. QED
  BY <1>12, <1>13

----------------------------------------------------------------------------
(* A spare                                                                  *)

\* What Spared changes.
LEMMA SparedIs ==
    ASSUME NEW h \in HostType, NEW s \in Sides, NEW r \in Roles, NEW y
    PROVE  /\ Spared(h, s, r, y).waiting = h.waiting /\ Spared(h, s, r, y).group = h.group
           /\ Spared(h, s, r, y).closed = h.closed /\ Spared(h, s, r, y).batch = h.batch
           /\ Spared(h, s, r, y).timer = h.timer /\ Spared(h, s, r, y).out = h.out
           /\ Spared(h, s, r, y).side = h.side /\ Spared(h, s, r, y).m = h.m
           /\ Spared(h, s, r, y).spare[s][r] = y
           /\ \A q \in Roles : q = r \/ Spared(h, s, r, y).spare[s][q] = h.spare[s][q]
           /\ \A t \in Sides : t = s \/ Spared(h, s, r, y).spare[t] = h.spare[t]
           /\ y \in SpareType => Spared(h, s, r, y) \in HostType
BY DEF Spared, HostType

\* A spare moves on with its decision.
LEMMA SparedKeeps ==
    ASSUME NEW h, NEW n, NEW e, Right(h, n, e), NEW s \in Sides, NEW r \in Roles, NEW y, SameSpare(h.spare[s][r], y),
           h.side[s].kind = "standby", h.side[s].phase = "turn", NEW g, g = Spared(h, s, r, y)
    PROVE  Right(g, n, e) /\ (Served(h) => Served(g))
<1>1. /\ h \in HostType /\ h.out = Null /\ SideRight(h, s) /\ Kept(h, e)
      /\ \A q \in Roles : SpareRight(h, s, q)
      /\ \A d \in Decisions : HeldRight(h, s, d) /\ (Open(h) => KeptOn(h, e, d))
  BY DEF Right, Typed, Kept
<1>2. /\ g \in HostType /\ g.waiting = h.waiting /\ g.group = h.group /\ g.closed = h.closed /\ g.batch = h.batch
      /\ g.timer = h.timer /\ g.out = Null /\ g.side = h.side /\ g.m = h.m /\ g.spare[s][r] = y
      /\ \A q \in Roles : q = r \/ g.spare[s][q] = h.spare[s][q]
      /\ \A t \in Sides : t = s \/ g.spare[t] = h.spare[t]
  BY <1>1, SparedIs DEF SameSpare
<1>3. OneSide(h, g, s)
  BY <1>2 DEF OneSide, Open
<1>4. SideRight(g, s)
  BY <1>1, <1>2 DEF SideRight
<1>5. \A q \in Roles : SpareRight(g, s, q)
  <2>1. ASSUME NEW q \in Roles PROVE SpareRight(g, s, q)
    <3>1. SpareRight(h, s, q)
      BY <1>1
    <3>2. CASE q = r
      BY <1>2, <3>1, <3>2 DEF SpareRight, SameSpare
    <3>3. CASE q # r
      BY <1>2, <3>1, <3>3 DEF SpareRight
    <3>. QED
      BY <3>2, <3>3
  <2>. QED
    BY <2>1
<1>6. \A d \in Decisions : OneFor(h, g, n, e, s, d)
  <2>1. ASSUME NEW d \in Decisions PROVE OneFor(h, g, n, e, s, d)
    <3>1. HeldRight(h, s, d) /\ (Open(h) => KeptOn(h, e, d))
      BY <1>1
    <3>2. HeldRight(g, s, d)
      BY <1>2, <3>1 DEF HeldRight, Pending
    <3>3. Waits(g, d) <=> Waits(h, d)
      BY <1>2 DEF Waits
    <3>4. Ours(h, d) /\ h.m[d].spare = s => Ours(g, d)
      <4>1. Role(d) \in Roles => g.spare[s][Role(d)].member = h.spare[s][Role(d)].member
        BY <1>2 DEF SameSpare
      <4>2. Role(d) \in Roles
        BY SubagentsAssumption DEF Right, Typed, Role
      <4>. QED
        BY <1>2, <4>1, <4>2 DEF Ours
    <3>5. Open(g) <=> Open(h)
      BY <1>2 DEF Open
    <3>. QED
      BY <1>2, <3>1, <3>2, <3>3, <3>4, <3>5 DEF OneFor, KeptOn
  <2>. QED
    BY <2>1
<1>7. Open(g) /\ g.side[s].in /\ g.side[s].gone => s = e
  BY <1>1, <1>2 DEF Kept, Open
<1>8. Right(g, n, e)
  BY <1>3, <1>4, <1>5, <1>6, <1>7, SideKeeps, Zenon
<1>9. Served(h) => Served(g)
  BY <1>2, ServedStays DEF Open, Serves, Busy
<1>. QED
  BY <1>8, <1>9

\* A spare in use belongs to a standby turn.
LEMMA SpareHeld ==
    ASSUME NEW h, NEW n, NEW e, Right(h, n, e), NEW s \in Sides, NEW r \in Roles
    PROVE  /\ h.spare[s][r].used => h.side[s].kind = "standby" /\ h.side[s].phase = "turn"
           /\ Held(h.spare[s][r]) => h.side[s].kind = "standby" /\ h.side[s].phase \in {"ready", "turn"}
           /\ h.spare[s][r] \in SpareType
<1>1. SpareRight(h, s, r) /\ h.spare[s][r] \in SpareType
  BY DEF Right, Typed, HostType
<1>. QED
  BY <1>1 DEF SpareRight, NoSpare, Held

\* What may happen to a spare that keeps its decision.
LEMMA SpareChanges ==
    ASSUME NEW x \in SpareType, x.pending => x.used
    PROVE  /\ SameSpare(x, Does(x)) /\ SameSpare(x, Spoilt(x)) /\ SameSpare(x, Done(x))
           /\ x.used => SameSpare(x, Asking(x)) /\ Asking(x).pending
BY DEF SameSpare, Does, Spoilt, Asking, Done, SpareType

\* SpareStarts: a flag of the spare.
LEMMA SpareStartsStep == ASSUME GroupInv, NEW s \in Sides, NEW r \in Roles, SpareStarts(s, r) PROVE GroupInv'
<1>1. /\ host \in HostType /\ Right(host, native, Null) /\ Served(host)
      /\ SpareRight(host, s, r) /\ host.spare[s][r] \in SpareType
  BY InvIs DEF Right, HostType
<1>2. host.side[s].phase = "turn" /\ Held(host.spare[s][r]) /\ Ends([host EXCEPT !.spare[s][r].used = TRUE], Null)
  BY Zenon DEF SpareStarts, Step
<1>3. PICK y : y = Does(host.spare[s][r])
  BY Zenon
<1>4. PICK g : g = Spared(host, s, r, y)
  BY Zenon
<1>5. Ends(g, Null)
  <2>1. g = [host EXCEPT !.spare[s][r].used = TRUE]
    BY <1>1, <1>3, <1>4 DEF HostType, Spared, Does
  <2>. QED
    BY <1>2, <2>1, Zenon
<1>6. SameSpare(host.spare[s][r], y)
  BY <1>1, <1>3, SpareChanges DEF SpareRight
<1>7. host.side[s].kind = "standby"
  BY <1>1, <1>2, SpareHeld
<1>8. Right(g, native, Null) /\ (Served(host) => Served(g))
  BY <1>1, <1>2, <1>4, <1>6, <1>7, SparedKeeps
<1>. QED
  BY <1>1, <1>5, <1>8, RightStep

\* Acts: a flag of the spare, or of the member.
LEMMA ActsStep == ASSUME GroupInv, NEW s \in Sides, NEW r \in Roles, Acts(s, r) PROVE GroupInv'
<1>1. /\ host \in HostType /\ host.out = Null /\ Right(host, native, Null) /\ Served(host)
      /\ SpareRight(host, s, r) /\ host.spare[s][r] \in SpareType
      /\ \A d \in Decisions : /\ host.m[d] \in MemberType /\ MemberRight(host, d) /\ AgreeOn(host, native, Null, d)
      /\ host.side[s].members \subseteq Decisions
  BY InvIs DEF Right, HostType, SideType
<1>2. \/ host.spare[s][r].used /\ Ends([host EXCEPT !.spare[s][r].bad = TRUE], Null)
      \/ \E d \in host.side[s].members : RunsOn(s, d) /\ ~host.m[d].bad /\ Ends([host EXCEPT !.m[d].bad = TRUE], Null)
  BY Zenon DEF Acts, Step
<1>3. CASE host.spare[s][r].used /\ Ends([host EXCEPT !.spare[s][r].bad = TRUE], Null)
  <2>3. PICK y : y = Spoilt(host.spare[s][r])
    BY Zenon
  <2>4. PICK g : g = Spared(host, s, r, y)
    BY Zenon
  <2>5. Ends(g, Null)
    <3>1. g = [host EXCEPT !.spare[s][r].bad = TRUE]
      BY <1>1, <2>3, <2>4 DEF HostType, Spared, Spoilt
    <3>. QED
      BY <1>3, <3>1, Zenon
  <2>6. SameSpare(host.spare[s][r], y)
    BY <1>1, <2>3, SpareChanges DEF SpareRight
  <2>7. host.side[s].kind = "standby" /\ host.side[s].phase = "turn"
    BY <1>1, <1>3, SpareHeld
  <2>8. Right(g, native, Null) /\ (Served(host) => Served(g))
    BY <1>1, <2>4, <2>6, <2>7, SparedKeeps
  <2>. QED
    BY <1>1, <2>5, <2>8, RightStep
<1>4. CASE \E d \in host.side[s].members : RunsOn(s, d) /\ ~host.m[d].bad /\ Ends([host EXCEPT !.m[d].bad = TRUE], Null)
  <2>1. PICK d \in host.side[s].members : RunsOn(s, d) /\ ~host.m[d].bad /\ Ends([host EXCEPT !.m[d].bad = TRUE], Null)
    BY <1>4, Zenon
  <2>2. d \in Decisions
    BY <1>1
  <2>3. host.m[d].told # "none" /\ host.m[d] \in MemberType
    BY <1>1, <2>1, <2>2 DEF AgreeOn, MemberRight, Blank, RunsOn
  <2>4. PICK y : y = [host.m[d] EXCEPT !.bad = TRUE]
    BY Zenon
  <2>5. y \in MemberType /\ SameMember(host.m[d], y) /\ y.admitted = host.m[d].admitted /\ y.asking = host.m[d].asking
    BY <2>1, <2>3, <2>4 DEF MemberType, SameMember
  <2>6. PICK g : g = With(host, d, y)
    BY Zenon
  <2>7. Ends(g, Null)
    <3>1. g = [host EXCEPT !.m[d].bad = TRUE]
      BY <1>1, <2>2, <2>4, <2>6 DEF HostType, With
    <3>. QED
      BY <2>1, <3>1, Zenon
  <2>8. Aside(host, g)
    BY <1>1, <2>2, <2>5, <2>6, WithAside
  <2>. QED
    BY <2>7, <2>8, AsideStep
<1>. QED
  BY <1>2, <1>3, <1>4

\* The member whose input is written.
LEMMA HandedIs ==
    ASSUME NEW x \in MemberType, NEW y, y = Handed(x)
    PROVE  y \in MemberType /\ y.told = x.told /\ y.spare = x.spare /\ y.input = x.input
           /\ y.admitted = x.admitted /\ y.asking = x.asking /\ y.used /\ y.delivered
BY DEF Handed, MemberType

\* A moment call that can be answered is answered with the whole input.
LEMMA DeliverableSends ==
    ASSUME NEW h, NEW n, NEW e, Right(h, n, e), NEW s \in Sides, NEW r \in Roles, NEW d, Deliverable(h, s, r, d),
           NEW y, y = Handed(h.m[d])
    PROVE  d \in Decisions /\ Sends(h, s, d, y) /\ <<h.spare[s][r].ctx>> \o h.m[d].input = Whole(d)
<1>1. /\ h \in HostType /\ h.spare[s][r] \in SpareType /\ SpareRight(h, s, r)
      /\ \A c \in Decisions : h.m[c] \in MemberType /\ MemberRight(h, c) /\ ApartOn(h, c)
      /\ \A t \in Sides, c \in Decisions : HeldRight(h, t, c)
  BY DEF Right, Typed, HostType
<1>2. /\ d # Null /\ h.spare[s][r].member = d /\ Pending(h, d) /\ h.spare[s][r].pending /\ ~h.m[d].delivered
      /\ h.m[d].admitted
  BY DEF Deliverable
<1>3. d \in Decisions
  BY <1>1, <1>2 DEF SpareType
<1>4. h.m[d].spare = s /\ Role(d) = r /\ h.spare[s][r].ctx = Wants(d) /\ s # Null
  BY <1>1, <1>2, SubagentsAssumption DEF SpareRight
<1>5. ~h.m[d].used /\ h.m[d].input = <<"input">> /\ Wants(d) # Null
  BY <1>1, <1>2, <1>3, <1>4 DEF MemberRight
<1>6. <<h.spare[s][r].ctx>> \o h.m[d].input = Whole(d)
  <2>1. Rejoined(h, d) = Whole(d)
    BY <1>1, <1>3, <1>5, RejoinedIs
  <2>. QED
    BY <1>4, <2>1, Zenon DEF Rejoined
<1>7. ~Waits(h, d) /\ ~Batched(h, d)
  BY <1>1, <1>3, <1>4 DEF ApartOn
<1>8. \A t \in Sides : /\ d \in h.side[t].members => t = s
                       /\ d \in h.side[t].chunk => h.side[t].phase = "turn"
  BY <1>1, <1>3, <1>4 DEF HeldRight
<1>9. y \in MemberType /\ y.told = h.m[d].told /\ y.spare = h.m[d].spare /\ y.input = h.m[d].input
           /\ y.admitted = h.m[d].admitted /\ y.asking = h.m[d].asking /\ y.used /\ y.delivered
  BY <1>1, <1>3, HandedIs
<1>10. Sends(h, s, d, y)
  BY <1>2, <1>4, <1>5, <1>7, <1>8, <1>9 DEF Sends
<1>. QED
  BY <1>3, <1>6, <1>10

\* The host that writes it.
LEMMA GivenOut ==
    ASSUME NEW h \in HostType, NEW d \in Decisions, NEW y, y = Handed(h.m[d]), NEW o,
           NEW k, k = [h EXCEPT !.m[d].delivered = TRUE, !.m[d].used = TRUE, !.m[d].task = TRUE, !.out = o]
    PROVE  WithOut(h, d, y, o, k)
BY DEF Handed, HostType, WithOut

\* A held moment call, answered or not.
LEMMA DeliverKeeps ==
    ASSUME NEW h, Right(h, native, Null), Served(h), NEW s \in Sides, NEW r \in Roles, NEW k, k = Deliver(h, s, r)
    PROVE  \/ Right(k, native, Null) /\ Served(k)
           \/ k.spare[s][r].member # Null /\ (Ends(k, Null) => GroupInv')
<1>. PICK d : d = h.spare[s][r].member
  BY Zenon
<1>1. h \in HostType /\ h.spare[s][r] \in SpareType
  BY DEF Right, Typed, HostType
<1>2. CASE ~Deliverable(h, s, r, d)
  <2>1. k = h
    BY <1>2, Zenon DEF Deliver, Deliverable, Given
  <2>. QED
    BY <2>1
<1>3. CASE Deliverable(h, s, r, d) /\ h.spare[s][r].bad
  <2>1. k = FallbackAll(h, {d})
    BY <1>3, Zenon DEF Deliver, Deliverable, Given, Fallback
  <2>2. {d} \in SUBSET Decisions
    BY <1>1, <1>3 DEF Deliverable, SpareType
  <2>3. PICK ds \in SUBSET Decisions : ds = {d}
    BY <2>2
  <2>4. Right(FallbackAll(h, ds), native, Null) /\ (Served(h) => Served(FallbackAll(h, ds)))
    BY FallbackAllKeeps
  <2>. QED
    BY <2>1, <2>3, <2>4
<1>4. CASE Deliverable(h, s, r, d) /\ ~h.spare[s][r].bad
  <2>1. PICK y : y = Handed(h.m[d])
    BY Zenon
  <2>2. d \in Decisions /\ Sends(h, s, d, y) /\ <<h.spare[s][r].ctx>> \o h.m[d].input = Whole(d)
    BY <1>4, <2>1, DeliverableSends, Zenon
  <2>3. PICK f : f = [h EXCEPT !.m[d] = y, !.out = [to |-> d, on |-> s, text |-> Whole(d)]]
    BY Zenon
  <2>4. k = f
    <3>1. k = [h EXCEPT !.m[d].delivered = TRUE, !.m[d].used = TRUE, !.m[d].task = TRUE,
                        !.out = [to |-> d, on |-> s, text |-> <<h.spare[s][r].ctx>> \o h.m[d].input]]
      BY <1>4, Zenon DEF Deliver, Deliverable, Given
    <3>2. PICK o : o = [to |-> d, on |-> s, text |-> <<h.spare[s][r].ctx>> \o h.m[d].input]
      BY Zenon
    <3>3. k = [h EXCEPT !.m[d].delivered = TRUE, !.m[d].used = TRUE, !.m[d].task = TRUE, !.out = o]
      BY <3>1, <3>2, Zenon
    <3>4. o = [to |-> d, on |-> s, text |-> Whole(d)]
      BY <2>2, <3>2, Zenon
    <3>5. f = [h EXCEPT !.m[d] = y, !.out = o]
      BY <2>3, <3>4, Zenon
    <3>6. d \in Decisions
      BY <2>2, Zenon
    <3>7. WithOut(h, d, y, o, k)
      BY <1>1, <2>1, <3>3, <3>6, GivenOut, Zenon
    <3>. QED
      BY <3>5, <3>7, Zenon DEF WithOut
  <2>5. Ends(f, Null) => GroupInv'
    BY <2>2, <2>3, SendStep, Zenon
  <2>6. f.spare = h.spare
    BY <1>1, <2>3 DEF HostType
  <2>. QED
    BY <1>4, <2>4, <2>5, <2>6 DEF Deliverable
<1>. QED
  BY <1>2, <1>3, <1>4

\* Moment: the call is held, answered, or its decision falls back.
LEMMA MomentStep == ASSUME GroupInv, NEW s \in Sides, NEW r \in Roles, Moment(s, r) PROVE GroupInv'
<1>1. /\ host \in HostType /\ Right(host, native, Null) /\ Served(host)
      /\ SpareRight(host, s, r) /\ host.spare[s][r] \in SpareType
  BY InvIs DEF Right, HostType
<1>2. host.spare[s][r].used
  BY Zenon DEF Moment
<1>3. PICK y : y = Asking(host.spare[s][r])
  BY Zenon
<1>4. PICK h : h = Spared(host, s, r, y)
  BY Zenon
<1>5. PICK k : k = Deliver(h, s, r)
  BY Zenon
<1>6. Ends(IF k.group # "released" /\ k.spare[s][r].member = Null THEN ReleaseSpent(k) ELSE k, Null)
  <2>1. h = [host EXCEPT !.spare[s][r].pending = TRUE]
    BY <1>1, <1>3, <1>4 DEF HostType, Spared, Asking
  <2>. QED
    BY <1>5, <2>1, Zenon DEF Moment, Step
<1>7. SameSpare(host.spare[s][r], y)
  BY <1>1, <1>2, <1>3, SpareChanges DEF SpareRight
<1>8. host.side[s].kind = "standby" /\ host.side[s].phase = "turn"
  BY <1>1, <1>2, SpareHeld
<1>9. Right(h, native, Null) /\ (Served(host) => Served(h))
  BY <1>1, <1>4, <1>7, <1>8, SparedKeeps
<1>10. CASE Right(k, native, Null) /\ Served(k)
  <2>1. k \in HostType
    BY <1>10 DEF Right, Typed
  <2>2. Flags(k, ReleaseSpent(k))
    BY <2>1, ReleaseSpentFlags
  <2>3. Ends(ReleaseSpent(k), Null) \/ Ends(k, Null)
    BY <1>6, Zenon
  <2>. QED
    BY <1>10, <2>2, <2>3, RightStep, FlaggedStep, Zenon
<1>11. CASE k.spare[s][r].member # Null /\ (Ends(k, Null) => GroupInv')
  BY <1>6, <1>11, Zenon
<1>. QED
  BY <1>1, <1>5, <1>9, <1>10, <1>11, DeliverKeeps

\* What follows the end of a spare keeps the invariant.
LEMMA SpareOverKeeps ==
    ASSUME NEW h, NEW n, NEW e, Right(h, n, e), NEW s \in Sides, h.side[s].kind # "none",
           NEW g, g = SpareOver(h, s)
    PROVE  Right(g, n, e) /\ (Served(h) => Served(g))
<1>1. h \in HostType /\ \A r \in Roles : SpareRight(h, s, r)
  BY DEF Right, Typed
<1>2. PICK k : k = EndDone(h, s)
  BY Zenon
<1>3. Flags(h, k)
  <2>1. Flags(h, EndStandbyNow(h, s))
    BY <1>1, EndStandbyNowFlags
  <2>2. Flags(h, EndStandby(h, s))
    BY <1>1, EndStandbyFlags
  <2>3. Flags(h, h)
    BY <1>1, FlagsSame
  <2>. QED
    BY <1>2, <2>1, <2>2, <2>3, Zenon DEF EndDone
<1>4. Right(k, n, e) /\ (Served(h) => Served(k))
  BY <1>3, FlagsKeeps
<1>5. PICK f : f = ReleaseSpent(k)
  BY Zenon
<1>6. k \in HostType
  BY <1>4 DEF Right, Typed
<1>7. Flags(k, f)
  BY <1>5, <1>6, ReleaseSpentFlags
<1>8. Right(f, n, e) /\ (Served(k) => Served(f))
  BY <1>4, <1>7, FlagsKeeps
<1>9. Right(Replenish(f), n, e) /\ (Served(f) => Served(Replenish(f)))
  BY <1>8, ReplenishKeeps
<1>10. g = k \/ g = Replenish(f)
  BY <1>2, <1>5, Zenon DEF SpareOver
<1>. QED
  BY <1>4, <1>8, <1>9, <1>10

\* A step in which a subagent that ran is over as well.
LEMMA OverStep ==
    ASSUME NEW g, NEW m, Right(g, m, Null), Served(g),
           host' = [g EXCEPT !.out = Null], native' = Heard(m, g, Null), UNCHANGED spec
    PROVE  GroupInv'
<1>1. g \in HostType /\ g.out = Null
  BY DEF Right, Typed
<1>2. host' = g
  BY <1>1 DEF HostType
<1>3. Right(g, Heard(m, g, Null), Null) /\ Rest(g, Heard(m, g, Null))
  BY HeardKeeps
<1>. QED
  BY <1>2, <1>3, InvNext

\* A decision whose subagent is over settles by how it ended.
LEMMA SettledByKeeps ==
    ASSUME NEW h, NEW n, NEW e, Right(h, n, e), NEW d \in Decisions, n[d].run # "none", NEW m, m = Over(n, d),
           NEW completed \in BOOLEAN, NEW g, g = SettledBy(h, d, completed)
    PROVE  Right(g, m, e) /\ (Served(h) => Served(g)) /\ g.side = h.side /\ g.spare = h.spare
<1>1. h \in HostType /\ AgreeOn(h, n, e, d)
  BY DEF Right, Typed
<1>2. /\ Right(h, m, e) /\ m[d].run = "over" /\ m[d].got = n[d].got
  BY OverKeeps
<1>3. PICK what \in {"answered", "over"} : g = SettledAs(h, d, what) /\ (what = "answered" => ~h.m[d].bad)
  <2>2. PICK w : w = IF completed /\ ~h.m[d].bad THEN "answered" ELSE "over"
    BY Zenon
  <2>3. g = SettledAs(h, d, w)
    BY <2>2, Zenon DEF SettledBy
  <2>. QED
    BY <2>2, <2>3
<1>4. what = "answered" => m[d].got = Whole(d)
  BY <1>1, <1>2, <1>3 DEF AgreeOn
<1>5. g = SettledAll(h, {d}, what) /\ what \in Ended
  BY <1>1, <1>3, SettledAsIs DEF Ended
<1>6. ~Runs(h, m, e, d) /\ what # "unsent"
  BY <1>2, <1>3 DEF Runs
<1>7. \A c \in {d} \cap Decisions : Pending(h, c) =>
              /\ what = "unsent" => ~h.m[c].used
              /\ what \in {"answered", "over"} => ~Runs(h, m, e, c)
              /\ what = "answered" => m[c].got = Whole(c)
  BY <1>4, <1>6
<1>8. Right(g, m, e) /\ (Served(h) => Served(g))
  <2>1. Right(SettledAll(h, {d}, what), m, e) /\ (Served(h) => Served(SettledAll(h, {d}, what)))
    BY <1>2, <1>5, <1>7, SettledAllKeeps
  <2>. QED
    BY <1>5, <2>1, Zenon
<1>9. g.side = h.side /\ g.spare = h.spare
  BY <1>1, <1>5, SettledAllIs
<1>. QED
  BY <1>8, <1>9

\* The two ways a spare ends.
LEMMA SpareNotifiedIs ==
    ASSUME NEW s \in Sides, NEW r \in Roles, SpareNotified(s, r),
           NEW h, h = [host EXCEPT !.spare[s][r].done = TRUE], NEW d, d = h.spare[s][r].member
    PROVE  \/ d # Null /\ Given(h, d) /\ \E completed \in BOOLEAN : GivenOver(h, d, s, completed)
           \/ Ends(SpareOver(IF d = Null THEN h ELSE Fallback(h, d), s), Null)
<1>1. \A b : b \in {TRUE} \cup (IF Fault("fails") \/ host.side[s].stop THEN {FALSE} ELSE {}) => b \in BOOLEAN
  OBVIOUS
<1>. QED
  BY <1>1, Zenon DEF SpareNotified, Step, Over, GivenOver

\* SpareNotified: the decision settles by how its spare ended, or falls back.
LEMMA SpareNotifiedStep == ASSUME GroupInv, NEW s \in Sides, NEW r \in Roles, SpareNotified(s, r) PROVE GroupInv'
<1>1. /\ host \in HostType /\ Right(host, native, Null) /\ Served(host)
      /\ SpareRight(host, s, r) /\ host.spare[s][r] \in SpareType
  BY InvIs DEF Right, HostType
<1>2. host.spare[s][r].used
  BY Zenon DEF SpareNotified
<1>3. PICK y : y = Done(host.spare[s][r])
  BY Zenon
<1>4. PICK h : h = Spared(host, s, r, y)
  BY Zenon
<1>5. h = [host EXCEPT !.spare[s][r].done = TRUE]
  BY <1>1, <1>3, <1>4 DEF HostType, Spared, Done
<1>6. PICK d : d = h.spare[s][r].member
  BY Zenon
<1>7. \/ d # Null /\ Given(h, d) /\ \E completed \in BOOLEAN : GivenOver(h, d, s, completed)
      \/ Ends(SpareOver(IF d = Null THEN h ELSE Fallback(h, d), s), Null)
  BY <1>5, <1>6, SpareNotifiedIs, Zenon
<1>8. SameSpare(host.spare[s][r], y)
  BY <1>1, <1>3, SpareChanges DEF SpareRight
<1>9. host.side[s].kind = "standby" /\ host.side[s].phase = "turn"
  BY <1>1, <1>2, SpareHeld
<1>10. Right(h, native, Null) /\ (Served(host) => Served(h))
  BY <1>1, <1>4, <1>8, <1>9, SparedKeeps
<1>11. h.side = host.side /\ h \in HostType /\ h.spare[s][r] \in SpareType
  <2>1. y \in SpareType
    BY <1>8 DEF SameSpare
  <2>2. h.side = host.side /\ h.spare[s][r] = y
    BY <1>1, <1>4, SparedIs
  <2>3. h \in HostType
    BY <1>10 DEF Right, Typed
  <2>. QED
    BY <2>1, <2>2, <2>3
<1>12. CASE d # Null /\ Given(h, d) /\ \E completed \in BOOLEAN : GivenOver(h, d, s, completed)
  <2>1. PICK completed \in BOOLEAN : GivenOver(h, d, s, completed)
    BY <1>12, Zenon
  <2>2. PICK f : f = SettledBy(h, d, completed)
    BY Zenon
  <2>3. PICK g : g = SpareOver(f, s)
    BY Zenon
  <2>4. PICK m : m = Over(native, d)
    BY Zenon
  <2>5. host' = [g EXCEPT !.out = Null] /\ native' = Heard(m, g, Null) /\ UNCHANGED spec
    BY <2>1, <2>2, <2>3, <2>4, Zenon DEF GivenOver
  <2>6. d \in Decisions
    BY <1>6, <1>11, <1>12 DEF SpareType
  <2>7. native[d].run # "none"
    <3>1. MemberRight(h, d) /\ AgreeOn(h, native, Null, d)
      BY <1>10, <2>6 DEF Right
    <3>. QED
      BY <1>12, <3>1 DEF MemberRight, AgreeOn, Given
  <2>8. Right(f, m, Null) /\ (Served(h) => Served(f)) /\ f.side = h.side
    BY <1>10, <2>2, <2>4, <2>6, <2>7, SettledByKeeps
  <2>9. f.side[s].kind # "none"
    BY <1>9, <1>11, <2>8
  <2>10. Right(g, m, Null) /\ (Served(f) => Served(g))
    BY <2>3, <2>8, <2>9, SpareOverKeeps
  <2>. QED
    BY <1>1, <1>10, <2>5, <2>8, <2>10, OverStep
<1>13. CASE Ends(SpareOver(IF d = Null THEN h ELSE Fallback(h, d), s), Null)
  <2>1. PICK f : f = IF d = Null THEN h ELSE Fallback(h, d)
    BY Zenon
  <2>2. PICK g : g = SpareOver(f, s)
    BY Zenon
  <2>3. Right(f, native, Null) /\ (Served(h) => Served(f)) /\ f.side[s].kind # "none"
    <3>1. CASE d = Null
      BY <1>9, <1>10, <1>11, <2>1, <3>1
    <3>2. CASE d # Null
      <4>1. d \in Decisions
        BY <1>6, <1>11, <3>2 DEF SpareType
      <4>2. PICK ds \in SUBSET Decisions : ds = {d}
        BY <4>1
      <4>3. f = FallbackAll(h, ds)
        BY <2>1, <3>2, <4>2, Zenon DEF Fallback
      <4>4. Right(f, native, Null) /\ (Served(h) => Served(f))
        BY <1>10, <4>3, FallbackAllKeeps
      <4>5. f.side[s].kind = h.side[s].kind
        BY <1>10, <4>3, FallbackAllFell DEF Fell
      <4>. QED
        BY <1>9, <1>11, <4>4, <4>5
    <3>. QED
      BY <3>1, <3>2
  <2>4. Right(g, native, Null) /\ (Served(f) => Served(g))
    BY <2>2, <2>3, SpareOverKeeps
  <2>5. Ends(g, Null)
    BY <1>13, <2>1, <2>2, Zenon
  <2>. QED
    BY <1>1, <1>10, <2>3, <2>4, <2>5, RightStep
<1>. QED
  BY <1>7, <1>12, <1>13

\* A decision that was not asked is nowhere.
LEMMA BlankIsNowhere ==
    ASSUME NEW h, NEW n, NEW e, Right(h, n, e), NEW d \in Decisions, h.m[d].told = "none"
    PROVE  Nowhere(h, n, d)
<1>1. MemberRight(h, d) /\ ApartOn(h, d) /\ AgreeOn(h, n, e, d)
  BY DEF Right
<1>2. h.m[d] = Blank
  BY <1>1 DEF MemberRight
<1>3. ~Waits(h, d) /\ ~Batched(h, d)
  BY <1>1 DEF ApartOn
<1>4. n[d].run = "none" /\ n[d].runs = 0 /\ n[d].on = Null
  BY <1>1, <1>2 DEF AgreeOn, Blank
<1>5. ASSUME NEW s \in Sides
      PROVE  /\ d \notin h.side[s].chunk /\ d \notin h.side[s].members
             /\ h.side[s].phase \in {"admitting", "turn"} => d \notin h.side[s].listed
  <2>1. HeldRight(h, s, d)
    BY DEF Right
  <2>. QED
    BY <1>2, <2>1 DEF HeldRight, Blank
<1>6. ASSUME NEW s \in Sides, NEW r \in Roles, h.spare[s][r].member = d PROVE FALSE
  <2>1. SpareRight(h, s, r) /\ s # Null /\ d # Null
    BY SubagentsAssumption DEF Right
  <2>. QED
    BY <1>2, <1>6, <2>1 DEF SpareRight, Blank
<1>. QED
  BY <1>2, <1>3, <1>4, <1>5, <1>6 DEF Nowhere

\* The batch gains the decision asked.
LEMMA AskedBatch ==
    ASSUME NEW h, NEW n, NEW d \in Decisions, h \in HostType, Nowhere(h, n, d), NEW g, NEW y, Asked(h, g, d, y)
    PROVE  /\ \A c \in Decisions : Batched(g, c) <=> Batched(h, c) \/ (c = d /\ y.told = "pending")
           /\ \A c \in Decisions : \A i, j \in 1..Len(g.batch) : g.batch[i] = c /\ g.batch[j] = c =>
                 i = j \/ (i \in 1..Len(h.batch) /\ j \in 1..Len(h.batch) /\ h.batch[i] = c /\ h.batch[j] = c)
           /\ g.batch = <<>> => h.batch = <<>>
<1>1. h.batch \in Seq(Decisions) /\ Len(h.batch) \in Nat /\ ~Batched(h, d)
  BY DEF HostType, Nowhere
<1>2. CASE y.told = "unsent"
  <2>1. g.batch = h.batch
    BY <1>2 DEF Asked
  <2>. QED
    BY <1>2, <2>1 DEF Batched
<1>3. CASE y.told = "pending"
  <2>1. g.batch = Append(h.batch, d)
    BY <1>3 DEF Asked
  <2>2. /\ Len(g.batch) = Len(h.batch) + 1 /\ g.batch[Len(h.batch) + 1] = d
        /\ \A i \in 1..Len(h.batch) : g.batch[i] = h.batch[i]
    BY <1>1, <2>1
  <2>3. \A i \in 1..Len(g.batch) : i \in 1..Len(h.batch) \/ i = Len(h.batch) + 1
    BY <1>1, <2>2
  <2>4. \A i \in 1..Len(h.batch) : i \in 1..Len(g.batch) /\ h.batch[i] # d
    BY <1>1, <2>2 DEF Batched
  <2>5. Len(h.batch) + 1 \in 1..Len(g.batch) /\ g.batch # <<>>
    BY <1>1, <2>2
  <2>6. ASSUME NEW c \in Decisions PROVE Batched(g, c) <=> Batched(h, c) \/ (c = d /\ y.told = "pending")
    BY <1>3, <2>2, <2>3, <2>4, <2>5 DEF Batched
  <2>7. ASSUME NEW c \in Decisions, NEW i \in 1..Len(g.batch), NEW j \in 1..Len(g.batch), g.batch[i] = c, g.batch[j] = c
        PROVE  i = j \/ (i \in 1..Len(h.batch) /\ j \in 1..Len(h.batch) /\ h.batch[i] = c /\ h.batch[j] = c)
    BY <2>2, <2>3, <2>4, <2>7
  <2>. QED
    BY <2>5, <2>6, <2>7
<1>. QED
  BY <1>2, <1>3 DEF Asked

\* A decision turned away, or put in the batch, keeps the invariant.
LEMMA AskedKeeps ==
    ASSUME NEW h, NEW n, NEW e, Right(h, n, e), NEW d \in Decisions, h.m[d].told = "none",
           NEW g, NEW y, Asked(h, g, d, y)
    PROVE  Right(g, n, e) /\ (Served(h) => Served(g))
<1>1. /\ h \in HostType /\ Typed(h, n, e) /\ Nowhere(h, n, d) /\ h.m \in [Decisions -> MemberType]
  BY BlankIsNowhere DEF Right, Typed, HostType
<1>2. /\ g.side = h.side /\ g.spare = h.spare /\ g.waiting = h.waiting /\ g.group = h.group /\ g.closed = h.closed
      /\ g.m[d] = y /\ (\A c \in Decisions : c = d \/ g.m[c] = h.m[c]) /\ g \in HostType /\ g.out = Null
  BY <1>1 DEF Asked
<1>3. /\ \A c \in Decisions : Batched(g, c) <=> Batched(h, c) \/ (c = d /\ y.told = "pending")
      /\ \A c \in Decisions : \A i, j \in 1..Len(g.batch) : g.batch[i] = c /\ g.batch[j] = c =>
            i = j \/ (i \in 1..Len(h.batch) /\ j \in 1..Len(h.batch) /\ h.batch[i] = c /\ h.batch[j] = c)
      /\ g.batch = <<>> => h.batch = <<>>
  BY <1>1, AskedBatch
<1>4. Typed(g, n, e)
  BY <1>1, <1>2 DEF Typed
<1>5. Null \notin Sides
  BY SubagentsAssumption
<1>6. y.told \in {"unsent", "pending"} /\ ~y.used /\ ~y.delivered /\ ~y.admitted /\ y.asking = {} /\ y.spare = Null /\ (y.told = "pending" => y.input = Whole(d))
  BY DEF Asked
<1>7. \A c \in Decisions : Pending(g, c) => c = d \/ Pending(h, c)
  BY <1>2 DEF Pending
<1>8. ASSUME NEW c \in Decisions PROVE MemberRight(g, c)
  <2>1. CASE c = d
    BY <1>2, <1>6, <2>1 DEF MemberRight, Pending
  <2>2. CASE c # d
    <3>1. MemberRight(h, c) /\ g.m[c] = h.m[c]
      BY <1>2, <2>2 DEF Right
    <3>. QED
      BY <1>2, <3>1 DEF MemberRight, Pending, Ours
  <2>. QED
    BY <2>1, <2>2
<1>9. ASSUME NEW c \in Decisions PROVE ApartOn(g, c)
  <2>1. ApartOn(h, c) /\ (Waits(g, c) <=> Waits(h, c))
    BY <1>2 DEF Right, Waits
  <2>2. \A i, j \in 1..Len(g.batch) : g.batch[i] = c /\ g.batch[j] = c => i = j
    BY <1>3, <2>1 DEF ApartOn
  <2>3. CASE c = d
    BY <1>1, <1>2, <1>6, <2>1, <2>2, <2>3 DEF ApartOn, Nowhere
  <2>4. CASE c # d
    <3>1. g.m[c] = h.m[c] /\ (Batched(g, c) <=> Batched(h, c))
      BY <1>2, <1>3, <2>4
    <3>. QED
      BY <1>2, <2>1, <2>2, <3>1 DEF ApartOn
  <2>. QED
    BY <2>3, <2>4
<1>10. ASSUME NEW c \in Decisions PROVE AgreeOn(g, n, e, c)
  <2>1. CASE c = d
    BY <1>1, <1>2, <1>6, <2>1 DEF AgreeOn, Nowhere, Runs, Asked
  <2>2. CASE c # d
    <3>1. AgreeOn(h, n, e, c) /\ g.m[c] = h.m[c]
      BY <1>2, <2>2 DEF Right
    <3>. QED
      BY <1>2, <3>1 DEF AgreeOn, Runs, Ours
  <2>. QED
    BY <2>1, <2>2
<1>11. ASSUME NEW s \in Sides, NEW r \in Roles PROVE SpareRight(g, s, r)
  <2>1. SpareRight(h, s, r) /\ h.spare[s][r].member # d /\ h.spare[s][r].member \in Decisions \cup {Null}
    BY <1>1 DEF Right, Nowhere, HostType, SpareType
  <2>. QED
    BY <1>2, <2>1 DEF SpareRight
<1>12. ASSUME NEW s \in Sides PROVE SideRight(g, s)
  BY <1>2 DEF SideRight, Right
<1>13. ASSUME NEW s \in Sides, NEW c \in Decisions PROVE HeldRight(g, s, c)
  <2>1. HeldRight(h, s, c)
    BY DEF Right
  <2>2. CASE c = d
    BY <1>1, <1>2, <2>2 DEF HeldRight, Nowhere
  <2>3. CASE c # d
    BY <1>2, <2>1, <2>3 DEF HeldRight, Pending
  <2>. QED
    BY <2>2, <2>3
<1>14. Kept(g, e)
  <2>1. SUFFICES ASSUME Open(g) PROVE Kept(g, e)
    BY DEF Kept
  <2>2. Open(h) /\ Kept(h, e)
    BY <1>2, <2>1 DEF Open, Right
  <2>3. g.batch # <<>> => g.timer
    <3>1. h.batch # <<>> => h.timer
      BY <2>2 DEF Kept
    <3>. QED
      BY <3>1 DEF Asked
  <2>4. ASSUME NEW c \in Decisions PROVE KeptOn(g, e, c)
    <3>1. CASE c = d
      BY <1>1, <1>2, <1>3, <1>5, <1>6, <3>1 DEF KeptOn, Nowhere, Pending
    <3>2. CASE c # d
      <4>1. KeptOn(h, e, c) /\ g.m[c] = h.m[c] /\ (Batched(h, c) => Batched(g, c)) /\ (Waits(h, c) => Waits(g, c))
        BY <1>2, <1>3, <2>2, <3>2 DEF Kept, Waits
      <4>. QED
        BY <1>2, <4>1 DEF KeptOn, Pending
    <3>. QED
      BY <3>1, <3>2
  <2>5. \A s \in Sides : g.side[s].in /\ g.side[s].gone => s = e
    BY <1>2, <2>2 DEF Kept
  <2>. QED
    BY <2>3, <2>4, <2>5 DEF Kept
<1>15. Served(h) => Served(g)
  BY <1>2 DEF Served, Serves, Open, Busy
<1>. QED
  BY <1>4, <1>8, <1>9, <1>10, <1>11, <1>12, <1>13, <1>14, <1>15 DEF Right

\* A decision has a role.
LEMMA RoleIs == ASSUME spec \in Specs, NEW d \in Decisions PROVE Role(d) \in Roles
BY SubagentsAssumption DEF Role

\* The spares after a reservation.
LEMMA ReservedSpares ==
    ASSUME NEW h, NEW n, NEW e, Right(h, n, e), NEW d \in Decisions, h.m[d].told = "none", NEW s \in Sides,
           NEW g, NEW y, ReservedOn(h, g, d, y, s)
    PROVE  /\ \A c \in Decisions : c = d \/ (Ours(g, c) <=> Ours(h, c))
           /\ Ours(g, d) /\ ~h.side[s].gone /\ Wants(d) # Null
           /\ \A t \in Sides, r \in Roles : SpareRight(g, t, r)
<1>1. /\ h \in HostType /\ spec \in Specs /\ Nowhere(h, n, d) /\ d # Null /\ s # Null
  BY BlankIsNowhere, SubagentsAssumption DEF Right, Typed
<1>2. Role(d) \in Roles
  BY <1>1, RoleIs
<1>3. h.spare[s][Role(d)] \in SpareType /\ h.m \in [Decisions -> MemberType]
  BY <1>1, <1>2 DEF HostType
<1>4. /\ g.m[d] = y /\ \A c \in Decisions : c = d \/ g.m[c] = h.m[c]
  BY <1>3 DEF ReservedOn
<1>5. PICK x : x = [h.spare[s][Role(d)] EXCEPT !.member = d]
  BY Zenon
<1>6. /\ x.member = d /\ x.ctx = h.spare[s][Role(d)].ctx /\ x.pending = h.spare[s][Role(d)].pending
      /\ x.used = h.spare[s][Role(d)].used
  BY <1>3, <1>5 DEF SpareType
<1>7. g.spare[s][Role(d)] = x /\ \A t \in Sides, r \in Roles : (t = s /\ r = Role(d)) \/ g.spare[t][r] = h.spare[t][r]
  BY <1>2, <1>5 DEF ReservedOn
<1>8. h.spare[s][Role(d)].member = Null /\ h.spare[s][Role(d)].ctx = Wants(d) /\ Wants(d) # Null /\ h.side[s].alive
  BY DEF ReservedOn, FreeSpare, Held
<1>9. h.side[s].kind = "standby" /\ h.side[s].phase \in {"ready", "turn"}
  BY <1>2, <1>8, SpareHeld DEF Held
<1>10. ~h.side[s].gone
  BY <1>8 DEF Right, SideRight
<1>11. y.spare = s /\ ~y.delivered /\ g.side = h.side
  BY DEF ReservedOn
<1>12. ASSUME NEW c \in Decisions, c # d PROVE Ours(g, c) <=> Ours(h, c)
  <2>1. g.m[c] = h.m[c] /\ h.m[c].spare \in Sides \cup {Null} /\ Role(c) \in Roles /\ c # Null
    BY <1>1, <1>3, <1>4, <1>12, RoleIs, SubagentsAssumption DEF MemberType
  <2>. QED
    BY <1>6, <1>7, <1>8, <1>12, <2>1 DEF Ours
<1>13. Ours(g, d)
  BY <1>1, <1>4, <1>6, <1>7, <1>11 DEF Ours
<1>14. ASSUME NEW t \in Sides, NEW r \in Roles PROVE SpareRight(g, t, r)
  <2>0. SpareRight(h, t, r) /\ h.spare[t][r].member # d /\ h.spare[t][r].member \in Decisions \cup {Null}
    BY <1>1 DEF Right, Nowhere, HostType, SpareType
  <2>1. CASE t = s /\ r = Role(d)
    <3>1. g.spare[t][r] = x
      BY <1>7, <2>1
    <3>2. h.side[t].phase = "ready" => ~x.used
      BY <1>6, <2>0, <2>1 DEF SpareRight
    <3>3. x.pending => x.used
      BY <1>6, <2>0, <2>1 DEF SpareRight
    <3>. QED
      BY <1>4, <1>6, <1>8, <1>9, <1>11, <2>1, <3>1, <3>2, <3>3 DEF SpareRight
  <2>2. CASE ~(t = s /\ r = Role(d))
    <3>1. g.spare[t][r] = h.spare[t][r]
      BY <1>7, <2>2
    <3>2. h.spare[t][r].member # Null => g.m[h.spare[t][r].member] = h.m[h.spare[t][r].member]
      BY <1>4, <2>0
    <3>. QED
      BY <1>11, <2>0, <3>1, <3>2 DEF SpareRight
  <2>. QED
    BY <2>1, <2>2
<1>. QED
  BY <1>8, <1>10, <1>12, <1>13, <1>14

\* A decision is asked on a free spare.
LEMMA ReservedKeeps ==
    ASSUME NEW h, NEW n, NEW e, Right(h, n, e), NEW d \in Decisions, h.m[d].told = "none", NEW s \in Sides,
           NEW g, NEW y, ReservedOn(h, g, d, y, s)
    PROVE  Right(g, n, e) /\ (Served(h) => Served(g))
<1>1. /\ h \in HostType /\ Typed(h, n, e) /\ Nowhere(h, n, d) /\ h.m \in [Decisions -> MemberType]
  BY BlankIsNowhere DEF Right, Typed, HostType
<1>2. /\ g.side = h.side /\ g.waiting = h.waiting /\ g.group = h.group /\ g.closed = h.closed
      /\ g.batch = h.batch /\ g.timer = h.timer
      /\ g.m[d] = y /\ (\A c \in Decisions : c = d \/ g.m[c] = h.m[c]) /\ g \in HostType /\ g.out = Null
  BY <1>1 DEF ReservedOn
<1>3. /\ \A c \in Decisions : c = d \/ (Ours(g, c) <=> Ours(h, c))
      /\ Ours(g, d) /\ ~h.side[s].gone /\ Wants(d) # Null
      /\ \A t \in Sides, r \in Roles : SpareRight(g, t, r)
  BY ReservedSpares
<1>4. Typed(g, n, e)
  BY <1>1, <1>2 DEF Typed
<1>5. Null \notin Sides
  BY SubagentsAssumption
<1>6. y.told = "pending" /\ ~y.used /\ ~y.delivered /\ ~y.admitted /\ y.spare = s /\ y.input = <<"input">>
  BY DEF ReservedOn
<1>7. \A c \in Decisions : (Waits(g, c) <=> Waits(h, c)) /\ (Batched(g, c) <=> Batched(h, c))
  BY <1>2 DEF Waits, Batched
<1>8. ASSUME NEW c \in Decisions PROVE MemberRight(g, c)
  <2>1. CASE c = d
    BY <1>2, <1>3, <1>5, <1>6, <2>1 DEF MemberRight, Pending
  <2>2. CASE c # d
    <3>1. MemberRight(h, c) /\ g.m[c] = h.m[c]
      BY <1>2, <2>2 DEF Right
    <3>. QED
      BY <1>3, <2>2, <3>1 DEF MemberRight, Pending
  <2>. QED
    BY <2>1, <2>2
<1>9. ASSUME NEW c \in Decisions PROVE ApartOn(g, c)
  <2>1. ApartOn(h, c)
    BY DEF Right
  <2>3. CASE c = d
    BY <1>1, <1>2, <1>7, <2>1, <2>3 DEF ApartOn, Nowhere
  <2>4. CASE c # d
    <3>1. g.m[c] = h.m[c]
      BY <1>2, <2>4
    <3>. QED
      BY <1>2, <1>7, <2>1, <3>1 DEF ApartOn
  <2>. QED
    BY <2>3, <2>4
<1>10. ASSUME NEW c \in Decisions PROVE AgreeOn(g, n, e, c)
  <2>1. CASE c = d
    BY <1>1, <1>2, <1>6, <2>1 DEF AgreeOn, Nowhere, Runs
  <2>2. CASE c # d
    <3>1. AgreeOn(h, n, e, c) /\ g.m[c] = h.m[c] /\ (Ours(g, c) <=> Ours(h, c))
      BY <1>2, <1>3, <2>2 DEF Right
    <3>. QED
      BY <1>2, <3>1 DEF AgreeOn, Runs
  <2>. QED
    BY <2>1, <2>2
<1>12. ASSUME NEW t \in Sides PROVE SideRight(g, t)
  BY <1>2 DEF SideRight, Right
<1>13. ASSUME NEW t \in Sides, NEW c \in Decisions PROVE HeldRight(g, t, c)
  <2>1. HeldRight(h, t, c)
    BY DEF Right
  <2>2. CASE c = d
    BY <1>1, <1>2, <2>2 DEF HeldRight, Nowhere
  <2>3. CASE c # d
    BY <1>2, <2>1, <2>3 DEF HeldRight, Pending
  <2>. QED
    BY <2>2, <2>3
<1>14. Kept(g, e)
  <2>1. SUFFICES ASSUME Open(g) PROVE Kept(g, e)
    BY DEF Kept
  <2>2. Open(h) /\ Kept(h, e)
    BY <1>2, <2>1 DEF Open, Right
  <2>3. g.batch # <<>> => g.timer
    BY <1>2, <2>2 DEF Kept
  <2>4. ASSUME NEW c \in Decisions PROVE KeptOn(g, e, c)
    <3>1. CASE c = d
      BY <1>1, <1>2, <1>3, <1>5, <1>6, <3>1 DEF KeptOn, Nowhere, Pending
    <3>2. CASE c # d
      <4>1. KeptOn(h, e, c) /\ g.m[c] = h.m[c]
        BY <1>2, <2>2, <3>2 DEF Kept
      <4>. QED
        BY <1>2, <1>7, <4>1 DEF KeptOn, Pending
    <3>. QED
      BY <3>1, <3>2
  <2>5. \A t \in Sides : g.side[t].in /\ g.side[t].gone => t = e
    BY <1>2, <2>2 DEF Kept
  <2>. QED
    BY <2>3, <2>4, <2>5 DEF Kept
<1>15. Served(h) => Served(g)
  BY <1>2 DEF Served, Serves, Open, Busy
<1>. QED
  BY <1>3, <1>4, <1>8, <1>9, <1>10, <1>12, <1>13, <1>14, <1>15 DEF Right

\* A decision is asked.
LEMMA PendsIs ==
    ASSUME NEW h \in HostType, spec \in Specs, NEW d \in Decisions, NEW k, k = Pends(h, d)
    PROVE  /\ k \in HostType /\ k.side = h.side /\ k.spare = h.spare /\ k.waiting = h.waiting /\ k.group = h.group
           /\ k.closed = h.closed /\ k.batch = h.batch /\ k.timer = h.timer /\ k.out = h.out
           /\ k.m = [h.m EXCEPT ![d].told = "pending"]
<1>1. Role(d) \in Roles
  BY RoleIs
<1>2. h.m[d] \in MemberType /\ [h.m[d] EXCEPT !.told = "pending"] \in MemberType
  <2>1. h.m[d] \in MemberType
    BY DEF HostType
  <2>. QED
    BY <2>1 DEF MemberType
<1>3. PICK m : m = [h.m EXCEPT ![d].told = "pending"]
  BY Zenon
<1>4. m \in [Decisions -> MemberType]
  BY <1>2, <1>3 DEF HostType
<1>5. PICK f : f = h.defs \cup {Role(d)}
  BY Zenon
<1>6. f \in SUBSET Roles
  BY <1>1, <1>5 DEF HostType
<1>7. k = [h EXCEPT !.m = m, !.defs = f]
  BY <1>3, <1>5 DEF Pends, HostType
<1>. QED
  BY <1>3, <1>4, <1>6, <1>7 DEF HostType

\* The member that is reserved.
LEMMA ReservedMemberIs ==
    ASSUME NEW s \in Sides, NEW y, y = ReservedMember(s)
    PROVE  /\ y \in MemberType /\ ~y.used /\ ~y.delivered /\ ~y.admitted /\ y.spare = s /\ y.told = "pending"
           /\ y.input = <<"input">>
<1>1. <<"input">> \in Text
  BY DEF Text
<1>. QED
  BY <1>1 DEF ReservedMember, Blank, MemberType

\* A change of members and spares.
LEMMA MembersAndSpares ==
    ASSUME NEW p \in HostType, NEW m \in [Decisions -> MemberType], NEW w \in [Sides -> [Roles -> SpareType]],
           NEW g, Moved(p, m, w, g)
    PROVE  /\ g \in HostType /\ g.m = m /\ g.spare = w
           /\ g.side = p.side /\ g.waiting = p.waiting /\ g.group = p.group /\ g.closed = p.closed
           /\ g.batch = p.batch /\ g.timer = p.timer /\ g.out = p.out
BY DEF HostType, Moved

\* decide() on a spare.
LEMMA ReservesIs ==
    ASSUME NEW h \in HostType, spec \in Specs, NEW d \in Decisions, h.m[d] = Blank, h.out = Null, NEW s \in Sides,
           NEW p, p = Pends(h, d), h.side[s].alive, FreeSpare(h.spare[s][Role(d)]), h.spare[s][Role(d)].ctx = Wants(d),
           NEW g, Reserving(p, d, s, g)
    PROVE  \E y : ReservedOn(h, g, d, y, s)
<1>1. /\ p \in HostType /\ p.side = h.side /\ p.spare = h.spare /\ p.waiting = h.waiting /\ p.group = h.group
      /\ p.closed = h.closed /\ p.batch = h.batch /\ p.timer = h.timer /\ p.out = h.out
      /\ p.m = [h.m EXCEPT ![d].told = "pending"]
  BY PendsIs
<1>2. Role(d) \in Roles
  BY RoleIs
<1>3. PICK y : y = ReservedMember(s)
  BY Zenon
<1>4. /\ y \in MemberType /\ ~y.used /\ ~y.delivered /\ ~y.admitted /\ y.spare = s /\ y.told = "pending"
      /\ y.input = <<"input">>
  BY <1>3, ReservedMemberIs
<1>5. h.m \in [Decisions -> MemberType] /\ p.m \in [Decisions -> MemberType]
  BY <1>1 DEF HostType
<1>6. PICK x : x = [h.spare[s][Role(d)] EXCEPT !.member = d]
  BY Zenon
<1>7. x \in SpareType
  <2>1. h.spare[s][Role(d)] \in SpareType
    BY <1>2 DEF HostType
  <2>. QED
    BY <1>6, <2>1 DEF SpareType
<1>8. PICK w : w = [p.spare EXCEPT ![s][Role(d)].member = d]
  BY Zenon
<1>9. PICK m : m = [[[p.m EXCEPT ![d].spare = s] EXCEPT ![d].asking = {"spare"}] EXCEPT ![d].asks = 1]
  BY Zenon
<1>10. m = [h.m EXCEPT ![d] = y]
  <2>1. p.m[d] = [Blank EXCEPT !.told = "pending"]
    BY <1>1, <1>5
  <2>2. m = [p.m EXCEPT ![d] = [[[p.m[d] EXCEPT !.spare = s] EXCEPT !.asking = {"spare"}] EXCEPT !.asks = 1]]
    BY <1>5, <1>9
  <2>3. [[[p.m[d] EXCEPT !.spare = s] EXCEPT !.asking = {"spare"}] EXCEPT !.asks = 1] = y
    BY <1>3, <2>1 DEF ReservedMember, Blank
  <2>4. m = [p.m EXCEPT ![d] = y]
    BY <2>2, <2>3
  <2>. QED
    BY <1>1, <1>5, <2>4
<1>11. m \in [Decisions -> MemberType]
  BY <1>4, <1>5, <1>10
<1>12. \A t \in Sides, r \in Roles : w[t][r] = IF t = s /\ r = Role(d) THEN x ELSE h.spare[t][r]
  BY <1>1, <1>2, <1>6, <1>8 DEF HostType
<1>13. w \in [Sides -> [Roles -> SpareType]]
  <2>1. h.spare \in [Sides -> [Roles -> SpareType]]
    BY DEF HostType
  <2>2. w = [p.spare EXCEPT ![s] = [p.spare[s] EXCEPT ![Role(d)] = [p.spare[s][Role(d)] EXCEPT !.member = d]]]
    BY <1>8
  <2>3. [p.spare[s][Role(d)] EXCEPT !.member = d] = x
    BY <1>1, <1>6
  <2>4. w = [h.spare EXCEPT ![s] = [h.spare[s] EXCEPT ![Role(d)] = x]]
    BY <1>1, <2>2, <2>3
  <2>. QED
    BY <1>2, <1>7, <2>1, <2>4
<1>14. Moved(p, m, w, g)
  <2>1. g = [p EXCEPT !.m = m, !.spare = w]
    BY <1>1, <1>8, <1>9 DEF HostType, Reserving
  <2>. QED
    BY <2>1, Zenon DEF Moved
<1>15. p \in HostType
  BY <1>1
<1>16. /\ g \in HostType /\ g.m = m /\ g.spare = w
       /\ g.side = p.side /\ g.waiting = p.waiting /\ g.group = p.group /\ g.closed = p.closed
       /\ g.batch = p.batch /\ g.timer = p.timer /\ g.out = p.out
  BY <1>11, <1>13, <1>14, <1>15, MembersAndSpares
<1>17. \A t \in Sides, r \in Roles : g.spare[t][r] =
          IF t = s /\ r = Role(d) THEN [h.spare[t][r] EXCEPT !.member = d] ELSE h.spare[t][r]
  BY <1>6, <1>12, <1>16
<1>18. ReservedOn(h, g, d, y, s)
  BY <1>1, <1>4, <1>10, <1>16, <1>17 DEF ReservedOn
<1>. QED
  BY <1>18

\* The batch and its timer.
LEMMA QueueIs ==
    ASSUME NEW k \in HostType, NEW d \in Decisions, NEW f, f = Queue(k, d)
    PROVE  /\ f \in HostType /\ f.batch = Append(k.batch, d) /\ f.timer
           /\ f.m = k.m /\ f.side = k.side /\ f.spare = k.spare /\ f.waiting = k.waiting /\ f.group = k.group
           /\ f.closed = k.closed /\ f.out = k.out
<1>1. Append(k.batch, d) \in Seq(Decisions)
  BY DEF HostType
<1>2. PICK b \in Seq(Decisions) : b = Append(k.batch, d)
  BY <1>1
<1>3. f = [k EXCEPT !.batch = b, !.timer = TRUE]
  BY <1>2 DEF Queue
<1>. QED
  BY <1>2, <1>3 DEF HostType

\* The member that joins the batch, with its whole input.
LEMMA InputsIs ==
    ASSUME NEW h \in HostType, spec \in Specs, NEW d \in Decisions, h.m[d] = Blank,
           NEW p, p = Pends(h, d), NEW q, q = Inputs(p, d), NEW y, y = QueuedMember(d)
    PROVE  /\ y \in MemberType /\ ~y.used /\ ~y.delivered /\ ~y.admitted /\ y.asking = {} /\ y.spare = Null /\ y.told = "pending"
           /\ y.input = Whole(d)
           /\ q \in HostType /\ q.m = [h.m EXCEPT ![d] = y]
           /\ q.side = h.side /\ q.spare = h.spare /\ q.waiting = h.waiting /\ q.group = h.group
           /\ q.closed = h.closed /\ q.batch = h.batch /\ q.timer = h.timer /\ q.out = h.out
<1>1. /\ p \in HostType /\ p.side = h.side /\ p.spare = h.spare /\ p.waiting = h.waiting /\ p.group = h.group
      /\ p.closed = h.closed /\ p.batch = h.batch /\ p.timer = h.timer /\ p.out = h.out
      /\ p.m = [h.m EXCEPT ![d].told = "pending"]
  BY PendsIs
<1>2. Whole(d) \in Text
  BY WholeIsText
<1>3. PICK w \in Text : w = Whole(d)
  BY <1>2
<1>4. y = [Blank EXCEPT !.told = "pending", !.input = w]
  BY <1>3 DEF QueuedMember
<1>5. /\ y \in MemberType /\ ~y.used /\ ~y.delivered /\ ~y.admitted /\ y.asking = {} /\ y.spare = Null /\ y.told = "pending"
      /\ y.input = Whole(d)
  <2>1. y = [told |-> "pending", spare |-> Null, input |-> w, admitted |-> FALSE, asking |-> {}, asks |-> 0,
             used |-> FALSE, task |-> FALSE, bad |-> FALSE, delivered |-> FALSE, timer |-> FALSE, stop |-> Null]
    BY <1>4 DEF Blank
  <2>. QED
    BY <1>3, <2>1 DEF MemberType
<1>6. h.m \in [Decisions -> MemberType] /\ p.m \in [Decisions -> MemberType]
  BY <1>1 DEF HostType
<1>7. [p.m[d] EXCEPT !.input = w] = y
  <2>1. p.m[d] = [Blank EXCEPT !.told = "pending"]
    BY <1>1, <1>6
  <2>. QED
    BY <1>4, <2>1
<1>8. q = [p EXCEPT !.m = [p.m EXCEPT ![d] = y]]
  BY <1>3, <1>7 DEF Inputs
<1>9. q = With(p, d, y)
  BY <1>8 DEF With
<1>10. p \in HostType
  BY <1>1
<1>11. /\ q.waiting = p.waiting /\ q.group = p.group /\ q.closed = p.closed
       /\ q.batch = p.batch /\ q.timer = p.timer /\ q.out = p.out
       /\ q.side = p.side /\ q.spare = p.spare /\ q \in HostType
  BY <1>5, <1>9, <1>10, WithIs
<1>12. q.m = [p.m EXCEPT ![d] = y]
  BY <1>8, <1>10 DEF HostType
<1>13. q.m = [h.m EXCEPT ![d] = y]
  BY <1>1, <1>6, <1>12
<1>. QED
  BY <1>1, <1>5, <1>11, <1>13

\* decide() into the batch, once the spares that are missing have started.
LEMMA QueuedKeeps ==
    ASSUME NEW h, NEW n, NEW e, Right(h, n, e), NEW d \in Decisions, h.m[d].told = "none",
           NEW p, p = Pends(h, d), NEW q, q = Inputs(p, d), NEW k, k = Replenish(q), NEW f, f = Queue(k, d)
    PROVE  Right(f, n, e) /\ (Served(h) => Served(f))
<1>1. h \in HostType /\ h.out = Null /\ spec \in Specs /\ h.m[d] = Blank /\ \A t \in Sides : SideRight(h, t)
  BY BlankIsNowhere DEF Right, Typed, Nowhere
<1>2. PICK y : y = QueuedMember(d)
  BY Zenon
<1>3. /\ y \in MemberType /\ ~y.used /\ ~y.delivered /\ ~y.admitted /\ y.asking = {} /\ y.spare = Null /\ y.told = "pending"
      /\ y.input = Whole(d)
      /\ q \in HostType /\ q.m = [h.m EXCEPT ![d] = y]
      /\ q.side = h.side /\ q.spare = h.spare /\ q.waiting = h.waiting /\ q.group = h.group
      /\ q.closed = h.closed /\ q.batch = h.batch /\ q.timer = h.timer /\ q.out = h.out
  BY <1>1, <1>2, InputsIs
<1>4. \A t \in Sides : SideRight(q, t)
  BY <1>1, <1>3 DEF SideRight
<1>5. Starts(q, k)
  BY <1>1, <1>3, <1>4, ReplenishStarts
<1>6. PICK g : g = Queue(q, d)
  BY Zenon
<1>7. /\ g \in HostType /\ g.batch = Append(q.batch, d) /\ g.timer
      /\ g.m = q.m /\ g.side = q.side /\ g.spare = q.spare /\ g.waiting = q.waiting /\ g.group = q.group
      /\ g.closed = q.closed /\ g.out = q.out
  BY <1>3, <1>6, QueueIs
<1>8. Asked(h, g, d, y)
  BY <1>1, <1>3, <1>7 DEF Asked
<1>9. Right(g, n, e) /\ (Served(h) => Served(g))
  BY <1>8, AskedKeeps
<1>10. k \in HostType
  BY <1>5 DEF Starts
<1>11. /\ f \in HostType /\ f.batch = Append(k.batch, d) /\ f.timer
       /\ f.m = k.m /\ f.side = k.side /\ f.spare = k.spare /\ f.waiting = k.waiting /\ f.group = k.group
       /\ f.closed = k.closed /\ f.out = k.out
  BY <1>10, QueueIs
<1>12. Starts(g, f)
  <2>1. /\ f.m = g.m /\ f.batch = g.batch /\ f.waiting = g.waiting /\ f.timer = g.timer /\ f.out = g.out
        /\ f.group = g.group /\ f.closed = g.closed
    BY <1>5, <1>7, <1>11, <1>10 DEF Starts, HostType
  <2>2. \A s \in Sides : (f.side[s] = g.side[s] /\ f.spare[s] = g.spare[s]) \/ StartsStandby(g, f, s)
    BY <1>5, <1>7, <1>11 DEF Starts, StartsStandby
  <2>. QED
    BY <1>11, <2>1, <2>2 DEF Starts
<1>13. g.out = Null
  BY <1>1, <1>3, <1>7
<1>14. Aside(g, f)
  BY <1>7, <1>12, <1>13, StartsAside
<1>. QED
  BY <1>9, <1>14, AsideKeeps

\* Being asked changes no side session.
LEMMA PendsSides ==
    ASSUME NEW h \in HostType, NEW d, NEW k, k = Pends(h, d) PROVE k.side = h.side /\ k.spare = h.spare
BY DEF Pends, HostType

\* _spareFor picks a free spare with the right context.
LEMMA SparesForAre ==
    ASSUME NEW h, NEW d, NEW s \in SparesFor(h, d)
    PROVE  s \in Sides /\ h.side[s].alive /\ FreeSpare(h.spare[s][Role(d)]) /\ h.spare[s][Role(d)].ctx = Wants(d)
BY Zenon DEF SparesFor

\* Decide: refused, reserved on a spare, or put in the batch.
LEMMA DecideStep == ASSUME GroupInv, NEW d \in Decisions, Decide(d) PROVE GroupInv'
<1>1. /\ host \in HostType /\ host.out = Null /\ Right(host, native, Null) /\ Served(host) /\ spec \in Specs
  BY InvIs
<1>2. host.m[d].told = "none"
  BY Zenon DEF Decide
<1>3. host.m[d] = Blank
  BY <1>1, <1>2, BlankIsNowhere DEF Nowhere
<1>4. PICK p : p = Pends(host, d)
  BY Zenon
<1>5. \/ Ends([host EXCEPT !.m[d].told = "unsent"], Null)
      \/ \E s \in SparesFor(p, d) : \E g : Reserving(p, d, s, g) /\ Ends(g, Null)
      \/ Ends(Queue(Replenish(Inputs(p, d)), d), Null)
  <2>1. \A s \in (IF Wants(d) = Null THEN {} ELSE SparesFor(p, d)) : s \in SparesFor(p, d)
    OBVIOUS
  <2>. QED
    BY <1>4, <2>1, Zenon DEF Decide, Step, Pends, Queue, Inputs, Reserving
<1>6. CASE Ends([host EXCEPT !.m[d].told = "unsent"], Null)
  <2>1. PICK y : y = [Blank EXCEPT !.told = "unsent"]
    BY Zenon
  <2>2. PICK g : g = With(host, d, y)
    BY Zenon
  <2>3. g = [host EXCEPT !.m[d].told = "unsent"]
    BY <1>3, <2>1, <2>2 DEF With
  <2>4. y \in MemberType /\ ~y.used /\ ~y.delivered /\ ~y.admitted /\ y.asking = {} /\ y.spare = Null /\ y.told = "unsent"
    <3>1. <<"input">> \in Text
      BY DEF Text
    <3>. QED
      BY <2>1, <3>1 DEF Blank, MemberType
  <2>5. /\ g.waiting = host.waiting /\ g.group = host.group /\ g.closed = host.closed
        /\ g.batch = host.batch /\ g.timer = host.timer /\ g.out = host.out
        /\ g.side = host.side /\ g.spare = host.spare /\ g \in HostType
    BY <1>1, <2>2, <2>4, WithIs
  <2>6. g.m = [host.m EXCEPT ![d] = y]
    BY <1>1, <2>2 DEF With, HostType
  <2>7. Asked(host, g, d, y)
    BY <1>1, <2>4, <2>5, <2>6 DEF Asked
  <2>8. Right(g, native, Null) /\ (Served(host) => Served(g))
    BY <1>1, <1>2, <2>7, AskedKeeps
  <2>9. Ends(g, Null)
    BY <1>6, <2>3, Zenon
  <2>. QED
    BY <1>1, <2>8, <2>9, RightStep
<1>7. CASE \E s \in SparesFor(p, d) : \E g : Reserving(p, d, s, g) /\ Ends(g, Null)
  <2>0. PICK s \in SparesFor(p, d) : \E g : Reserving(p, d, s, g) /\ Ends(g, Null)
    BY <1>7, Zenon
  <2>1. PICK g : Reserving(p, d, s, g) /\ Ends(g, Null)
    BY <2>0, Zenon
  <2>2. s \in Sides /\ p.side[s].alive /\ FreeSpare(p.spare[s][Role(d)]) /\ p.spare[s][Role(d)].ctx = Wants(d)
    BY SparesForAre
  <2>3. p.side = host.side /\ p.spare = host.spare
    BY <1>1, <1>4, PendsSides
  <2>4. PICK y : ReservedOn(host, g, d, y, s)
    BY <1>1, <1>3, <1>4, <2>1, <2>2, <2>3, ReservesIs
  <2>5. Right(g, native, Null) /\ (Served(host) => Served(g))
    BY <1>1, <1>2, <2>2, <2>4, ReservedKeeps
  <2>. QED
    BY <1>1, <2>1, <2>5, RightStep
<1>8. CASE Ends(Queue(Replenish(Inputs(p, d)), d), Null)
  <2>1. PICK q : q = Inputs(p, d)
    BY Zenon
  <2>2. PICK k : k = Replenish(q)
    BY Zenon
  <2>3. PICK f : f = Queue(k, d)
    BY Zenon
  <2>4. Right(f, native, Null) /\ (Served(host) => Served(f))
    BY <1>1, <1>2, <1>4, <2>1, <2>2, <2>3, QueuedKeeps
  <2>5. Ends(f, Null)
    BY <1>8, <2>1, <2>2, <2>3, Zenon
  <2>. QED
    BY <1>1, <2>4, <2>5, RightStep
<1>. QED
  BY <1>5, <1>6, <1>7, <1>8

\* ReserveTimer: the spare still starting is not waited for.
LEMMA ReserveTimerStep == ASSUME GroupInv, NEW d \in Decisions, ReserveTimer(d) PROVE GroupInv'
<1>1. /\ host \in HostType /\ host.out = Null /\ Right(host, native, Null) /\ Served(host)
      /\ host.m[d] \in MemberType /\ MemberRight(host, d)
  BY InvIs DEF Right
<1>2. PICK y : y = [host.m[d] EXCEPT !.timer = FALSE]
  BY Zenon
<1>3. PICK h : h = With(host, d, y)
  BY Zenon
<1>4. h = [host EXCEPT !.m[d].timer = FALSE]
  BY <1>1, <1>2, <1>3 DEF HostType, With
<1>5. host.m[d].timer /\ (Ends(Fallback(h, d), Null) \/ Ends(h, Null))
  BY <1>4, Zenon DEF ReserveTimer, Step
<1>6. host.m[d].told # "none"
  BY <1>1, <1>5 DEF MemberRight, Blank
<1>7. y \in MemberType /\ SameMember(host.m[d], y) /\ y.admitted = host.m[d].admitted /\ y.asking = host.m[d].asking
  BY <1>1, <1>2, <1>6 DEF MemberType, SameMember
<1>8. Aside(host, h)
  BY <1>1, <1>3, <1>7, WithAside
<1>9. Right(h, native, Null) /\ Served(h)
  BY <1>1, <1>8, AsideKeeps
<1>10. PICK ds \in SUBSET Decisions : ds = {d}
  OBVIOUS
<1>11. PICK k : k = FallbackAll(h, ds)
  BY Zenon
<1>12. Right(k, native, Null) /\ Served(k)
  BY <1>9, <1>11, FallbackAllKeeps
<1>13. Ends(k, Null) \/ Ends(h, Null)
  BY <1>5, <1>10, <1>11, Zenon DEF Fallback
<1>. QED
  BY <1>9, <1>12, <1>13, RightStep

\* StopAnswered: the subagent is stopped, or its side session is killed.
LEMMA StopAnsweredStep == ASSUME GroupInv, NEW d \in Decisions, StopAnswered(d) PROVE GroupInv'
<1>1. /\ host \in HostType /\ host.out = Null /\ Right(host, native, Null) /\ Served(host) /\ Rest(host, native)
      /\ host.m[d] \in MemberType /\ MemberRight(host, d) /\ native \in NativeType
  BY InvIs DEF Right
<1>2. PICK y : y = [host.m[d] EXCEPT !.stop = Null]
  BY Zenon
<1>3. PICK h : h = With(host, d, y)
  BY Zenon
<1>4. h = [host EXCEPT !.m[d].stop = Null]
  BY <1>1, <1>2, <1>3 DEF HostType, With
<1>5. PICK s : s = host.m[d].stop
  BY Zenon
<1>6. /\ s # Null
      /\ \/ /\ host' = h /\ UNCHANGED spec
            /\ native' = [native EXCEPT ![d].run = IF RunsOn(s, d) THEN "over" ELSE native[d].run]
         \/ Ends(Killed(h, s), Null)
  BY <1>4, <1>5, Zenon DEF StopAnswered, Step
<1>7. host.m[d].told # "none"
  BY <1>1, <1>5, <1>6 DEF MemberRight, Blank
<1>8. y \in MemberType /\ SameMember(host.m[d], y) /\ y.admitted = host.m[d].admitted /\ y.asking = host.m[d].asking
  BY <1>1, <1>2, <1>7 DEF MemberType, SameMember
<1>9. Aside(host, h) /\ h.side = host.side
  BY <1>1, <1>3, <1>8, WithAside, WithIs
<1>10. Right(h, native, Null) /\ Served(h)
  BY <1>1, <1>9, AsideKeeps
<1>11. CASE Ends(Killed(h, s), Null)
  <2>1. Right(Killed(h, s), native, Null) /\ Served(Killed(h, s))
    BY <1>10, KilledKeeps
  <2>. QED
    BY <1>11, <2>1, RightStep
<1>12. CASE /\ host' = h /\ UNCHANGED spec
            /\ native' = [native EXCEPT ![d].run = IF RunsOn(s, d) THEN "over" ELSE native[d].run]
  <2>0. Rest(h, native)
    BY <1>1, <1>9 DEF Rest
  <2>1. CASE RunsOn(s, d)
    <3>1. PICK m : m = Over(native, d)
      BY Zenon
    <3>2. native' = m
      BY <1>12, <2>1, <3>1 DEF Over
    <3>3. native[d].run # "none"
      BY <2>1 DEF RunsOn
    <3>4. Right(h, m, Null) /\ Rest(h, m)
      BY <1>10, <2>0, <3>1, <3>3, OverKeeps
    <3>. QED
      BY <1>10, <1>12, <3>2, <3>4, InvNext
  <2>2. CASE ~RunsOn(s, d)
    <3>1. native' = native
      BY <1>1, <1>12, <2>2 DEF NativeType
    <3>. QED
      BY <1>10, <1>12, <2>0, <3>1, InvNext
  <2>. QED
    BY <2>1, <2>2
<1>. QED
  BY <1>6, <1>11, <1>12

\* Unheard: what was adrift is over.
LEMMA UnheardStep == ASSUME GroupInv, NEW d \in Decisions, Unheard(d) PROVE GroupInv'
<1>1. Right(host, native, Null) /\ Served(host) /\ Rest(host, native)
  BY InvIs
<1>2. PICK m : m = Over(native, d)
  BY Zenon
<1>3. native[d].run # "none" /\ native' = m /\ host' = host /\ UNCHANGED spec
  BY <1>2 DEF Unheard, Over
<1>4. Right(host, m, Null) /\ Rest(host, m)
  BY <1>1, <1>2, <1>3, OverKeeps
<1>. QED
  BY <1>1, <1>3, <1>4, InvNext

\* A spare forgets a decision that is over and whose input it never got.
LEMMA UnreservedKeeps ==
    ASSUME NEW h, NEW n, NEW e, Right(h, n, e), NEW d \in Decisions, ~Pending(h, d), ~h.m[d].delivered,
           NEW g, g = Unreserved(h, {d})
    PROVE  Right(g, n, e) /\ (Served(h) => Served(g))
<1>1. h \in HostType /\ Typed(h, n, e) /\ d # Null
  BY SubagentsAssumption DEF Right, Typed
<1>2. g \in HostType /\ g.side = h.side /\ g.m = h.m /\ SameRest(h, g)
  BY <1>1, UnreservedIs
<1>3. \A s \in Sides, r \in Roles : g.spare[s][r] =
         LET c == h.spare[s][r].member
         IN IF c \in {d} /\ h.m[c].spare = s /\ Role(c) = r THEN [h.spare[s][r] EXCEPT !.member = Null]
            ELSE h.spare[s][r]
  BY <1>1, UnreservedIs
<1>4. ASSUME NEW s \in Sides, NEW r \in Roles
      PROVE  \/ g.spare[s][r] = h.spare[s][r]
             \/ /\ h.spare[s][r].member = d /\ g.spare[s][r].member = Null
                /\ g.spare[s][r].pending = h.spare[s][r].pending /\ g.spare[s][r].used = h.spare[s][r].used
                /\ h.spare[s][r] # NoSpare
  <2>1. h.spare[s][r] \in SpareType
    BY <1>1 DEF HostType
  <2>2. g.spare[s][r] = h.spare[s][r] \/ (h.spare[s][r].member = d /\ g.spare[s][r] = [h.spare[s][r] EXCEPT !.member = Null])
    BY <1>3
  <2>3. NoSpare.member = Null
    BY DEF NoSpare
  <2>. QED
    BY <1>1, <2>1, <2>2, <2>3 DEF SpareType
<1>5. \A c \in Decisions : (Waits(g, c) <=> Waits(h, c)) /\ (Batched(g, c) <=> Batched(h, c)) /\ (Pending(g, c) <=> Pending(h, c))
  BY <1>2 DEF Waits, Batched, Pending, SameRest
<1>6. ASSUME NEW c \in Decisions, c # d PROVE Ours(g, c) <=> Ours(h, c)
  <2>1. h.m[c].spare \in Sides \cup {Null} /\ Role(c) \in Roles /\ c # Null
    BY <1>1, RoleIs, SubagentsAssumption DEF HostType, MemberType, Typed
  <2>. QED
    BY <1>2, <1>4, <1>6, <2>1 DEF Ours
<1>7. Typed(g, n, e)
  BY <1>1, <1>2 DEF Typed, SameRest
<1>8. ASSUME NEW c \in Decisions PROVE MemberRight(g, c)
  <2>1. MemberRight(h, c)
    BY DEF Right
  <2>. QED
    BY <1>2, <1>5, <1>6, <2>1 DEF MemberRight
<1>9. ASSUME NEW c \in Decisions PROVE ApartOn(g, c)
  <2>1. ApartOn(h, c) /\ g.batch = h.batch /\ g.waiting = h.waiting
    BY <1>2 DEF Right, SameRest
  <2>2. g.side = h.side /\ g.m = h.m
    BY <1>2
  <2>3. \A i, j \in 1..Len(g.batch) : g.batch[i] = c /\ g.batch[j] = c => i = j
    BY <2>1, Zenon DEF ApartOn
  <2>4. \A i, j \in 1..Len(g.waiting) : c \in g.waiting[i] /\ c \in g.waiting[j] => i = j
    BY <2>1, Zenon DEF ApartOn
  <2>5. \A s, t \in Sides : c \in g.side[s].chunk /\ c \in g.side[t].chunk => s = t
    BY <2>1, <2>2, Zenon DEF ApartOn
  <2>6. \A s \in Sides : c \in g.side[s].chunk => ~Waits(g, c) /\ ~Batched(g, c)
    BY <1>5, <2>1, <2>2, Zenon DEF ApartOn
  <2>7. /\ Waits(g, c) => ~Batched(g, c)
        /\ Waits(g, c) \/ Batched(g, c) => g.m[c].told # "none" /\ g.m[c].spare = Null /\ ~g.m[c].used
    BY <1>5, <2>1, <2>2, Zenon DEF ApartOn
  <2>. QED
    BY <2>3, <2>4, <2>5, <2>6, <2>7, Zenon DEF ApartOn
<1>10. ASSUME NEW c \in Decisions PROVE AgreeOn(g, n, e, c)
  <2>1. AgreeOn(h, n, e, c) /\ MemberRight(h, c)
    BY DEF Right
  <2>2. Runs(g, n, e, c) <=> Runs(h, n, e, c)
    BY <1>2 DEF Runs
  <2>3. Runs(h, n, e, c) /\ h.m[c].spare # Null => c # d
    BY <2>1 DEF AgreeOn, MemberRight, Runs
  <2>. QED
    BY <1>2, <1>6, <2>1, <2>2, <2>3 DEF AgreeOn
<1>11. ASSUME NEW s \in Sides, NEW r \in Roles PROVE SpareRight(g, s, r)
  <2>1. SpareRight(h, s, r)
    BY DEF Right
  <2>2. CASE g.spare[s][r] = h.spare[s][r]
    BY <1>2, <2>1, <2>2 DEF SpareRight
  <2>3. CASE g.spare[s][r] # h.spare[s][r]
    BY <1>2, <1>4, <2>1, <2>3 DEF SpareRight
  <2>. QED
    BY <2>2, <2>3
<1>12. ASSUME NEW s \in Sides PROVE SideRight(g, s)
  BY <1>2 DEF SideRight, Right
<1>13. ASSUME NEW s \in Sides, NEW c \in Decisions PROVE HeldRight(g, s, c)
  <2>1. HeldRight(h, s, c)
    BY DEF Right
  <2>. QED
    BY <1>2, <1>5, <2>1 DEF HeldRight
<1>14. Kept(g, e)
  <2>1. SUFFICES ASSUME Open(g) PROVE Kept(g, e)
    BY DEF Kept
  <2>2. Open(h) /\ Kept(h, e)
    BY <1>2, <2>1 DEF Open, Right, SameRest
  <2>3. g.batch # <<>> => g.timer
    BY <1>2, <2>2 DEF Kept, SameRest
  <2>4. ASSUME NEW c \in Decisions PROVE KeptOn(g, e, c)
    <3>1. KeptOn(h, e, c)
      BY <2>2 DEF Kept
    <3>. QED
      BY <1>2, <1>5, <3>1 DEF KeptOn
  <2>5. \A s \in Sides : g.side[s].in /\ g.side[s].gone => s = e
    BY <1>2, <2>2 DEF Kept
  <2>. QED
    BY <2>3, <2>4, <2>5 DEF Kept
<1>15. Served(h) => Served(g)
  BY <1>2 DEF Served, Serves, Open, Busy, SameRest
<1>. QED
  BY <1>7, <1>8, <1>9, <1>10, <1>11, <1>12, <1>13, <1>14, <1>15 DEF Right

\* A side session with one member more, or less.
LEMMA JoinedIs ==
    ASSUME NEW e \in SideType, NEW d \in Decisions, NEW x, x = Joined(e, d) \/ x = Leaves(e, d)
    PROVE  /\ x \in SideType /\ x.kind = e.kind /\ x.phase = e.phase /\ x.gone = e.gone /\ x.listed = e.listed
           /\ x.chunk = e.chunk /\ x.alive = e.alive /\ x.in = e.in /\ x.retry = e.retry
           /\ x = Joined(e, d) => x.members = e.members \cup {d}
           /\ x = Leaves(e, d) => x.members = e.members \ {d}
<1>1. CASE x = Joined(e, d)
  BY <1>1 DEF Joined, Leaves, SideType
<1>2. CASE x = Leaves(e, d)
  BY <1>2 DEF Joined, Leaves, SideType
<1>. QED
  BY <1>1, <1>2

\* The spares stay.
LEMMA PutSame ==
    ASSUME NEW h \in HostType, NEW s \in Sides, NEW x, NEW sp, sp = h.spare[s],
           NEW k, k = [h EXCEPT !.side[s] = x, !.spare[s] = sp]
    PROVE  Put(h, s, x) = k
<1>1. k = [h EXCEPT !.side = [h.side EXCEPT ![s] = x], !.spare = [h.spare EXCEPT ![s] = h.spare[s]]]
  BY DEF HostType
<1>2. [h.spare EXCEPT ![s] = h.spare[s]] = h.spare
  BY DEF HostType
<1>3. k = [h EXCEPT !.side = [h.side EXCEPT ![s] = x]]
  BY <1>1, <1>2 DEF HostType
<1>. QED
  BY <1>3 DEF Put

\* Whom a standby side session serves: one more, or one less that needs it no longer.
LEMMA MembersKeep ==
    ASSUME NEW h, NEW n, NEW e, Right(h, n, e), Served(h), NEW s \in Sides, h.side[s].kind = "standby",
           NEW d \in Decisions, NEW x,
           \/ x = Joined(h.side[s], d) /\ h.m[d].spare = s
           \/ x = Leaves(h.side[s], d) /\ ~Pending(h, d)
    PROVE  Right(Put(h, s, x), n, e) /\ Served(Put(h, s, x))
<1>1. h \in HostType /\ h.side[s] \in SideType /\ h.spare[s] \in [Roles -> SpareType] /\ SideRight(h, s)
  BY DEF Right, Typed, HostType
<1>2. /\ x \in SideType /\ x.kind = "standby" /\ x.phase = h.side[s].phase /\ x.gone = h.side[s].gone
      /\ x.listed = h.side[s].listed /\ x.chunk = h.side[s].chunk /\ x.alive = h.side[s].alive /\ x.in = h.side[s].in
  BY <1>1, JoinedIs
<1>3. PICK sp : sp = h.spare[s]
  BY Zenon
<1>4. StandbyStep(h, e, s, x, sp)
  <2>1. Open(h) /\ x.in /\ x.gone => s = e
    BY <1>2 DEF Right, Kept
  <2>2. \A r \in Roles : SpareRight(h, s, r)
    BY DEF Right
  <2>3. x.phase \notin {"ready", "turn"} => sp = Unheld
    <3>1. SUFFICES ASSUME x.phase \notin {"ready", "turn"} PROVE sp = Unheld
      OBVIOUS
    <3>2. \A r \in Roles : sp[r] = NoSpare
      BY <1>2, <1>3, <2>2, <3>1 DEF SpareRight
    <3>. QED
      BY <1>1, <1>3, <3>2 DEF Unheld
  <2>. QED
    BY <1>1, <1>2, <1>3, <2>1, <2>2, <2>3 DEF StandbyStep, SideRight, SpareRight
<1>5. ASSUME NEW c \in Decisions PROVE StandbyStepOn(h, n, e, s, x, sp, c)
  <2>1. HeldRight(h, s, c) /\ (Open(h) => KeptOn(h, e, c))
    BY DEF Right, Kept
  <2>2. c \in x.members => h.m[c].spare = s
    BY <1>1, <2>1, JoinedIs DEF HeldRight
  <2>3. Pending(h, c) /\ c \in h.side[s].members => c \in x.members
    BY <1>1, JoinedIs
  <2>. QED
    BY <1>2, <1>3, <2>1, <2>2, <2>3 DEF StandbyStepOn, KeptOn
<1>6. PICK k : k = [h EXCEPT !.side[s] = x, !.spare[s] = sp]
  BY Zenon
<1>7. Right(k, n, e)
  BY <1>4, <1>5, <1>6, StandbyStepKeeps, Zenon
<1>8. Put(h, s, x) = k
  <2>1. h \in HostType
    BY <1>1
  <2>. QED
    BY <1>3, <1>6, <2>1, PutSame, Zenon
<1>9. Served(Put(h, s, x))
  BY <1>1, SideServed
<1>. QED
  BY <1>7, <1>8, <1>9

\* One decision falls back.
LEMMA FallbackOneIs ==
    ASSUME NEW h \in HostType, spec \in Specs, NEW d \in Decisions, Falls(h, {d}) = {d}, NEW f, f = Fallback(h, d)
    PROVE  /\ f \in HostType /\ f.waiting = h.waiting /\ f.out = h.out /\ f.group = h.group /\ f.closed = h.closed
           /\ \A s \in Sides, r \in Roles : f.spare[s][r] = SpareAfter(h, d, s, r)
           /\ \A s \in Sides : f.side[s] = SideAfter(h, d, s)
           /\ \A c \in Decisions : c = d \/ f.m[c] = h.m[c]
           /\ f.m[d] = MemberAfter(h, d)
           /\ f.batch = BatchAfter(h, d) /\ f.timer = TimerAfter(h)
<1>1. PICK ds \in SUBSET Decisions : ds = {d}
  OBVIOUS
<1>2. f = FallbackAll(h, ds) /\ Falls(h, ds) = ds /\ ds # {}
  BY <1>1 DEF Fallback
<1>. DEFINE F  == FallbackAll(h, ds)
            fs == Falls(h, ds)
<1>a. /\ F \in HostType /\ F.waiting = h.waiting /\ F.out = h.out /\ F.group = h.group /\ F.closed = h.closed
      /\ F.spare = Unreserved(h, fs).spare
  BY FallbackAllIs, Zenon
<1>b. \A s \in Sides : F.side[s] = [h.side[s] EXCEPT !.members = @ \ {c \in fs : h.m[c].spare = s}]
  BY FallbackAllIs, Zenon
<1>c. \A c \in Decisions : F.m[c] =
                 IF c \in fs THEN [h.m[c] EXCEPT !.spare = Null, !.input = Rejoined(h, c)] ELSE h.m[c]
  BY FallbackAllIs, Zenon
<1>d. /\ fs = {} \/ h.group = "released" => F.batch = h.batch /\ F.timer = h.timer
      /\ fs # {} /\ h.group # "released" => F.batch = h.batch \o SetToSeq(fs) /\ F.timer
  BY FallbackAllIs, Zenon
<1>e. f = F /\ fs = ds /\ ds # {}
  BY <1>2
<1>. HIDE DEF F, fs
<1>3. /\ f \in HostType /\ f.waiting = h.waiting /\ f.out = h.out /\ f.group = h.group /\ f.closed = h.closed
      /\ f.spare = Unreserved(h, ds).spare
  BY <1>a, <1>e
<1>4. \A s \in Sides : f.side[s] = [h.side[s] EXCEPT !.members = @ \ {c \in ds : h.m[c].spare = s}]
  BY <1>b, <1>e, Zenon
<1>5. \A c \in Decisions : f.m[c] =
                 IF c \in ds THEN [h.m[c] EXCEPT !.spare = Null, !.input = Rejoined(h, c)] ELSE h.m[c]
  BY <1>c, <1>e, Zenon
<1>6. /\ h.group = "released" => f.batch = h.batch /\ f.timer = h.timer
      /\ h.group # "released" => f.batch = h.batch \o SetToSeq(ds) /\ f.timer
  BY <1>d, <1>e, Zenon
<1>7. \A s \in Sides, r \in Roles : f.spare[s][r] = SpareAfter(h, d, s, r)
  <2>1. \A s \in Sides, r \in Roles : Unreserved(h, ds).spare[s][r] =
                LET c == h.spare[s][r].member
                IN IF c \in ds /\ h.m[c].spare = s /\ Role(c) = r THEN [h.spare[s][r] EXCEPT !.member = Null]
                   ELSE h.spare[s][r]
    BY UnreservedIs
  <2>. QED
    BY <1>1, <1>3, <2>1, Zenon DEF SpareAfter
<1>8. \A s \in Sides : f.side[s] = SideAfter(h, d, s)
  BY <1>1, <1>4, Zenon DEF SideAfter
<1>9. f.m[d] = MemberAfter(h, d) /\ \A c \in Decisions : c = d \/ f.m[c] = h.m[c]
  <2>1. d \in ds /\ \A c \in Decisions : c = d \/ c \notin ds
    BY <1>1
  <2>2. f.m[d] = MemberAfter(h, d)
    BY <1>5, <2>1, Zenon DEF MemberAfter
  <2>3. \A c \in Decisions : c = d \/ f.m[c] = h.m[c]
    BY <1>5, <2>1, Zenon
  <2>. QED
    BY <2>2, <2>3
<1>10. f.batch = BatchAfter(h, d)
  BY <1>1, <1>6, Zenon DEF BatchAfter
<1>11. f.timer = TimerAfter(h)
  <2>1. f.timer \in BOOLEAN /\ h.timer \in BOOLEAN
    BY <1>3 DEF HostType
  <2>. QED
    BY <1>6, <2>1 DEF TimerAfter
<1>. QED
  BY <1>3, <1>7, <1>8, <1>9, <1>10, <1>11

\* A decision admitted meanwhile, whose spare cannot serve it.
LEMMA GrantFalls ==
    ASSUME NEW h, NEW n, NEW e, Right(h, n, e), NEW d \in Decisions, Pending(h, d), ~h.m[d].delivered,
           "spare" \notin h.m[d].asking, h.m[d].spare # Null, NEW g, g = With(h, d, Granted(h.m[d])),
           NEW k, k = Fallback(g, d)
    PROVE  Right(k, n, e) /\ (Served(h) => Served(k))
<1>1. h \in HostType /\ h.out = Null /\ spec \in Specs /\ h.m[d] \in MemberType /\ h.m[d].told # "none"
  BY DEF Right, Typed, HostType, Pending
<1>2. PICK y : y = Granted(h.m[d])
  BY Zenon
<1>3. /\ y \in MemberType /\ SameMember(h.m[d], y) /\ y.admitted /\ y.asking = h.m[d].asking
      /\ y.told = h.m[d].told /\ y.spare = h.m[d].spare /\ y.used = h.m[d].used
  BY <1>1, <1>2, GrantedIs
<1>5. /\ g \in HostType /\ g.waiting = h.waiting /\ g.group = h.group /\ g.closed = h.closed /\ g.batch = h.batch
      /\ g.timer = h.timer /\ g.out = h.out /\ g.side = h.side /\ g.spare = h.spare
      /\ g.m[d] = y /\ \A c \in Decisions : c = d \/ g.m[c] = h.m[c]
  BY <1>1, <1>2, <1>3, WithIs
<1>6. Falls(h, {d}) = {d} /\ Falls(g, {d}) = {d}
  BY <1>3, <1>5 DEF Falls, Pending, Given, SameMember
<1>7. PICK f : f = Fallback(h, d)
  BY Zenon
<1>8. Right(f, n, e) /\ (Served(h) => Served(f))
  <2>1. PICK ds \in SUBSET Decisions : ds = {d}
    OBVIOUS
  <2>2. f = FallbackAll(h, ds)
    BY <1>7, <2>1, Zenon DEF Fallback
  <2>. QED
    BY <2>2, FallbackAllKeeps
<1>10. /\ f \in HostType /\ f.waiting = h.waiting /\ f.out = h.out /\ f.group = h.group /\ f.closed = h.closed
       /\ \A s \in Sides, r \in Roles : f.spare[s][r] = SpareAfter(h, d, s, r)
       /\ \A s \in Sides : f.side[s] = SideAfter(h, d, s)
       /\ \A c \in Decisions : c = d \/ f.m[c] = h.m[c]
       /\ f.m[d] = MemberAfter(h, d)
       /\ f.batch = BatchAfter(h, d) /\ f.timer = TimerAfter(h)
  BY <1>1, <1>6, <1>7, FallbackOneIs
<1>11. /\ k \in HostType /\ k.waiting = g.waiting /\ k.out = g.out /\ k.group = g.group /\ k.closed = g.closed
       /\ \A s \in Sides, r \in Roles : k.spare[s][r] = SpareAfter(g, d, s, r)
       /\ \A s \in Sides : k.side[s] = SideAfter(g, d, s)
       /\ \A c \in Decisions : c = d \/ k.m[c] = g.m[c]
       /\ k.m[d] = MemberAfter(g, d)
       /\ k.batch = BatchAfter(g, d) /\ k.timer = TimerAfter(g)
  BY <1>1, <1>5, <1>6, FallbackOneIs
<1>12. \A s \in Sides, r \in Roles : k.spare[s][r] = f.spare[s][r]
  <2>1. ASSUME NEW s \in Sides, NEW r \in Roles PROVE SpareAfter(g, d, s, r) = SpareAfter(h, d, s, r)
    BY <1>3, <1>5 DEF SpareAfter
  <2>. QED
    BY <1>10, <1>11, <2>1
<1>13. \A s \in Sides : k.side[s] = f.side[s] /\ k.spare[s] = f.spare[s]
  <2>1. ASSUME NEW s \in Sides PROVE SideAfter(g, d, s) = SideAfter(h, d, s)
    <3>1. {c \in {d} : g.m[c].spare = s} = {c \in {d} : h.m[c].spare = s}
      BY <1>3, <1>5
    <3>. QED
      BY <1>5, <3>1 DEF SideAfter
  <2>2. ASSUME NEW s \in Sides PROVE k.spare[s] = f.spare[s]
    <3>1. k.spare[s] \in [Roles -> SpareType] /\ f.spare[s] \in [Roles -> SpareType]
      BY <1>10, <1>11 DEF HostType
    <3>. QED
      BY <1>12, <3>1
  <2>. QED
    BY <1>10, <1>11, <2>1, <2>2
<1>14. k.batch = f.batch /\ k.timer = f.timer /\ k.waiting = f.waiting /\ k.group = f.group /\ k.closed = f.closed
       /\ k.out = Null
  <2>1. BatchAfter(g, d) = BatchAfter(h, d) /\ TimerAfter(g) = TimerAfter(h)
    BY <1>5 DEF BatchAfter, TimerAfter
  <2>. QED
    BY <1>1, <1>5, <1>10, <1>11, <2>1
<1>15. \A c \in Decisions : c = d \/ k.m[c] = f.m[c]
  BY <1>5, <1>10, <1>11
<1>16. /\ k.m[d].told = f.m[d].told /\ k.m[d].spare = Null /\ f.m[d].spare = Null /\ k.m[d].input = f.m[d].input
       /\ k.m[d].admitted /\ k.m[d].used = f.m[d].used /\ k.m[d].delivered = f.m[d].delivered
       /\ k.m[d].bad = f.m[d].bad /\ k.m[d].task = f.m[d].task /\ k.m[d].asking = f.m[d].asking
       /\ f.m[d].told # "none"
  <2>1. PICK i : i = Rejoined(h, d)
    BY Zenon
  <2>2. Rejoined(g, d) = i
    BY <1>3, <1>5, <2>1 DEF Rejoined, SameMember
  <2>3. f.m[d] = [h.m[d] EXCEPT !.spare = Null, !.input = i]
    BY <1>10, <2>1 DEF MemberAfter
  <2>4. k.m[d] = [y EXCEPT !.spare = Null, !.input = i]
    BY <1>5, <1>11, <2>2 DEF MemberAfter
  <2>5. y = [h.m[d] EXCEPT !.admitted = TRUE]
    BY <1>2 DEF Granted
  <2>. QED
    BY <1>1, <2>3, <2>4, <2>5 DEF MemberType
<1>17. Aside(f, k)
  <2>1. \A c \in Decisions : SameMember(f.m[c], k.m[c])
    BY <1>15, <1>16 DEF SameMember
  <2>2. \A s \in Sides : SameSide(f, k, s)
    BY <1>13 DEF SameSide
  <2>3. Null \notin Sides
    BY SubagentsAssumption
  <2>4. \A c \in Decisions :
          /\ k.m[c].admitted /\ ~f.m[c].admitted =>
                \A s \in Sides : f.m[c].spare = s => c \in f.side[s].members
          /\ Pending(f, c) /\ "fan" \in f.m[c].asking /\ "fan" \notin k.m[c].asking =>
                \A s \in Sides : c \in f.side[s].chunk /\ f.side[s].phase = "admitting" => c \in f.side[s].listed
    BY <1>15, <1>16, <2>3
  <2>. QED
    BY <1>11, <1>14, <2>1, <2>2, <2>4 DEF Aside, Open
<1>. QED
  BY <1>8, <1>17, AsideKeeps

\* Changes of a member and of the spares commute.
LEMMA RespareWith ==
    ASSUME NEW h \in HostType, NEW d \in Decisions, NEW y, NEW w
    PROVE  Respared(With(h, d, y), w) = With(Respared(h, w), d, y)
BY DEF Respared, With, HostType

\* A spare forgets a decision whatever else becomes of it.
LEMMA UnreservedWith ==
    ASSUME NEW h \in HostType, NEW d \in Decisions, NEW y, y.spare = h.m[d].spare
    PROVE  Unreserved(With(h, d, y), {d}) = With(Unreserved(h, {d}), d, y)
<1>1. PICK g : g = With(h, d, y)
  BY Zenon
<1>2. g.spare = h.spare /\ g.m[d] = y
  BY <1>1, WithIs
<1>3. PICK w : w = Forgotten(h, d)
  BY Zenon
<1>4. Unreserved(h, {d}) = Respared(h, w)
  <2>1. \A s \in Sides, r \in Roles : w[s][r] =
           IF h.spare[s][r].member \in {d} /\ h.m[h.spare[s][r].member].spare = s /\ Role(h.spare[s][r].member) = r
           THEN [h.spare[s][r] EXCEPT !.member = Null] ELSE h.spare[s][r]
    BY <1>3 DEF Forgotten
  <2>2. Unreserved(h, {d}) = Respared(h, Forgotten(h, d))
    BY DEF Unreserved, Respared, Forgotten, HostType
  <2>. QED
    BY <1>3, <2>2
<1>5. Forgotten(g, d) = w
  <2>1. ASSUME NEW s \in Sides, NEW r \in Roles
        PROVE  (IF g.spare[s][r].member \in {d} /\ g.m[g.spare[s][r].member].spare = s /\ Role(g.spare[s][r].member) = r
                THEN [g.spare[s][r] EXCEPT !.member = Null] ELSE g.spare[s][r])
             = (IF h.spare[s][r].member \in {d} /\ h.m[h.spare[s][r].member].spare = s /\ Role(h.spare[s][r].member) = r
                THEN [h.spare[s][r] EXCEPT !.member = Null] ELSE h.spare[s][r])
    BY <1>2
  <2>. QED
    BY <1>3, <2>1, Zenon DEF Forgotten
<1>6. Unreserved(g, {d}) = Respared(g, w)
  <2>1. Unreserved(g, {d}) = Respared(g, Forgotten(g, d))
    BY Zenon DEF Unreserved, Respared, Forgotten
  <2>. QED
    BY <1>5, <2>1, Zenon
<1>7. Respared(With(h, d, y), w) = With(Respared(h, w), d, y)
  BY RespareWith
<1>. QED
  BY <1>1, <1>4, <1>6, <1>7, Zenon

\* The ways the registration of a reserved decision ends.
LEMMA ReservedIs ==
    ASSUME NEW d \in Decisions, Reserved(d), NEW h, h = [host EXCEPT !.m[d].asking = @ \ {"spare"}],
           NEW s, s = h.m[d].spare, NEW g, g = [h EXCEPT !.m[d].admitted = TRUE],
           NEW t, t = [g EXCEPT !.side[s].members = @ \cup {d}]
    PROVE  \/ d \in spec.refused /\ Ends(SettledAs(Unreserved(h, {d}), d, Refused(h, d)), Null)
           \/ ~Pending(host, d) /\ Given(h, d) /\ Ends(h, Null)
           \/ ~Pending(host, d) /\ ~Given(h, d) /\ Ends(Unreserved(h, {d}), Null)
           \/ /\ Pending(host, d)
              /\ \/ ~Ours(g, d) /\ Ends(g, Null)
                 \/ Ours(g, d) /\ ~Serviceable(g, d) /\ Ends(Fallback(g, d), Null)
                 \/ Ours(g, d) /\ Serviceable(g, d) /\ Ends(Deliver(t, s, Role(d)), Null)
                 \/ Ours(g, d) /\ Serviceable(g, d) /\ Ends([t EXCEPT !.m[d].timer = TRUE], Null)
BY Zenon DEF Reserved, Step, Admitted

\* A reserved decision that is refused.
LEMMA RefusedKeeps ==
    ASSUME NEW h, NEW n, NEW e, Right(h, n, e), NEW d \in Decisions, h.m[d].told # "none",
           h.m[d].used => h.m[d].spare = Null /\ Wants(d) # Null, NEW what, what = Refused(h, d),
           NEW k, k = SettledAs(Unreserved(h, {d}), d, what)
    PROVE  Right(k, n, e) /\ (Served(h) => Served(k))
<1>1. h \in HostType /\ MemberRight(h, d) /\ h.m[d] \in MemberType
  BY DEF Right, Typed, HostType
<1>2. /\ ~h.m[d].delivered /\ what \in {"unsent", "overtaken"} /\ what \in Ended
      /\ what = "unsent" => ~h.m[d].used
      /\ what = "overtaken" => h.m[d].spare = Null /\ Wants(d) # Null
  BY <1>1 DEF MemberRight, Refused, Ended
<1>3. PICK u : u = Unreserved(h, {d})
  BY Zenon
<1>4. u \in HostType /\ u.m = h.m
  BY <1>1, <1>3, UnreservedIs
<1>5. CASE ~Pending(h, d)
  <2>1. k = u
    BY <1>3, <1>4, <1>5, Zenon DEF SettledAs, Pending
  <2>. QED
    BY <1>2, <1>3, <1>5, <2>1, UnreservedKeeps
<1>6. CASE Pending(h, d)
  <2>1. PICK y : y = Says(h.m[d], what)
    BY Zenon
  <2>2. y.told = what /\ y.spare = h.m[d].spare /\ y.delivered = h.m[d].delivered
    BY <1>1, <2>1 DEF Says, MemberType
  <2>3. PICK g : g = SettledAs(h, d, what)
    BY Zenon
  <2>4. g = With(h, d, y)
    BY <1>1, <1>6, <2>1, <2>3, SettledWith
  <2>5. k = With(u, d, y)
    <3>1. Pending(u, d)
      BY <1>4, <1>6 DEF Pending
    <3>2. k = With(u, d, Says(u.m[d], what))
      BY <1>3, <1>4, <3>1, SettledWith
    <3>. QED
      BY <1>4, <2>1, <3>2
  <2>6. k = Unreserved(g, {d})
    BY <1>1, <1>3, <2>2, <2>4, <2>5, UnreservedWith
  <2>7. Right(g, n, e) /\ (Served(h) => Served(g))
    <3>1. g = SettledAll(h, {d}, what)
      BY <1>1, <2>3, SettledAsIs
    <3>2. \A c \in {d} \cap Decisions : Pending(h, c) =>
              /\ what = "unsent" => ~h.m[c].used
              /\ what = "overtaken" => h.m[c].spare = Null /\ Wants(c) # Null
              /\ what \in {"answered", "over"} => ~Runs(h, n, e, c)
              /\ what = "answered" => n[c].got = Whole(c)
      BY <1>2
    <3>. QED
      BY <1>2, <3>1, <3>2, SettledAllKeeps
  <2>8. ~Pending(g, d) /\ ~g.m[d].delivered
    BY <1>1, <1>2, <2>2, <2>4, WithIs DEF Pending
  <2>9. Right(k, n, e) /\ (Served(g) => Served(k))
    BY <2>6, <2>7, <2>8, UnreservedKeeps
  <2>. QED
    BY <2>7, <2>9
<1>. QED
  BY <1>5, <1>6

\* A decision whose registration is over stays in the batch, or falls back from a
\* spare that cannot serve it any more.
LEMMA GrantKeeps ==
    ASSUME NEW h, NEW n, NEW e, Right(h, n, e), NEW d \in Decisions, Pending(h, d), "spare" \notin h.m[d].asking,
           NEW g, g = With(h, d, Granted(h.m[d]))
    PROVE  /\ ~Ours(g, d) => Right(g, n, e) /\ (Served(h) => Served(g))
           /\ Ours(g, d) => Right(Fallback(g, d), n, e) /\ (Served(h) => Served(Fallback(g, d)))
<1>1. h \in HostType /\ h.m[d] \in MemberType /\ MemberRight(h, d) /\ Null \notin Sides
  BY SubagentsAssumption DEF Right, Typed, HostType
<1>2. PICK y : y = Granted(h.m[d])
  BY Zenon
<1>3. y.spare = h.m[d].spare /\ h.m[d].told # "none"
  BY <1>1, <1>2 DEF Granted, MemberType, Pending
<1>4. g.m[d] = y /\ g.spare = h.spare
  BY <1>1, <1>2, WithIs
<1>5. Ours(g, d) <=> Ours(h, d)
  BY <1>3, <1>4 DEF Ours
<1>6. CASE ~Ours(g, d)
  <2>1. h.m[d].spare = Null
    BY <1>1, <1>5, <1>6 DEF MemberRight
  <2>2. \A s \in Sides : h.m[d].spare = s => d \in h.side[s].members
    BY <1>1, <2>1
  <2>. QED
    BY <1>3, <1>6, <2>2, GrantedKeeps
<1>7. CASE Ours(g, d) /\ h.m[d].delivered
  <2>1. h.m[d].admitted
    BY <1>1, <1>7 DEF MemberRight
  <2>2. y = h.m[d]
    BY <1>1, <1>2, <2>1 DEF Granted, MemberType
  <2>3. g = h
    BY <1>1, <1>2, <2>2 DEF With, HostType
  <2>4. PICK ds \in SUBSET Decisions : ds = {d}
    OBVIOUS
  <2>5. Right(FallbackAll(h, ds), n, e) /\ (Served(h) => Served(FallbackAll(h, ds)))
    BY FallbackAllKeeps
  <2>. QED
    BY <1>7, <2>3, <2>4, <2>5, Zenon DEF Fallback
<1>8. CASE Ours(g, d) /\ ~h.m[d].delivered
  <2>1. h.m[d].spare # Null
    BY <1>5, <1>8 DEF Ours
  <2>2. PICK k : k = Fallback(g, d)
    BY Zenon
  <2>3. Right(k, n, e) /\ (Served(h) => Served(k))
    BY <1>8, <2>1, <2>2, GrantFalls
  <2>. QED
    BY <1>8, <2>2, <2>3, Zenon
<1>. QED
  BY <1>6, <1>7, <1>8, Zenon

\* It joins its spare's side session.
LEMMA JoinKeeps ==
    ASSUME NEW h, NEW n, NEW e, Right(h, n, e), Served(h), NEW d \in Decisions, Pending(h, d), "spare" \notin h.m[d].asking,
           NEW s, s = h.m[d].spare, NEW g, g = With(h, d, Granted(h.m[d])), Ours(g, d), Serviceable(g, d),
           NEW t, t = Put(g, s, Joined(h.side[s], d))
    PROVE  Right(t, n, e) /\ Served(t) /\ s \in Sides /\ Pending(t, d)
<1>1. h \in HostType /\ h.m[d] \in MemberType /\ Null \notin Sides /\ spec \in Specs
  BY SubagentsAssumption DEF Right, Typed, HostType
<1>2. PICK y : y = Granted(h.m[d])
  BY Zenon
<1>3. y.spare = s /\ h.m[d].told # "none" /\ y.told = h.m[d].told
  BY <1>1, <1>2 DEF Granted, MemberType, Pending
<1>4. g.m[d] = y /\ g.spare = h.spare
  BY <1>1, <1>2, WithIs
<1>5. s \in Sides /\ Held(h.spare[s][Role(d)]) /\ Role(d) \in Roles
  BY <1>1, <1>3, <1>4, RoleIs DEF Ours, Serviceable, MemberType
<1>6. h.side[s].kind = "standby"
  BY <1>5, SpareHeld
<1>7. PICK x : x = Joined(h.side[s], d)
  BY Zenon
<1>8. PICK p : p = Put(h, s, x)
  BY Zenon
<1>9. Right(p, n, e) /\ Served(p)
  BY <1>5, <1>6, <1>7, <1>8, MembersKeep
<1>10. h.side[s] \in SideType
  BY <1>1, <1>5 DEF HostType
<1>11. d \in x.members
  BY <1>7, <1>10, JoinedIs
<1>12. p.m = h.m /\ p.side[s] = x
  BY <1>1, <1>5, <1>8, PutIs
<1>13. \A u \in Sides : p.m[d].spare = u => d \in p.side[u].members
  BY <1>11, <1>12
<1>14. t = With(p, d, y)
  BY <1>1, <1>2, <1>5, <1>7, <1>8, PutWith
<1>15. y = Granted(p.m[d]) /\ p.m[d].told # "none"
  BY <1>2, <1>3, <1>12
<1>16. t = With(p, d, Granted(p.m[d]))
  BY <1>14, <1>15
<1>17. Right(t, n, e) /\ (Served(p) => Served(t))
  BY <1>9, <1>12, <1>13, <1>15, <1>16, GrantedKeeps
<1>18. t.m[d] = y
  BY <1>9, <1>14, WithIs DEF Right, Typed
<1>. QED
  BY <1>3, <1>5, <1>9, <1>17, <1>18 DEF Pending

\* The wait for a spare that is starting is timed.
LEMMA TimedKeeps ==
    ASSUME NEW h, NEW n, NEW e, Right(h, n, e), Served(h), NEW d \in Decisions, Pending(h, d),
           NEW g, g = With(h, d, Timed(h.m[d]))
    PROVE  Right(g, n, e) /\ Served(g)
<1>1. h \in HostType /\ h.m[d] \in MemberType /\ h.out = Null
  BY DEF Right, Typed, HostType
<1>2. PICK y : y = Timed(h.m[d])
  BY Zenon
<1>3. y \in MemberType /\ SameMember(h.m[d], y) /\ y.admitted = h.m[d].admitted /\ y.asking = h.m[d].asking
  BY <1>1, <1>2 DEF Timed, MemberType, SameMember, Pending
<1>4. Aside(h, g)
  BY <1>1, <1>2, <1>3, WithAside
<1>. QED
  BY <1>4, AsideKeeps

\* Reserved: the registration of a decision on a spare is answered.
LEMMA ReservedStep == ASSUME GroupInv, NEW d \in Decisions, Reserved(d) PROVE GroupInv'
<1>1. /\ host \in HostType /\ host.out = Null /\ Right(host, native, Null) /\ Served(host)
      /\ host.m[d] \in MemberType /\ MemberRight(host, d)
  BY InvIs DEF Right
<1>2. "spare" \in host.m[d].asking
  BY Zenon DEF Reserved
<1>3. host.m[d].told # "none"
  BY <1>1, <1>2 DEF MemberRight, Blank
<1>4. PICK x : x = Unasked(host.m[d], "spare")
  BY Zenon
<1>5. x.told = host.m[d].told /\ x.spare = host.m[d].spare /\ x.asking = host.m[d].asking \ {"spare"}
  BY <1>1, <1>3, <1>4, UnaskedIs
<1>6. PICK h : h = With(host, d, x)
  BY Zenon
<1>7. h = [host EXCEPT !.m[d].asking = @ \ {"spare"}] /\ h.m[d] = x /\ h \in HostType
  <2>1. x \in MemberType
    BY <1>1, <1>3, <1>4, UnaskedIs
  <2>2. h.m[d] = x /\ h \in HostType
    BY <1>1, <1>6, <2>1, WithIs
  <2>3. h = [host EXCEPT !.m[d].asking = @ \ {"spare"}]
    BY <1>1, <1>4, <1>6 DEF HostType, With, Unasked
  <2>. QED
    BY <2>2, <2>3
<1>8. Right(h, native, Null) /\ Served(h)
  BY <1>1, <1>3, <1>4, <1>6, SpareUnasked
<1>9. PICK s : s = h.m[d].spare
  BY Zenon
<1>10. PICK g : g = With(h, d, Granted(h.m[d]))
  BY Zenon
<1>11. g = [h EXCEPT !.m[d].admitted = TRUE]
  BY <1>7, <1>10 DEF HostType, With, Granted
<1>12. PICK t : t = [g EXCEPT !.side[s].members = @ \cup {d}]
  BY Zenon
<1>13. (Pending(h, d) <=> Pending(host, d)) /\ "spare" \notin h.m[d].asking
  BY <1>5, <1>7 DEF Pending
<1>14. \/ d \in spec.refused /\ Ends(SettledAs(Unreserved(h, {d}), d, Refused(h, d)), Null)
       \/ ~Pending(host, d) /\ Given(h, d) /\ Ends(h, Null)
       \/ ~Pending(host, d) /\ ~Given(h, d) /\ Ends(Unreserved(h, {d}), Null)
       \/ /\ Pending(host, d)
          /\ \/ ~Ours(g, d) /\ Ends(g, Null)
             \/ Ours(g, d) /\ ~Serviceable(g, d) /\ Ends(Fallback(g, d), Null)
             \/ Ours(g, d) /\ Serviceable(g, d) /\ Ends(Deliver(t, s, Role(d)), Null)
             \/ Ours(g, d) /\ Serviceable(g, d) /\ Ends([t EXCEPT !.m[d].timer = TRUE], Null)
  BY <1>7, <1>9, <1>11, <1>12, ReservedIs
<1>15. CASE d \in spec.refused /\ Ends(SettledAs(Unreserved(h, {d}), d, Refused(h, d)), Null)
  <2>1. PICK what, k : what = Refused(h, d) /\ k = SettledAs(Unreserved(h, {d}), d, what)
    BY Zenon
  <2>2. Right(k, native, Null) /\ Served(k)
    <3>1. h.m[d].told # "none"
      BY <1>3, <1>5, <1>7
    <3>2. h.m[d].used => h.m[d].spare = Null /\ Wants(d) # Null
      BY <1>1, <1>2, <1>5, <1>7, <1>8 DEF MemberRight, Right
    <3>. QED
      BY <1>8, <2>1, <3>1, <3>2, RefusedKeeps
  <2>. QED
    BY <1>15, <2>1, <2>2, RightStep
<1>16. CASE ~Pending(host, d) /\ Given(h, d) /\ Ends(h, Null)
  BY <1>8, <1>16, RightStep
<1>17. CASE ~Pending(host, d) /\ ~Given(h, d) /\ Ends(Unreserved(h, {d}), Null)
  <2>1. PICK k : k = Unreserved(h, {d})
    BY Zenon
  <2>2. Right(k, native, Null) /\ Served(k)
    BY <1>8, <1>13, <1>17, <2>1, UnreservedKeeps DEF Given
  <2>. QED
    BY <1>17, <2>1, <2>2, RightStep
<1>18. CASE Pending(host, d) /\ ~Ours(g, d) /\ Ends(g, Null)
  <2>1. Right(g, native, Null) /\ Served(g)
    BY <1>8, <1>10, <1>13, <1>18, GrantKeeps
  <2>. QED
    BY <1>18, <2>1, RightStep
<1>19. CASE Pending(host, d) /\ Ours(g, d) /\ Ends(Fallback(g, d), Null)
  <2>1. Right(Fallback(g, d), native, Null) /\ Served(Fallback(g, d))
    BY <1>8, <1>10, <1>13, <1>19, GrantKeeps
  <2>. QED
    BY <1>19, <2>1, RightStep
<1>20. CASE /\ Pending(host, d) /\ Ours(g, d) /\ Serviceable(g, d)
            /\ Ends(Deliver(t, s, Role(d)), Null) \/ Ends([t EXCEPT !.m[d].timer = TRUE], Null)
  <2>1. g \in HostType /\ g.side = h.side
    <3>1. h.m[d] \in MemberType /\ h.m[d].told # "none"
      BY <1>3, <1>5, <1>7 DEF HostType
    <3>2. PICK y \in MemberType : y = Granted(h.m[d])
      BY <1>13, <3>1, GrantedIs
    <3>3. g = With(h, d, y)
      BY <1>10, <3>2
    <3>4. h \in HostType
      BY <1>7
    <3>5. With(h, d, y) \in HostType /\ With(h, d, y).side = h.side
      BY <3>2, <3>4, WithIs
    <3>. QED
      BY <3>3, <3>5
  <2>2. PICK j : j = Joined(h.side[s], d)
    BY Zenon
  <2>3. PICK p : p = Put(g, s, j)
    BY Zenon
  <2>4. Right(p, native, Null) /\ Served(p) /\ s \in Sides /\ Pending(p, d)
    BY <1>8, <1>9, <1>10, <1>13, <1>20, <2>2, <2>3, JoinKeeps
  <2>5. t = p
    BY <1>12, <2>1, <2>2, <2>3, <2>4 DEF Put, Joined, HostType
  <2>6. CASE Ends(Deliver(t, s, Role(d)), Null)
    <3>1. PICK k : k = Deliver(t, s, Role(d))
      BY Zenon
    <3>2. Role(d) \in Roles
      BY InvIs, RoleIs
    <3>3. \/ Right(k, native, Null) /\ Served(k)
          \/ Ends(k, Null) => GroupInv'
      BY <2>4, <2>5, <3>1, <3>2, DeliverKeeps
    <3>. QED
      BY <2>6, <3>1, <3>3, RightStep
  <2>7. CASE Ends([t EXCEPT !.m[d].timer = TRUE], Null)
    <3>1. PICK k : k = With(t, d, Timed(t.m[d]))
      BY Zenon
    <3>2. t \in HostType
      BY <2>4, <2>5 DEF Right, Typed
    <3>3. k = [t EXCEPT !.m[d].timer = TRUE]
      BY <3>1, <3>2 DEF With, Timed, HostType
    <3>4. Right(k, native, Null) /\ Served(k)
      BY <2>4, <2>5, <3>1, TimedKeeps
    <3>. QED
      BY <2>7, <3>3, <3>4, RightStep
  <2>. QED
    BY <1>20, <2>6, <2>7
<1>. QED
  BY <1>14, <1>15, <1>16, <1>17, <1>18, <1>19, <1>20

\* The spare that forgets its decision.
LEMMA SpareForgetsIs == ASSUME NEW x \in SpareType PROVE SpareForgets(x) \in SpareType
BY DEF SpareForgets, SpareType

\* It leaves its spare and its side session.
LEMMA WithdrawnIs ==
    ASSUME NEW h \in HostType, NEW d \in Decisions, NEW s \in Sides, s = h.m[d].spare, Ours(h, d), spec \in Specs,
           NEW k, GivesBack(h, d, s, k), NEW x, x = Leaves(h.side[s], d)
    PROVE  k = Put(Unreserved(h, {d}), s, x)
<1>1. PICK r : r = Role(d)
  BY Zenon
<1>2. r \in Roles /\ h.spare[s][r].member = d
  BY <1>1, RoleIs DEF Ours
<1>30. PICK o : o = h.spare[s][r]
  BY Zenon
<1>31. PICK c : c = SpareForgets(o)
  BY Zenon
<1>32. PICK q : q = [h.spare[s] EXCEPT ![r] = c]
  BY Zenon
<1>3. PICK w : w = [h.spare EXCEPT ![s] = q]
  BY Zenon
<1>4. PICK f : f = Forgotten(h, d)
  BY Zenon
<1>5. f = w
  <2>1. h.spare \in [Sides -> [Roles -> SpareType]]
    BY DEF HostType
  <2>2. w \in [Sides -> [Roles -> SpareType]]
    <3>1. h.spare[s][r] \in SpareType /\ h.spare[s] \in [Roles -> SpareType]
      BY <1>2, <2>1
    <3>2. c \in SpareType
      BY <1>30, <1>31, <3>1, SpareForgetsIs
    <3>3. q \in [Roles -> SpareType]
      BY <1>32, <3>1, <3>2
    <3>. QED
      BY <1>3, <2>1, <3>3
  <2>25. /\ w[s] = q /\ q[r] = c
         /\ \A a \in Sides : a = s \/ w[a] = h.spare[a]
         /\ \A b \in Roles : b = r \/ q[b] = h.spare[s][b]
    BY <1>2, <1>3, <1>32, <2>1
  <2>3. ASSUME NEW a \in Sides PROVE f[a] = w[a]
    <3>1. ASSUME NEW b \in Roles PROVE f[a][b] = w[a][b]
      <4>1. f[a][b] = IF h.spare[a][b].member \in {d} /\ h.m[h.spare[a][b].member].spare = a /\ Role(h.spare[a][b].member) = b
                      THEN [h.spare[a][b] EXCEPT !.member = Null] ELSE h.spare[a][b]
        BY <1>4 DEF Forgotten
      <4>2. CASE a = s /\ b = r
        <5>1. w[a][b] = [h.spare[a][b] EXCEPT !.member = Null]
          BY <1>30, <1>31, <2>25, <4>2, Zenon DEF SpareForgets
        <5>2. f[a][b] = [h.spare[a][b] EXCEPT !.member = Null]
          <6>1. h.spare[a][b].member = d /\ h.m[d].spare = a /\ Role(d) = b
            BY <1>1, <1>2, <4>2
          <6>. QED
            BY <4>1, <6>1, Zenon
        <5>. QED
          BY <5>1, <5>2, Zenon
      <4>3. CASE ~(a = s /\ b = r)
        <5>1. w[a][b] = h.spare[a][b]
          BY <2>25, <4>3
        <5>2. f[a][b] = h.spare[a][b]
          BY <1>1, <4>1, <4>3
        <5>. QED
          BY <5>1, <5>2, Zenon
      <4>. QED
        BY <4>2, <4>3
    <3>2. w[a] = [b \in Roles |-> w[a][b]]
      BY <2>2
    <3>3. f[a] = [b \in Roles |-> f[a][b]]
      BY <1>4 DEF Forgotten
    <3>. QED
      BY <3>1, <3>2, <3>3
  <2>4. f = [a \in Sides |-> f[a]]
    BY <1>4 DEF Forgotten
  <2>5. w = [a \in Sides |-> w[a]]
    BY <2>2
  <2>. QED
    BY <2>3, <2>4, <2>5
<1>6. Unreserved(h, {d}) = Respared(h, w)
  <2>1. Unreserved(h, {d}) = Respared(h, Forgotten(h, d))
    BY DEF Unreserved, Respared, Forgotten, HostType
  <2>. QED
    BY <1>4, <1>5, <2>1, Zenon
<1>7. k = Put(Respared(h, w), s, x)
  <2>1. k = [h EXCEPT !.spare = w, !.side = [h.side EXCEPT ![s] = x]]
    <3>1. PICK v : v = [h.side EXCEPT ![s] = x]
      BY Zenon
    <3>2. k = [h EXCEPT !.spare = w, !.side[s].members = @ \ {d}]
      BY <1>1, <1>3, <1>30, <1>31, <1>32, Zenon DEF GivesBack, SpareForgets
    <3>3. k = [h EXCEPT !.spare = w, !.side = v]
      BY <3>1, <3>2 DEF HostType, Leaves
    <3>. QED
      BY <3>1, <3>3, Zenon
  <2>. QED
    BY <2>1 DEF Put, Respared, HostType
<1>. QED
  BY <1>6, <1>7, Zenon

\* A decision that was reserved and never sent is refused, and its spare is free.
LEMMA WithdrawnKeeps ==
    ASSUME NEW h, NEW n, NEW e, Right(h, n, e), Served(h), NEW d \in Decisions, Pending(h, d), ~h.m[d].delivered,
           NEW s, s = h.m[d].spare, s # Null, NEW k, GivesBack(h, d, s, k), NEW g, g = SettledAs(k, d, "unsent")
    PROVE  Right(g, n, e) /\ Served(g)
<1>1. h \in HostType /\ h.m[d] \in MemberType /\ MemberRight(h, d) /\ Null \notin Sides /\ spec \in Specs
  BY SubagentsAssumption DEF Right, Typed, HostType
<1>2. s \in Sides /\ Ours(h, d) /\ ~h.m[d].used
  BY <1>1 DEF MemberRight, MemberType
<1>3. PICK y : y = Says(h.m[d], "unsent")
  BY Zenon
<1>4. y.told = "unsent" /\ y.spare = h.m[d].spare /\ y.delivered = h.m[d].delivered
  BY <1>1, <1>3 DEF Says, MemberType
<1>5. PICK f : f = SettledAs(h, d, "unsent")
  BY Zenon
<1>6. f = With(h, d, y)
  BY <1>1, <1>3, <1>5, SettledWith
<1>7. Right(f, n, e) /\ Served(f)
  <2>1. f = SettledAll(h, {d}, "unsent") /\ "unsent" \in Ended
    BY <1>1, <1>5, SettledAsIs DEF Ended
  <2>3. PICK what : what = "unsent"
    BY Zenon
  <2>4. \A c \in {d} \cap Decisions : Pending(h, c) =>
            /\ what = "unsent" => ~h.m[c].used
            /\ what \in {"answered", "over"} => ~Runs(h, n, e, c)
            /\ what = "answered" => n[c].got = Whole(c)
    BY <1>2, <2>3
  <2>5. Right(SettledAll(h, {d}, what), n, e) /\ (Served(h) => Served(SettledAll(h, {d}, what)))
    BY <2>1, <2>3, <2>4, SettledAllKeeps
  <2>. QED
    BY <2>1, <2>3, <2>5
<1>8. f.side = h.side /\ f.m[d] = y /\ f \in HostType
  <2>1. f.side = h.side /\ f.m[d] = y
    BY <1>1, <1>6, WithIs
  <2>. QED
    BY <1>7, <2>1 DEF Right, Typed
<1>9. PICK u : u = Unreserved(f, {d})
  BY Zenon
<1>10. Right(u, n, e) /\ Served(u)
  BY <1>4, <1>7, <1>8, <1>9, UnreservedKeeps DEF Pending
<1>11. u.side = h.side /\ u.m[d] = y
  BY <1>8, <1>9, UnreservedIs
<1>12. PICK x : x = Leaves(h.side[s], d)
  BY Zenon
<1>13. h.side[s].kind = "standby"
  <2>0. PICK r : r = Role(d)
    BY Zenon
  <2>1. r \in Roles /\ h.spare[s][r].member # Null
    BY <1>1, <1>2, <2>0, RoleIs, SubagentsAssumption DEF Ours
  <2>2. SpareRight(h, s, r)
    BY <1>2, <2>1 DEF Right
  <2>3. NoSpare.member = Null
    BY DEF NoSpare
  <2>. QED
    BY <2>1, <2>2, <2>3, Zenon DEF SpareRight
<1>14. Right(Put(u, s, x), n, e) /\ Served(Put(u, s, x))
  <2>1. u.side[s].kind = "standby" /\ x = Leaves(u.side[s], d) /\ ~Pending(u, d)
    BY <1>4, <1>11, <1>12, <1>13 DEF Pending
  <2>. QED
    BY <1>2, <1>10, <2>1, MembersKeep
<1>15. g = Put(u, s, x)
  <2>1. PICK v : v = Unreserved(h, {d})
    BY Zenon
  <2>2. v \in HostType /\ v.m = h.m
    BY <1>1, <2>1, UnreservedIs
  <2>3. k = Put(v, s, x)
    <3>1. k = Put(Unreserved(h, {d}), s, x)
      BY <1>1, <1>2, <1>12, WithdrawnIs, SMTT(30)
    <3>. QED
      BY <2>1, <3>1, Zenon
  <2>4. u = With(v, d, y)
    BY <1>1, <1>4, <1>6, <1>9, <2>1, UnreservedWith
  <2>5. Put(u, s, x) = With(k, d, y)
    BY <1>2, <2>2, <2>3, <2>4, PutWith
  <2>6. k.m = h.m
    BY <1>2, <2>2, <2>3, PutIs
  <2>7. k \in HostType
    <3>1. h.side[s] \in SideType
      BY <1>1, <1>2 DEF HostType
    <3>2. x \in SideType
      BY <1>12, <3>1, JoinedIs
    <3>. QED
      BY <1>2, <2>2, <2>3, <3>2, PutIs
  <2>8. Pending(k, d)
    BY <2>6 DEF Pending
  <2>9. g = With(k, d, Says(k.m[d], "unsent"))
    BY <2>7, <2>8, SettledWith
  <2>. QED
    BY <1>3, <2>5, <2>6, <2>9
<1>. QED
  BY <1>14, <1>15

\* The stop of its subagent is awaited.
LEMMA StoppingKeeps ==
    ASSUME NEW h, NEW n, NEW e, Right(h, n, e), Served(h), NEW d \in Decisions, h.m[d].told # "none", NEW s \in Sides,
           NEW g, g = With(h, d, Stopping(h.m[d], s))
    PROVE  Right(g, n, e) /\ Served(g)
<1>1. h \in HostType /\ h.m[d] \in MemberType /\ h.out = Null
  BY DEF Right, Typed, HostType
<1>2. PICK y : y = Stopping(h.m[d], s)
  BY Zenon
<1>3. y \in MemberType /\ SameMember(h.m[d], y) /\ y.admitted = h.m[d].admitted /\ y.asking = h.m[d].asking
  BY <1>1, <1>2 DEF Stopping, MemberType, SameMember
<1>4. Aside(h, g)
  BY <1>1, <1>2, <1>3, WithAside
<1>. QED
  BY <1>4, AsideKeeps

\* Rejected while its subagent is to be stopped.
LEMMA ToldKeeps ==
    ASSUME NEW h, NEW n, NEW e, Right(h, n, e), Served(h), NEW d \in Decisions, Pending(h, d),
           NEW what \in {"unsent", "stopping"}, what = "unsent" => ~h.m[d].used,
           NEW g, g = SettledAs(h, d, what)
    PROVE  Right(g, n, e) /\ Served(g) /\ g.m[d].told # "none"
<1>1. h \in HostType /\ h.m[d] \in MemberType /\ what \in Ended
  BY DEF Right, Typed, HostType, Ended
<1>2. g = SettledAll(h, {d}, what)
  BY <1>1, SettledAsIs
<1>3. \A c \in {d} \cap Decisions : Pending(h, c) =>
         /\ what = "unsent" => ~h.m[c].used
         /\ what \in {"answered", "over"} => ~Runs(h, n, e, c)
         /\ what = "answered" => n[c].got = Whole(c)
  OBVIOUS
<1>4. Right(SettledAll(h, {d}, what), n, e) /\ (Served(h) => Served(SettledAll(h, {d}, what)))
  BY <1>1, <1>3, SettledAllKeeps
<1>5. g = With(h, d, Says(h.m[d], what))
  BY <1>1, SettledWith
<1>6. Says(h.m[d], what).told = what
  BY <1>1, SaysIs
<1>7. g.m[d] = Says(h.m[d], what)
  BY <1>1, <1>5, WithIs
<1>. QED
  BY <1>2, <1>4, <1>6, <1>7

\* What _withdraw does, by case.
LEMMA WithdrawIs ==
    ASSUME NEW d, Withdraw(d), NEW h, h = Withdraws(host, d)
    PROVE  /\ Pending(host, d)
           /\ \/ ~Sent(h, d) /\ Ends(SettledAs(h, d, "unsent"), Null)
              \/ Sent(h, d) /\ Ends(SettledAs(h, d, "stopping"), Null)
              \/ Sent(h, d) /\ \E s : /\ h.m[d].spare # Null => s = First({h.m[d].spare})
                                      /\ h.m[d].spare = Null => \E ss \in SUBSET Sides : ss # {} /\ s = First(ss)
                                      /\ \/ Ends([SettledAs(h, d, "stopping") EXCEPT !.m[d].stop = s], Null)
                                         \/ Ends(Killed(SettledAs(h, d, "stopping"), s), Null)
<1>1. PICK at : at = IF h.m[d].spare # Null THEN {h.m[d].spare}
                     ELSE {s \in Sides : h.group # "released" /\ h.side[s].in /\ d \in h.side[s].members}
  BY Zenon
<1>2. PICK g : g = SettledAs(h, d, "stopping")
  BY Zenon
<1>3. PICK s : s = First(at)
  BY Zenon
<1>4. /\ Pending(host, d)
      /\ \/ ~Sent(h, d) /\ Ends(SettledAs(h, d, "unsent"), Null)
         \/ Sent(h, d) /\ at = {} /\ Ends(g, Null)
         \/ Sent(h, d) /\ at # {} /\ (Ends([g EXCEPT !.m[d].stop = s], Null) \/ Ends(Killed(g, s), Null))
  BY <1>1, <1>2, <1>3, Zenon DEF Withdraw, Step
<1>5. h.m[d].spare # Null => at = {h.m[d].spare}
  BY <1>1
<1>6. h.m[d].spare = Null => at \in SUBSET Sides
  BY <1>1
<1>7. CASE Sent(h, d) /\ at # {} /\ (Ends([g EXCEPT !.m[d].stop = s], Null) \/ Ends(Killed(g, s), Null))
  BY <1>2, <1>3, <1>4, <1>5, <1>6, <1>7, Zenon
<1>. QED
  BY <1>2, <1>4, <1>7, Zenon

\* Withdraw: a decision is given up at its deadline.
LEMMA WithdrawStep == ASSUME GroupInv, NEW d \in Decisions, Withdraw(d) PROVE GroupInv'
<1>1. /\ host \in HostType /\ host.out = Null /\ Right(host, native, Null) /\ Served(host)
      /\ host.m[d] \in MemberType /\ MemberRight(host, d)
  BY InvIs DEF Right
<1>2. PICK h : h = Withdraws(host, d)
  BY Zenon
<1>3. /\ Pending(host, d)
      /\ \/ ~Sent(h, d) /\ Ends(SettledAs(h, d, "unsent"), Null)
         \/ Sent(h, d) /\ Ends(SettledAs(h, d, "stopping"), Null)
         \/ Sent(h, d) /\ \E s : /\ h.m[d].spare # Null => s = First({h.m[d].spare})
                                 /\ h.m[d].spare = Null => \E ss \in SUBSET Sides : ss # {} /\ s = First(ss)
                                 /\ \/ Ends([SettledAs(h, d, "stopping") EXCEPT !.m[d].stop = s], Null)
                                    \/ Ends(Killed(SettledAs(h, d, "stopping"), s), Null)
  BY <1>2, WithdrawIs
<1>4. CASE host.m[d].spare # Null /\ ~host.m[d].delivered
  <2>1. PICK s : s = host.m[d].spare
    BY Zenon
  <2>2. h = [host EXCEPT !.spare[s][Role(d)].member = Null, !.side[s].members = @ \ {d}]
    BY <1>2, <1>4, <2>1, Zenon DEF Withdraws, Given
  <2>3. GivesBack(host, d, s, h)
    BY <2>2, Zenon DEF GivesBack
  <2>4. h.m = host.m
    BY <1>1, <2>2 DEF HostType
  <2>5. ~Sent(h, d)
    BY <1>4, <2>4, Zenon DEF Sent, Given
  <2>6. PICK g : g = SettledAs(h, d, "unsent")
    BY Zenon
  <2>7. Right(g, native, Null) /\ Served(g)
    BY <1>1, <1>3, <1>4, <2>1, <2>3, <2>6, WithdrawnKeeps
  <2>8. Ends(g, Null)
    BY <1>3, <2>5, <2>6, Zenon
  <2>. QED
    BY <2>7, <2>8, RightStep
<1>5. CASE host.m[d].spare = Null \/ host.m[d].delivered
  <2>1. h = host
    BY <1>2, <1>5, Zenon DEF Withdraws, Given
  <2>2. CASE ~Sent(h, d) /\ Ends(SettledAs(h, d, "unsent"), Null)
    <3>1. ~host.m[d].used
      BY <1>5, <2>1, <2>2 DEF Sent, Given
    <3>2. PICK what \in {"unsent", "stopping"} : what = "unsent"
      OBVIOUS
    <3>3. PICK g : g = SettledAs(host, d, what)
      BY Zenon
    <3>4. Right(g, native, Null) /\ Served(g)
      BY <1>1, <1>3, <3>1, <3>3, ToldKeeps
    <3>. QED
      BY <2>1, <2>2, <3>2, <3>3, <3>4, RightStep
  <2>3. PICK g : g = SettledAs(host, d, "stopping")
    BY Zenon
  <2>4. Right(g, native, Null) /\ Served(g) /\ g.m[d].told # "none"
    <3>1. PICK what \in {"unsent", "stopping"} : what = "stopping"
      OBVIOUS
    <3>2. g = SettledAs(host, d, what) /\ (what = "unsent" => ~host.m[d].used)
      BY <2>3, <3>1
    <3>. QED
      BY <1>1, <1>3, <3>2, ToldKeeps
  <2>5. CASE Sent(h, d) /\ Ends(SettledAs(h, d, "stopping"), Null)
    BY <2>1, <2>3, <2>4, <2>5, RightStep
  <2>6. ASSUME NEW s, host.m[d].spare # Null => s = First({host.m[d].spare}),
               host.m[d].spare = Null => \E ss \in SUBSET Sides : ss # {} /\ s = First(ss),
               \/ Ends([g EXCEPT !.m[d].stop = s], Null)
               \/ Ends(Killed(g, s), Null)
        PROVE  GroupInv'
    <3>1. s \in Sides
      <4>1. CASE host.m[d].spare # Null
        <5>1. {host.m[d].spare} \in SUBSET Sides /\ {host.m[d].spare} # {}
          BY <1>1, <4>1 DEF MemberType
        <5>2. First({host.m[d].spare}) \in {host.m[d].spare}
          BY <5>1, FirstIsMember
        <5>. QED
          BY <2>6, <4>1, <5>1, <5>2
      <4>2. CASE host.m[d].spare = Null
        <5>1. PICK ss \in SUBSET Sides : ss # {} /\ s = First(ss)
          BY <2>6, <4>2
        <5>. QED
          BY <5>1, FirstIsMember
      <4>. QED
        BY <4>1, <4>2
    <3>2. PICK k : k = With(g, d, Stopping(g.m[d], s))
      BY Zenon
    <3>3. Right(k, native, Null) /\ Served(k)
      BY <2>4, <3>1, <3>2, StoppingKeeps
    <3>4. k = [g EXCEPT !.m[d].stop = s]
      BY <2>4, <3>2 DEF Right, Typed, HostType, With, Stopping
    <3>5. Right(Killed(g, s), native, Null) /\ Served(Killed(g, s))
      BY <2>4, KilledKeeps
    <3>. QED
      BY <2>6, <3>3, <3>4, <3>5, RightStep
  <2>. QED
    BY <1>3, <2>1, <2>2, <2>3, <2>5, <2>6, Zenon
<1>. QED
  BY <1>4, <1>5

----------------------------------------------------------------------------
(* The invariant holds, and what follows from it                            *)

\* At first nothing is asked and no side session runs.
LEMMA InitTyped == ASSUME SubagentsInit PROVE Typed(host, native, Null)
<1>1. <<"input">> \in Text
  BY DEF Text
<1>2. Blank \in MemberType
  BY <1>1 DEF Blank, MemberType
<1>3. NoSpare \in SpareType
  BY DEF NoSpare, SpareType
<1>4. NoSide \in SideType
  BY DEF NoSide, SideType
<1>5. /\ spec \in Specs
      /\ host = [m |-> [d \in Decisions |-> Blank],
                 side |-> [s \in Sides |-> NoSide], spare |-> [s \in Sides |-> [r \in Roles |-> NoSpare]],
                 batch |-> <<>>, timer |-> FALSE, waiting |-> <<>>, defs |-> {},
                 desired |-> [r \in Roles |-> Null], asked |-> 0, backoff |-> FALSE, out |-> Null,
                 group |-> "live", ending |-> {}, closed |-> FALSE]
  BY Zenon DEF SubagentsInit, Blank
<1>6. /\ [d \in Decisions |-> Blank] \in [Decisions -> MemberType]
      /\ [s \in Sides |-> NoSide] \in [Sides -> SideType]
      /\ [s \in Sides |-> [r \in Roles |-> NoSpare]] \in [Sides -> [Roles -> SpareType]]
      /\ <<>> \in Seq(Decisions) /\ <<>> \in Seq(SUBSET Decisions)
      /\ [r \in Roles |-> Null] \in [Roles -> Contexts \cup {Null}]
  BY <1>2, <1>3, <1>4
<1>7. host \in HostType /\ host.out = Null
  BY <1>5, <1>6 DEF HostType
<1>8. <<>> \in Text
  BY DEF Text
<1>9. native \in NativeType
  BY <1>8, Zenon DEF SubagentsInit, NativeType
<1>. QED
  BY <1>5, <1>7, <1>9 DEF Typed

\* Nothing is asked, no side session runs and no spare is held.
LEMMA InitIs ==
    ASSUME SubagentsInit
    PROVE  /\ \A d \in Decisions : host.m[d] = Blank /\ native[d].run = "none" /\ native[d].on = Null /\ native[d].runs = 0
           /\ \A s \in Sides : host.side[s] = NoSide /\ \A r \in Roles : host.spare[s][r] = NoSpare
           /\ host.batch = <<>> /\ host.waiting = <<>>
BY DEF SubagentsInit, Blank

\* What nothing asked, no side session and no spare say.
LEMMA BlanksAre ==
    /\ Blank.told = "none" /\ Blank.asking = {} /\ ~Blank.used /\ ~Blank.admitted /\ ~Blank.delivered /\ Blank.spare = Null
    /\ NoSide.chunk = {} /\ NoSide.listed = {} /\ NoSide.members = {} /\ NoSide.phase = "idle" /\ NoSide.kind = "none"
    /\ ~NoSide.gone /\ ~NoSide.in /\ ~NoSpare.pending /\ ~NoSpare.used /\ NoSpare.member = Null
BY DEF Blank, NoSide, NoSpare

\* The invariant holds at first.
LEMMA GroupInit == SubagentsInit => GroupInv
<1> SUFFICES ASSUME SubagentsInit PROVE GroupInv
  OBVIOUS
<1>1. /\ \A d \in Decisions : host.m[d] = Blank /\ native[d].run = "none" /\ native[d].on = Null /\ native[d].runs = 0
      /\ \A s \in Sides : host.side[s] = NoSide /\ \A r \in Roles : host.spare[s][r] = NoSpare
      /\ host.batch = <<>> /\ host.waiting = <<>>
  BY InitIs
<1>2. ASSUME NEW d \in Decisions PROVE MemberRight(host, d) /\ ApartOn(host, d) /\ AgreeOn(host, native, Null, d)
  <2>1. host.m[d] = Blank /\ native[d].run = "none" /\ native[d].on = Null /\ native[d].runs = 0
    BY <1>1
  <2>2. MemberRight(host, d)
    BY <2>1, BlanksAre DEF MemberRight, Pending
  <2>3. ~Waits(host, d) /\ ~Batched(host, d)
    BY <1>1 DEF Waits, Batched
  <2>4. ApartOn(host, d)
    <3>1. \A s \in Sides : d \notin host.side[s].chunk
      BY <1>1, BlanksAre
    <3>2. \A i : i \notin 1..Len(host.waiting) /\ i \notin 1..Len(host.batch)
      BY <1>1
    <3>. QED
      BY <2>3, <3>1, <3>2, Zenon DEF ApartOn
  <2>5. AgreeOn(host, native, Null, d)
    BY <2>1, BlanksAre DEF AgreeOn, Runs
  <2>. QED
    BY <2>2, <2>4, <2>5
<1>3. \A s \in Sides, r \in Roles : SpareRight(host, s, r)
  BY <1>1, BlanksAre DEF SpareRight
<1>4. \A s \in Sides : SideRight(host, s)
  BY <1>1, BlanksAre DEF SideRight
<1>5. \A s \in Sides, d \in Decisions : HeldRight(host, s, d)
  BY <1>1, BlanksAre DEF HeldRight
<1>6. Kept(host, Null)
  <2>1. \A d \in Decisions : KeptOn(host, Null, d)
    BY <1>1, BlanksAre DEF KeptOn, Pending
  <2>. QED
    BY <1>1, <2>1, BlanksAre DEF Kept
<1>7. Right(host, native, Null)
  BY <1>2, <1>3, <1>4, <1>5, <1>6, InitTyped DEF Right
<1>. QED
  BY <1>1, <1>7 DEF GroupInv, Served, Rest

\* Each step keeps it.
LEMMA GroupNext == GroupInv /\ [SubagentsNext]_subagentsVars => GroupInv'
<1> SUFFICES ASSUME GroupInv, [SubagentsNext]_subagentsVars PROVE GroupInv'
  OBVIOUS
<1>1. CASE UNCHANGED subagentsVars
  <2>1. host' = host /\ native' = native /\ spec' = spec
    BY <1>1 DEF subagentsVars
  <2>2. Right(host', native', Null) /\ Served(host') /\ Rest(host', native')
    BY <2>1, Zenon DEF GroupInv
  <2>. QED
    BY <2>1, <2>2, InvNext
<1>2. ASSUME NEW d \in Decisions, \/ Decide(d) \/ Reserved(d) \/ ReserveTimer(d) \/ Withdraw(d) \/ StopAnswered(d)
                                  \/ Unheard(d)
      PROVE  GroupInv'
  BY <1>2, DecideStep, ReservedStep, ReserveTimerStep, WithdrawStep, StopAnsweredStep, UnheardStep
<1>3. ASSUME BatchTimer \/ Prestart \/ ReleaseGroup \/ Released \/ Close \/ CloseIdle \/ BackoffOver
      PROVE  GroupInv'
  BY <1>3, BatchTimerStep, PrestartStep, ReleaseGroupStep, ReleasedStep, CloseStep, CloseIdleStep, BackoffOverStep
<1>4. ASSUME NEW s \in Sides, \/ Ready(s) \/ FanOut(s) \/ Dispatch(s) \/ Standby(s) \/ Interrupts(s) \/ TurnResult(s)
                              \/ Unanswered(s) \/ Rewound(s) \/ Exits(s) \/ GivenUpOn(s)
      PROVE  GroupInv'
  BY <1>4, ReadyStep, FanOutStep, DispatchStep, StandbyStepStep, InterruptsStep, TurnResultStep, UnansweredStep,
     RewoundStep, ExitsStep, GivenUpOnStep
<1>5. ASSUME NEW s \in Sides, NEW d \in Decisions, FanAdmitted(s, d) \/ Called(s, d) \/ TaskStarted(s, d) \/ Notified(s, d)
      PROVE  GroupInv'
  BY <1>5, FanAdmittedStep, CalledStep, TaskStartedStep, NotifiedStep
<1>6. ASSUME NEW s \in Sides, NEW r \in Roles, Acts(s, r) \/ SpareStarts(s, r) \/ Moment(s, r) \/ SpareNotified(s, r)
      PROVE  GroupInv'
  BY <1>6, ActsStep, SpareStartsStep, MomentStep, SpareNotifiedStep
<1>7. CASE SubagentsNext
  BY <1>2, <1>3, <1>4, <1>5, <1>6, <1>7, Zenon DEF SubagentsNext
<1>. QED
  BY <1>1, <1>7

\* The invariant holds, for any decisions, roles, contexts and bounds.
THEOREM SubagentsInvariant == SubagentsSpec => []GroupInv
BY GroupInit, GroupNext, PTL DEF SubagentsSpec

\* Host, runtime and specification have their types.
THEOREM SubagentsTyped == SubagentsSpec => []SubagentsTypeOK
<1>1. GroupInv => SubagentsTypeOK
  BY DEF GroupInv, Right, Typed, SubagentsTypeOK, NativeType
<1>. QED
  BY <1>1, SubagentsInvariant, PTL

\* A refused decision was never used, and none that is told to be over runs.
LEMMA InvTold == GroupInv => ToldTruly
<1> SUFFICES ASSUME GroupInv PROVE ToldTruly
  OBVIOUS
<1> SUFFICES ASSUME NEW d \in Decisions
             PROVE  /\ host.m[d].told = "unsent" => native[d].run = "none"
                    /\ host.m[d].told = "overtaken" => Wants(d) # Null /\ host.m[d].spare = Null
                    /\ host.m[d].told \in {"answered", "over"} => native[d].run # "running"
  BY DEF ToldTruly
<1>1. MemberRight(host, d) /\ AgreeOn(host, native, Null, d) /\ Rest(host, native)
  BY DEF GroupInv, Right
<1>2. native[d].run = "none" <=> ~host.m[d].used
  BY <1>1 DEF AgreeOn
<1>3. /\ host.m[d].told = "unsent" => ~host.m[d].used
      /\ host.m[d].told = "overtaken" => Wants(d) # Null /\ host.m[d].spare = Null
  BY <1>1 DEF MemberRight
<1>4. native[d].run = "running" => Runs(host, native, Null, d)
  BY <1>1 DEF AgreeOn, Rest, Runs
<1>5. host.m[d].told \in {"answered", "over"} => ~Runs(host, native, Null, d)
  BY <1>1 DEF AgreeOn
<1>. QED
  BY <1>2, <1>3, <1>4, <1>5

\* A decision refused as not dispatched never reached a subagent, unless a fan-out took it
\* from its spare while its first registration was open, and one told to be settled has
\* none running, unless _kill gave up on its side session: whatever reservations, fan-outs,
\* fallbacks, refusals and stops cross.
THEOREM SubagentsToldTruly == SubagentsSpec => []ToldTruly
BY SubagentsInvariant, InvTold, PTL

\* An input used is used once, and a spare has one decision.
LEMMA InvOnce == GroupInv => OncePerDecision
<1> SUFFICES ASSUME GroupInv PROVE OncePerDecision
  OBVIOUS
<1>1. \A d \in Decisions : AgreeOn(host, native, Null, d)
  BY DEF GroupInv, Right
<1>2. Rest(host, native) /\ Null \notin Sides
  BY SubagentsAssumption DEF GroupInv
<1>3. \A d \in Decisions : native[d].runs <= 1
  BY <1>1 DEF AgreeOn
<1>4. ASSUME NEW s \in Sides, NEW r \in Roles
      PROVE  Cardinality({d \in Decisions : Role(d) = r /\ host.m[d].spare = s /\ RunsOn(s, d)}) <= 1
  <2>1. PICK ds : ds = {d \in Decisions : Role(d) = r /\ host.m[d].spare = s /\ RunsOn(s, d)}
    BY Zenon
  <2>2. ASSUME NEW d \in ds PROVE d = host.spare[s][r].member
    <3>1. d \in Decisions /\ Role(d) = r /\ host.m[d].spare = s /\ native[d].run = "running" /\ native[d].on = s
      BY <2>1 DEF RunsOn
    <3>2. Runs(host, native, Null, d)
      BY <1>2, <3>1 DEF Runs, Rest
    <3>3. Ours(host, d)
      BY <1>1, <1>2, <3>1, <3>2 DEF AgreeOn
    <3>. QED
      BY <3>1, <3>3 DEF Ours
  <2>3. ds = {} \/ ds = {host.spare[s][r].member}
    BY <2>2
  <2>4. Cardinality(ds) <= 1
    <3>1. PICK c : c = Cardinality(ds)
      BY Zenon
    <3>2. ds = {} => c = 0
      BY <3>1, FS_EmptySet, Zenon
    <3>3. ds # {} => c = 1
      BY <2>3, <3>1, FS_Singleton, Zenon
    <3>. QED
      BY <3>1, <3>2, <3>3
  <2>. QED
    BY <2>1, <2>4
<1>. QED
  BY <1>3, <1>4, Zenon DEF OncePerDecision

\* The input of a decision reaches one subagent, once, and a spare gets the input of
\* one decision.
THEOREM SubagentsOncePerDecision == SubagentsSpec => []OncePerDecision
BY SubagentsInvariant, InvOnce, PTL

\* What is answered was asked whole.
LEMMA InvWhole == GroupInv => WholeInput
BY DEF GroupInv, Right, AgreeOn, WholeInput

\* An answer is an answer to the standby context and the input of the decision.
THEOREM SubagentsWholeInput == SubagentsSpec => []WholeInput
BY SubagentsInvariant, InvWhole, PTL

\* A decision asked has a place, and what waits is served.
LEMMA InvKept == GroupInv => NobodyForgotten
<1> SUFFICES ASSUME GroupInv, ~host.closed, host.group = "live", NEW d \in Decisions, Pending(host, d)
             PROVE  \/ d \in Range(host.batch) /\ host.timer
                    \/ /\ d \in UNION Range(host.waiting)
                       /\ \E s \in Sides : /\ host.side[s].kind = "fan" /\ ~host.side[s].gone
                                           /\ Busy(host, s) \/ ~host.side[s].alive
                    \/ \E s \in Sides :
                         /\ d \in host.side[s].chunk \cup host.side[s].listed
                         /\ host.side[s].phase \in {"ready", "admitting"} \/ (Busy(host, s) /\ ~host.side[s].gone)
                    \/ Ours(host, d) /\ ~host.side[host.m[d].spare].gone
  BY Zenon DEF NobodyForgotten
<1>1. /\ Open(host) /\ MemberRight(host, d) /\ Served(host) /\ Kept(host, Null) /\ Null \notin Sides
      /\ \A s \in Sides : SideRight(host, s)
      /\ host \in HostType
  BY SubagentsAssumption DEF GroupInv, Right, Typed, Open
<1>2. KeptOn(host, Null, d) /\ (host.batch # <<>> => host.timer)
  BY <1>1 DEF Kept
<1>3. CASE Batched(host, d)
  <2>1. PICK i \in 1..Len(host.batch) : host.batch[i] = d
    BY <1>3 DEF Batched
  <2>2. host.batch \in Seq(Decisions)
    BY <1>1 DEF HostType
  <2>3. host.batch # <<>> /\ d \in Range(host.batch)
    BY <2>1, <2>2 DEF Range
  <2>. QED
    BY <1>2, <2>3
<1>4. CASE Waits(host, d)
  <2>1. PICK i \in 1..Len(host.waiting) : d \in host.waiting[i]
    BY <1>4 DEF Waits
  <2>2. host.waiting \in Seq(SUBSET Decisions)
    BY <1>1 DEF HostType
  <2>3. host.waiting # <<>> /\ d \in UNION Range(host.waiting)
    BY <2>1, <2>2 DEF Range
  <2>4. \E s \in Sides : Serves(host, s)
    BY <1>1, <2>3 DEF Served
  <2>. QED
    BY <2>3, <2>4, Zenon DEF Serves
<1>5. ASSUME NEW s \in Sides, d \in host.side[s].chunk
      PROVE  host.side[s].phase \in {"ready", "admitting"} \/ (Busy(host, s) /\ ~host.side[s].gone)
  <2>1. Busy(host, s)
    BY <1>1, <1>5 DEF SideRight, Busy
  <2>2. host.side[s].gone => host.side[s].phase \in {"ready", "admitting"}
    BY <1>1, <1>2, <1>5 DEF KeptOn
  <2>. QED
    BY <2>1, <2>2
<1>6. CASE host.m[d].spare # Null
  <2>1. Ours(host, d) /\ host.m[d].spare \in Sides
    BY <1>1, <1>6 DEF MemberRight, HostType, MemberType
  <2>2. ~host.side[host.m[d].spare].gone
    BY <1>1, <1>2, <2>1 DEF KeptOn
  <2>. QED
    BY <2>1, <2>2
<1>7. CASE host.m[d].spare = Null
  <2>1. Batched(host, d) \/ Waits(host, d) \/ \E s \in Sides : d \in host.side[s].chunk
    BY <1>2, <1>7 DEF KeptOn
  <2>. QED
    BY <1>3, <1>4, <1>5, <2>1
<1>. QED
  BY <1>6, <1>7

\* A decision that is not over is somewhere something will still take it up, while
\* its group lives: a batch with its timer, a chunk that is served, a fan-out, or a spare.
THEOREM SubagentsNobodyForgotten == SubagentsSpec => []NobodyForgotten
BY SubagentsInvariant, InvKept, PTL

----------------------------------------------------------------------------
(* Pool: capacity, no fork and no leak, for any number of instances,        *)
(* sessions and limits.  None of the three is inductive: they follow from   *)
(* what the leases, the calls and the ended sessions have to do with each   *)
(* other, which PoolInv says.                                               *)

AskingCalls == {"idle", "opening", "moving"}
MayRun   == {"made", "dying"} \cup Running

\* acquire() and open() count before they lease.
LeasesBounded == \A i \in Instances : Cardinality(leases[i]) <= Limit[i]

\* A lease is a call that was answered with one.
LeasesOfCalls == \A i \in Instances : \A s \in leases[i] : call[s] = "leased"

\* A call that was not answered has nothing yet.
AskingFresh ==
    \A s \in Sessions : call[s] \in AskingCalls =>
        /\ ses[s] = "none" /\ inst[s] = None
        /\ s \notin released /\ s \notin known
        /\ call[s] # "moving" => from[s] = None
        /\ call[s] = "moving" => from[s] \in known

\* A session that ended gave its lease back.
EndedReleased == \A s \in Sessions : ses[s] = "ended" => s \in released

\* A thread to continue from has a session.
KnownMade == \A s \in known : ses[s] # "none"

\* One that may run has its lease, unless start() was called again.
OpenLeased ==
    \A s \in Sessions \ again : ses[s] \in MayRun =>
        inst[s] \in Instances /\ s \in leases[inst[s]]

\* The session a thread moved from is over, and without work.
MovedOver ==
    \A s \in Sessions : from[s] # None /\ ses[s] # "none" =>
        from[s] \in released /\ ses[from[s]] = "ended" /\ from[s] \notin work

Books   == LeasesOfCalls /\ AskingFresh /\ EndedReleased /\ KnownMade /\ OpenLeased /\ MovedOver
PoolInv == TypeOK /\ LeasesBounded /\ Books

----------------------------------------------------------------------------
(* Counting                                                                 *)

\* Fewer leases are within the limit, and so is one more on a free instance.
LEMMA LeaseCounts ==
    ASSUME TypeOK, LeasesBounded, NEW i \in Instances, NEW S \in SUBSET leases[i], NEW s
    PROVE  Cardinality(S) <= Limit[i] /\ (Free(i) => Cardinality(S \cup {s}) <= Limit[i])
<1>1. IsFiniteSet(leases[i])
  BY PoolAssumption, FS_Subset DEF TypeOK
<1>2. IsFiniteSet(S) /\ Cardinality(S) <= Cardinality(leases[i])
  BY <1>1, FS_Subset
<1>3. Cardinality(S) \in Nat /\ Cardinality(leases[i]) \in Nat /\ Limit[i] \in Nat
  BY <1>1, <1>2, FS_CardinalityType, PoolAssumption
<1>4. Cardinality(S \cup {s}) = IF s \in S THEN Cardinality(S) ELSE Cardinality(S) + 1
  BY <1>2, FS_AddElement
<1> QED
  BY <1>2, <1>3, <1>4 DEF LeasesBounded, Free

\* What release() does to the leases.
LEMMA ReleaseCounts ==
    ASSUME PoolInv, NEW s \in Sessions, leases' = Without(s)
    PROVE  LeasesBounded'
<1> SUFFICES ASSUME NEW i \in Instances PROVE Cardinality(leases'[i]) <= Limit[i]
  BY DEF LeasesBounded
<1>1. leases'[i] = leases[i] \ {s}
  BY DEF Without
<1> QED
  BY <1>1, LeaseCounts DEF PoolInv

\* What a new lease does to them, another one being given back or none.
LEMMA LeaseOnCounts ==
    ASSUME PoolInv, NEW s \in Sessions, NEW i \in Instances, Free(i),
           NEW others \in [Instances -> SUBSET Sessions],
           \A j \in Instances : others[j] \subseteq leases[j],
           leases' = [others EXCEPT ![i] = @ \cup {s}]
    PROVE  LeasesBounded'
<1> SUFFICES ASSUME NEW j \in Instances PROVE Cardinality(leases'[j]) <= Limit[j]
  BY DEF LeasesBounded
<1>1. CASE j = i
  BY <1>1, LeaseCounts DEF PoolInv
<1>2. CASE j # i
  BY <1>2, LeaseCounts DEF PoolInv
<1> QED
  BY <1>1, <1>2

LEMMA SameCounts == ASSUME PoolInv, UNCHANGED leases PROVE LeasesBounded'
  BY DEF PoolInv, LeasesBounded

----------------------------------------------------------------------------
(* The steps                                                                *)

LEMMA PoolInitInv == Init => PoolInv
<1> SUFFICES ASSUME Init PROVE PoolInv
  OBVIOUS
<1>1. TypeOK
  BY DEF Init, TypeOK, Health, SessionState, Running
<1>2. LeasesBounded
  BY FS_EmptySet, PoolAssumption DEF Init, LeasesBounded
<1>3. Books
  BY DEF Init, Books, LeasesOfCalls, AskingFresh, EndedReleased, KnownMade, OpenLeased, MovedOver, MayRun, Running, AskingCalls
<1> QED
  BY <1>1, <1>2, <1>3 DEF PoolInv

\* Steps that no lease and no session takes part in.
LEMMA QuietStep ==
    ASSUME PoolInv, UNCHANGED <<leases, released, inst, ses, known, again>>,
           from' \in [Sessions -> Sessions \cup {None}],
           call' \in [Sessions -> {"idle", "opening", "moving", "leased", "refused"}],
           probing' \in [Sessions -> SUBSET Instances],
           health' \in [Instances -> Health], work' \subseteq work,
           \A s \in Sessions :
              \/ call'[s] = call[s] /\ from'[s] = from[s]
              \/ call'[s] = "opening" /\ call[s] = "idle" /\ from'[s] = from[s]
              \/ call'[s] = "refused" /\ call[s] \in AskingCalls /\ from'[s] = from[s]
              \/ call'[s] = "moving" /\ call[s] = "idle" /\ from'[s] \in known
    PROVE  PoolInv'
<1>1. TypeOK'
  BY DEF PoolInv, TypeOK
<1>2. LeasesBounded'
  BY SameCounts
<1>3. LeasesOfCalls' /\ EndedReleased' /\ KnownMade' /\ OpenLeased'
  BY DEF PoolInv, TypeOK, Books, LeasesOfCalls, EndedReleased, KnownMade, OpenLeased, AskingCalls
<1>4. AskingFresh'
  BY DEF PoolInv, TypeOK, Books, AskingFresh, AskingCalls
<1>5. MovedOver'
  BY DEF PoolInv, TypeOK, Books, AskingFresh, AskingCalls, MovedOver
<1> QED
  BY <1>1, <1>2, <1>3, <1>4, <1>5 DEF PoolInv, Books

\* release(), with the session's end, or without one when the caller has the lease
\* or start() threw.
LEMMA ReleaseStep ==
    ASSUME PoolInv, NEW s \in Sessions, Release(s), call[s] \notin AskingCalls,
           UNCHANGED <<health, call, probing, from, inst, known, work>>,
           \/ UNCHANGED <<ses, again>> /\ ses[s] = "none"
           \/ UNCHANGED ses /\ again' = again \cup {s}
           \/ ses' = [ses EXCEPT ![s] = "ended"] /\ UNCHANGED again /\ ses[s] # "none"
    PROVE  PoolInv'
<1> USE DEF PoolInv, Release, Without
<1>1. TypeOK'
  BY DEF TypeOK, SessionState
<1>2. LeasesBounded'
  BY ReleaseCounts
<1>3. LeasesOfCalls' /\ EndedReleased' /\ KnownMade'
  BY DEF TypeOK, Books, LeasesOfCalls, EndedReleased, KnownMade
<1>4. AskingFresh'
  BY DEF TypeOK, Books, AskingFresh
<1>5. OpenLeased'
  BY DEF TypeOK, Books, OpenLeased, MayRun, Running
<1>6. MovedOver'
  BY DEF TypeOK, Books, MovedOver, MayRun, Running
<1> QED
  BY <1>1, <1>2, <1>3, <1>4, <1>5, <1>6 DEF Books

\* Steps of one session that has its lease or nobody's: start(), its answer, its
\* work, its death.
LEMMA SessionStep ==
    ASSUME PoolInv, NEW s \in Sessions, UNCHANGED <<leases, released, health, call, probing, from, inst, again>>,
           call[s] \notin AskingCalls, NEW x \in MayRun, ses[s] \in MayRun,
           ses' = [ses EXCEPT ![s] = x] \/ UNCHANGED ses,
           known' \in {known, known \cup {s}}, work' \in {work, work \cup {s}}
    PROVE  PoolInv'
<1> USE DEF PoolInv
<1>1. TypeOK'
  BY DEF TypeOK, SessionState, MayRun, Running
<1>2. LeasesBounded'
  BY SameCounts
<1>3. LeasesOfCalls' /\ EndedReleased' /\ KnownMade'
  BY DEF TypeOK, Books, LeasesOfCalls, EndedReleased, KnownMade, MayRun, Running
<1>4. AskingFresh'
  BY DEF TypeOK, Books, AskingFresh
<1>5. OpenLeased'
  BY DEF TypeOK, Books, OpenLeased
<1>6. MovedOver'
  BY DEF TypeOK, Books, MovedOver, MayRun, Running
<1> QED
  BY <1>1, <1>2, <1>3, <1>4, <1>5, <1>6 DEF Books

\* A call is answered with a lease, and with a session, or none for acquire().
LEMMA LeaseStep ==
    ASSUME PoolInv, NEW s \in Sessions, NEW i \in Instances, Free(i), call[s] \in {"idle", "opening"},
           LeaseOn(s, i, leases), ses' = [ses EXCEPT ![s] = "made"] \/ UNCHANGED ses,
           UNCHANGED <<released, health, probing, from, known, work, again>>
    PROVE  PoolInv'
<1> USE DEF PoolInv, LeaseOn
<1>1. /\ ses[s] = "none" /\ inst[s] = None /\ s \notin released /\ s \notin known /\ from[s] = None
      /\ \A j \in Instances : s \notin leases[j]
  BY DEF Books, AskingFresh, LeasesOfCalls, AskingCalls
<1>2. TypeOK'
  BY <1>1 DEF TypeOK, SessionState
<1>3. LeasesBounded'
  BY LeaseOnCounts DEF TypeOK
<1>4. LeasesOfCalls' /\ EndedReleased' /\ KnownMade'
  BY DEF TypeOK, Books, LeasesOfCalls, EndedReleased, KnownMade
<1>5. AskingFresh'
  BY DEF TypeOK, Books, AskingFresh, AskingCalls
<1>6. OpenLeased'
  BY <1>1 DEF TypeOK, Books, OpenLeased, MayRun, Running
<1>7. MovedOver'
  BY <1>1 DEF TypeOK, Books, MovedOver
<1> QED
  BY <1>2, <1>3, <1>4, <1>5, <1>6, <1>7 DEF Books

\* createSession threw for a call that moved nothing.
LEMMA MakeFailsStep ==
    ASSUME PoolInv, NEW s \in Sessions, NEW i \in Instances, call[s] = "opening",
           MakeFails(s, i, leases), released' = released \cup {s},
           UNCHANGED <<health, probing, from, ses, known, work, again>>
    PROVE  PoolInv'
<1> USE DEF PoolInv, MakeFails
<1>1. /\ ses[s] = "none" /\ inst[s] = None
      /\ \A j \in Instances : s \notin leases[j]
  BY DEF Books, AskingFresh, LeasesOfCalls, AskingCalls
<1>2. TypeOK'
  BY <1>1 DEF TypeOK
<1>3. LeasesBounded'
  BY SameCounts
<1>4. LeasesOfCalls' /\ EndedReleased' /\ KnownMade'
  BY <1>1 DEF TypeOK, Books, LeasesOfCalls, EndedReleased, KnownMade
<1>5. AskingFresh'
  BY DEF TypeOK, Books, AskingFresh, AskingCalls
<1>6. OpenLeased'
  BY <1>1 DEF TypeOK, Books, OpenLeased, MayRun, Running
<1>7. MovedOver'
  BY <1>1 DEF TypeOK, Books, MovedOver
<1> QED
  BY <1>2, <1>3, <1>4, <1>5, <1>6, <1>7 DEF Books

\* continueOn(): the old session ends without work and gives its lease back; the new
\* one has a lease, or createSession threw.
LEMMA MoveStep ==
    ASSUME PoolInv, NEW s \in Sessions, MoveEnds(s)
    PROVE  PoolInv'
<1> DEFINE o == from[s]
<1> USE DEF PoolInv
<1>1. PICK i \in Instances :
        /\ Free(i)
        /\ \/ /\ LeaseOn(s, i, Without(o)) /\ released' = released \cup {o}
              /\ ses' = [Stop(o) EXCEPT ![s] = "made"] /\ known' = known \cup {s}
           \/ /\ MakeFails(s, i, Without(o)) /\ released' = released \cup {o, s}
              /\ ses' = Stop(o) /\ UNCHANGED known
  BY PoolAssumption DEF MoveEnds, Candidates
<1>2. /\ call[s] = "moving" /\ ses[s] = "none" /\ inst[s] = None /\ s \notin released /\ s \notin known
      /\ o \in known /\ o \in Sessions /\ o # s
      /\ \A j \in Instances : s \notin leases[j]
  BY DEF MoveEnds, TypeOK, Books, AskingFresh, LeasesOfCalls, AskingCalls
<1>3. call[o] \notin AskingCalls /\ o \notin work
  BY <1>2 DEF MoveEnds, Settled, Books, AskingFresh
<1>4. UNCHANGED <<health, probing, from, work, again>>
  BY DEF MoveEnds
<1>5. /\ Without(o) \in [Instances -> SUBSET Sessions]
      /\ \A j \in Instances : Without(o)[j] \subseteq leases[j]
  BY DEF Without, TypeOK
<1>6. CASE /\ LeaseOn(s, i, Without(o)) /\ released' = released \cup {o}
           /\ ses' = [Stop(o) EXCEPT ![s] = "made"] /\ known' = known \cup {s}
  <2> USE <1>2, <1>3, <1>4, <1>6 DEF LeaseOn, Without, Stop
  <2>1. TypeOK'
    BY DEF TypeOK, SessionState
  <2>2. LeasesBounded'
    BY <1>1, <1>5, LeaseOnCounts
  <2>3. LeasesOfCalls' /\ EndedReleased' /\ KnownMade'
    BY DEF TypeOK, Books, LeasesOfCalls, EndedReleased, KnownMade
  <2>4. AskingFresh'
    BY DEF TypeOK, Books, AskingFresh, AskingCalls
  <2>5. OpenLeased'
    BY DEF TypeOK, Books, OpenLeased, MayRun, Running
  <2>6. MovedOver'
    BY DEF TypeOK, Books, KnownMade, MovedOver
  <2> QED
    BY <2>1, <2>2, <2>3, <2>4, <2>5, <2>6 DEF Books
<1>7. CASE /\ MakeFails(s, i, Without(o)) /\ released' = released \cup {o, s}
           /\ ses' = Stop(o) /\ UNCHANGED known
  <2> USE <1>2, <1>3, <1>4, <1>7 DEF MakeFails, Without, Stop
  <2>1. TypeOK'
    BY DEF TypeOK, SessionState
  <2>2. LeasesBounded'
    BY ReleaseCounts
  <2>3. LeasesOfCalls' /\ EndedReleased' /\ KnownMade'
    BY DEF TypeOK, Books, LeasesOfCalls, EndedReleased, KnownMade
  <2>4. AskingFresh'
    BY DEF TypeOK, Books, AskingFresh, AskingCalls
  <2>5. OpenLeased'
    BY DEF TypeOK, Books, OpenLeased, MayRun, Running
  <2>6. MovedOver'
    BY DEF TypeOK, Books, KnownMade, MovedOver
  <2> QED
    BY <2>1, <2>2, <2>3, <2>4, <2>5, <2>6 DEF Books
<1> QED
  BY <1>1, <1>6, <1>7

----------------------------------------------------------------------------
LEMMA PoolNextInv == ASSUME PoolInv, [Next]_vars PROVE PoolInv'
<1> USE DEF PoolInv
<1>0. CASE UNCHANGED vars
  BY <1>0, QuietStep DEF vars, TypeOK
<1>1. ASSUME NEW s \in Sessions, Acquire(s) PROVE PoolInv'
  <2>1. CASE Candidates(Instances) = {}
    BY <1>1, <2>1, QuietStep DEF Acquire, TypeOK, AskingCalls
  <2>2. CASE Candidates(Instances) # {}
    BY <1>1, <2>2, LeaseStep DEF Acquire, Candidates
  <2> QED
    BY <2>1, <2>2
<1>2. ASSUME NEW s \in Sessions, CallerReleases(s) PROVE PoolInv'
  BY <1>2, ReleaseStep DEF CallerReleases, AskingCalls
<1>3. ASSUME NEW s \in Sessions, OpenBegins(s) PROVE PoolInv'
  <2>1. Stale(Instances) \in SUBSET Instances
    BY DEF Stale
  <2> QED
    BY <1>3, <2>1, QuietStep DEF OpenBegins, TypeOK
<1>4. ASSUME NEW s \in Sessions, NEW o \in Sessions, MoveBegins(s, o) PROVE PoolInv'
  <2>1. Stale(Shared(o)) \in SUBSET Instances
    BY PoolAssumption DEF Stale
  <2> QED
    BY <1>4, <2>1, QuietStep DEF MoveBegins, TypeOK, AskingCalls
<1>5. ASSUME NEW s \in Sessions, Start(s) PROVE PoolInv'
  <2>1. ses[s] = "made" /\ call[s] \notin AskingCalls /\ ses' = [ses EXCEPT ![s] = "starting"]
    BY <1>5 DEF Start, MayStart, Books, EndedReleased, AskingFresh
  <2> QED
    BY <1>5, <2>1, SessionStep DEF Start, MayRun, Running
<1>6. ASSUME NEW s \in Sessions, StartedAlready(s) PROVE PoolInv'
  <2>1. call[s] \notin AskingCalls
    BY <1>6 DEF StartedAlready, Running, Books, AskingFresh
  <2> QED
    BY <1>6, <2>1, ReleaseStep DEF StartedAlready
<1>7. ASSUME NEW s \in Sessions, Kill(s) \/ StartFails(s) \/ SessionEnd(s) PROVE PoolInv'
  <2>1. call[s] \notin AskingCalls /\ ses[s] # "none"
    BY <1>7 DEF Kill, StartFails, SessionEnd, Running, Books, AskingFresh
  <2> QED
    BY <1>7, <2>1, ReleaseStep DEF Kill, StartFails, SessionEnd
<1>8. ASSUME NEW s \in Sessions, Send(s) \/ StartReturns(s) \/ Dies(s) PROVE PoolInv'
  <2>1. call[s] \notin AskingCalls /\ ses[s] \in MayRun
    BY <1>8 DEF Send, StartReturns, Dies, MayRun, Running, Books, AskingFresh
  <2>2. "live" \in MayRun /\ "dying" \in MayRun
    BY DEF MayRun, Running
  <2>3. CASE Send(s)
    BY <2>1, <2>2, <2>3, SessionStep DEF Send
  <2>4. CASE StartReturns(s)
    BY <2>1, <2>2, <2>4, SessionStep DEF StartReturns
  <2>5. CASE Dies(s)
    BY <2>1, <2>2, <2>5, SessionStep DEF Dies
  <2> QED
    BY <1>8, <2>3, <2>4, <2>5
<1>9. ASSUME NEW s \in Sessions, NEW i \in Instances, ProbeEnds(s, i) PROVE PoolInv'
  BY <1>9, QuietStep DEF ProbeEnds, TypeOK
<1>10. ASSUME NEW s \in Sessions, OpenEnds(s) PROVE PoolInv'
  <2>1. CASE Candidates(Instances) = {} /\ call' = [call EXCEPT ![s] = "refused"]
             /\ UNCHANGED <<leases, released, inst, ses>>
    BY <1>10, <2>1, QuietStep DEF OpenEnds, TypeOK, AskingCalls
  <2>2. ASSUME NEW i \in Candidates(Instances), LeaseOn(s, i, leases),
               ses' = [ses EXCEPT ![s] = "made"], UNCHANGED released
        PROVE  PoolInv'
    BY <1>10, <2>2, LeaseStep DEF OpenEnds, Candidates
  <2>3. ASSUME NEW i \in Candidates(Instances), MakeFails(s, i, leases),
               released' = released \cup {s}, UNCHANGED ses
        PROVE  PoolInv'
    BY <1>10, <2>3, MakeFailsStep DEF OpenEnds, Candidates
  <2> QED
    BY <1>10, <2>1, <2>2, <2>3 DEF OpenEnds
<1>11. ASSUME NEW s \in Sessions, MoveRefused(s) PROVE PoolInv'
  BY <1>11, QuietStep DEF MoveRefused, TypeOK, AskingCalls
<1>12. ASSUME NEW s \in Sessions, Result(s) PROVE PoolInv'
  BY <1>12, QuietStep DEF Result, TypeOK
<1>13. ASSUME NEW i \in Instances, HealthChanges(i) PROVE PoolInv'
  BY <1>13, QuietStep DEF HealthChanges, TypeOK
<1>14. CASE Next
  BY <1>14, <1>1, <1>2, <1>3, <1>4, <1>5, <1>6, <1>7, <1>8, <1>9, <1>10, <1>11, <1>12, <1>13, MoveStep
     DEF Next, Calls, Answers
<1> QED
  BY <1>0, <1>14

\* What the calls, leases and sessions have to do with each other holds always.
LEMMA InvHeld == Spec => []PoolInv
<1>1. Init => PoolInv
  BY PoolInitInv
<1>2. PoolInv /\ [Next]_vars => PoolInv'
  BY PoolNextInv
<1> QED
  BY <1>1, <1>2, PTL DEF Spec

\* Whatever ends, restarts or moves while calls wait for their polls (acquire, _session),
\* and however many instances and sessions there are, an instance never runs
\* more sessions than its limit.
THEOREM Capacity == Spec => []CapacityHeld
<1>1. ASSUME PoolInv PROVE CapacityHeld
  <2> SUFFICES ASSUME NEW i \in Instances PROVE Cardinality(RunningOn(i) \ again) <= Limit[i]
    BY DEF CapacityHeld
  <2>1. (RunningOn(i) \ again) \subseteq leases[i]
    BY <1>1 DEF PoolInv, Books, OpenLeased, MayRun, RunningOn
  <2> QED
    BY <1>1, <2>1, LeaseCounts DEF PoolInv
<1> QED
  BY <1>1, InvHeld, PTL

\* A thread that continueOn() moved never runs in two places, and the work of the old
\* session is over when it moves.
THEOREM MovedOnce == Spec => []NoFork
<1>1. ASSUME PoolInv PROVE NoFork
  BY <1>1 DEF PoolInv, Books, MovedOver, NoFork, Running
<1> QED
  BY <1>1, InvHeld, PTL

\* A lease that counts against an instance belongs to a caller or to a session that
\* has not ended (open, continueOn, _session).
THEOREM LeasesEnd == Spec => []NoLeak
<1>1. ASSUME PoolInv PROVE NoLeak
  BY <1>1 DEF PoolInv, TypeOK, Books, LeasesOfCalls, EndedReleased, NoLeak
<1> QED
  BY <1>1, InvHeld, PTL
=================================================================================
