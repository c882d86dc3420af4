------------------------------- MODULE Loops -------------------------------
(***************************************************************************)
(* What the turns of a loop keep, the loop keeps.  Instances of this       *)
(* module give Turn and Inv: a loop of Vmm and what is said of it.         *)
(***************************************************************************)
EXTENDS Integers, NaturalsInduction, WellFoundedInduction, TLAPS

CONSTANTS
  Turn(_, _, _), \* Turn(c, x, k) is what turn k makes of x
  Inv(_, _, _)   \* Inv(d, x, k) is said of x after k turns

After(c, x, n) ==
  LET after[k \in 0 .. n] == IF k = 0 THEN x ELSE Turn(c, after[k - 1], k)
  IN  after[n]

TurnsOf(f, c, x, n) == f = [k \in 0 .. n |-> IF k = 0 THEN x ELSE Turn(c, f[k - 1], k)]

LEMMA SmallestNumber ==
  ASSUME NEW S \in SUBSET Nat, S # {}
  PROVE  \E m \in S : \A k \in S : m <= k
<1> DEFINE R == {ss \in Nat \X Nat : ss[1] < ss[2]}
<1>1. IsWellFoundedOn(R, Nat) BY NatLessThanWellFounded DEF OpToRel
<1>2. \A k, m \in Nat : k < m => <<k, m>> \in R OBVIOUS
<1> HIDE DEF R
<1>3. PICK m \in S : \A k \in S : ~(<<k, m>> \in R) BY <1>1, WFMin
<1>4. \A k \in S : ~(k < m) BY <1>2, <1>3
<1> QED BY <1>4

LEMMA TurnsExist ==
  ASSUME NEW c, NEW x, NEW n \in Nat
  PROVE  \E f : TurnsOf(f, c, x, n)
<1> DEFINE S == {m \in Nat : ~\E f : TurnsOf(f, c, x, m)}
<1> SUFFICES ASSUME S # {} PROVE FALSE OBVIOUS
<1>1. PICK m \in S : \A k \in S : m <= k BY SmallestNumber
<1>2. CASE m = 0
  <2>1. TurnsOf([k \in 0 .. 0 |-> x], c, x, 0) BY DEF TurnsOf
  <2> QED BY <1>1, <1>2, <2>1
<1>3. CASE m # 0
  <2>1. m - 1 \in Nat /\ m - 1 \notin S BY <1>1, <1>3
  <2>2. PICK f : TurnsOf(f, c, x, m - 1) BY <2>1
  <2> DEFINE g == [k \in 0 .. m |-> IF k = m THEN Turn(c, f[m - 1], m) ELSE f[k]]
  <2>3. ASSUME NEW k \in 0 .. m PROVE g[k] = IF k = 0 THEN x ELSE Turn(c, g[k - 1], k)
    <3>1. CASE k = m
      <4>1. g[m] = Turn(c, f[m - 1], m) /\ g[m - 1] = f[m - 1] BY <2>1
      <4> QED BY <1>3, <3>1, <4>1
    <3>2. CASE k # m
      <4>1. k \in 0 .. m - 1 BY <1>1, <3>2
      <4>2. f[k] = IF k = 0 THEN x ELSE Turn(c, f[k - 1], k) BY <2>2, <4>1 DEF TurnsOf
      <4>3. g[k] = f[k] /\ (k # 0 => g[k - 1] = f[k - 1]) BY <1>1, <4>1
      <4> QED BY <4>2, <4>3
    <3> QED BY <3>1, <3>2
  <2>4. g = [k \in 0 .. m |-> g[k]] OBVIOUS
  <2> HIDE DEF g
  <2>5. TurnsOf(g, c, x, m) BY <2>3, <2>4 DEF TurnsOf
  <2> QED BY <1>1, <2>5
<1> QED BY <1>2, <1>3

(* What holds before the first turn, and after each turn if it did before  *)
(* it, holds after all of them.                                            *)
LEMMA LoopKeeps ==
  ASSUME NEW c, NEW d, NEW x, NEW n \in Nat, Inv(d, x, 0),
         \A k \in 1 .. n : \A y : Inv(d, y, k - 1) => Inv(d, Turn(c, y, k), k)
  PROVE  Inv(d, After(c, x, n), n)
<1> DEFINE f == CHOOSE f : TurnsOf(f, c, x, n)
<1>1. TurnsOf(f, c, x, n) BY TurnsExist
<1>2. After(c, x, n) = f[n] BY DEF After, TurnsOf
<1> HIDE DEF f
<1> DEFINE S == {k \in 0 .. n : ~Inv(d, f[k], k)}
<1>3. S = {}
  <2> SUFFICES ASSUME S # {} PROVE FALSE OBVIOUS
  <2>0. S \in SUBSET Nat OBVIOUS
  <2>1. PICK m \in S : \A k \in S : m <= k BY <2>0, SmallestNumber
  <2>2. CASE m = 0
    <3>1. f[0] = x BY <1>1 DEF TurnsOf
    <3> QED BY <2>1, <2>2, <3>1
  <2>3. CASE m # 0
    <3>1. m \in 1 .. n /\ m - 1 \in 0 .. n BY <2>1, <2>3
    <3>2. m - 1 \notin S BY <2>1, <3>1
    <3>3. Inv(d, f[m - 1], m - 1) BY <3>1, <3>2
    <3>4. f[m] = Turn(c, f[m - 1], m) BY <1>1, <3>1 DEF TurnsOf
    <3> QED BY <2>1, <3>1, <3>3, <3>4
  <2> QED BY <2>2, <2>3
<1> QED BY <1>2, <1>3
=============================================================================
