------------------------------ MODULE FoldLemmas ------------------------------
(***************************************************************************)
(* Induction over the naturals for a SET of them, and from it what proofs  *)
(* about folds over sequences rest on.  The library states induction for   *)
(* an operator, which the installed provers cannot instantiate; a set is   *)
(* an ordinary value, so S == {n \in Nat : P(n)} serves for any P.         *)
(***************************************************************************)
EXTENDS Integers, FiniteSetsExt, WellFoundedInduction, NaturalsInduction, TLAPS

\* Induction: a set that has 0, and n + 1 with every natural n, has them all.
LEMMA SetInduction ==
  ASSUME NEW S, 0 \in S, \A n \in Nat : n \in S => n + 1 \in S
  PROVE  \A n \in Nat : n \in S
<1> DEFINE Less == OpToRel(<, Nat)
           Outside == Nat \ S
<1>1. IsWellFoundedOn(Less, Nat)
  BY NatLessThanWellFounded
<1>2. \A u, v \in Nat : u < v => <<u, v>> \in Less
  BY DEF OpToRel
<1>3. \A x : x \in Outside <=> x \in Nat /\ x \notin S
  OBVIOUS
<1> HIDE DEF Less, Outside
<1>4. SUFFICES ASSUME Outside # {} PROVE FALSE
  BY <1>3
<1>5. PICK x \in Outside : \A y \in Outside : <<y, x>> \notin Less
  <2>1. Outside \subseteq Nat BY <1>3
  <2> QED BY <1>1, <1>4, <2>1, WFMin
<1>6. x \in Nat /\ x # 0
  BY <1>3
<1>7. x - 1 \in Nat /\ x - 1 < x /\ (x - 1) + 1 = x
  BY <1>6
<1>8. x - 1 \in S
  BY <1>2, <1>3, <1>5, <1>6, <1>7
<1> QED
  BY <1>3, <1>5, <1>7, <1>8

\* The same up to a bound.
LEMMA BoundedInduction ==
  ASSUME NEW n \in Nat, NEW S, 0 \in S, \A i \in 1..n : i - 1 \in S => i \in S
  PROVE  \A i \in 0..n : i \in S
<1> DEFINE T == {i \in Nat : i <= n => i \in S}
<1>1. 0 \in T
  OBVIOUS
<1>2. \A i \in Nat : i \in T => i + 1 \in T
  <2> SUFFICES ASSUME NEW i \in Nat, i \in T, i + 1 <= n PROVE i + 1 \in S
    OBVIOUS
  <2>1. i \in S /\ i + 1 \in 1..n /\ (i + 1) - 1 = i
    OBVIOUS
  <2> QED BY <2>1
<1>3. \A i \in Nat : i \in T
  <2> HIDE DEF T
  <2> QED BY <1>1, <1>2, SetInduction
<1> QED
  BY <1>3

\* Max of a nonempty set of indices is its greatest.
LEMMA MaxOfIndices ==
  ASSUME NEW n \in Nat, NEW s \in SUBSET (1..n), s # {}
  PROVE  Max(s) \in s /\ \A y \in s : y <= Max(s)
<1> DEFINE S == {m \in Nat : \A r \in SUBSET (1..m) : r # {} => \E x \in r : \A y \in r : y <= x}
<1>1. 0 \in S
  <2>1. \A r \in SUBSET (1..0) : r = {}
    OBVIOUS
  <2> QED BY <2>1
<1>2. ASSUME NEW m \in Nat, m \in S PROVE m + 1 \in S
  <2> SUFFICES ASSUME NEW r \in SUBSET (1..(m + 1)), r # {} PROVE \E x \in r : \A y \in r : y <= x
    OBVIOUS
  <2>1. CASE m + 1 \in r
    BY <2>1
  <2>2. CASE m + 1 \notin r
    <3>1. r \in SUBSET (1..m) BY <2>2
    <3> QED BY <3>1, <1>2
  <2> QED BY <2>1, <2>2
<1>3. n \in S
  <2> HIDE DEF S
  <2> QED BY <1>1, <1>2, SetInduction
<1>4. \E x \in s : \A y \in s : x >= y
  BY <1>3
<1> QED
  BY <1>4 DEF Max

(***************************************************************************)
(* FoldLeft is a function on the sets of indices of a sequence, defined by *)
(* taking away the greatest.  Such a function exists, for any step and any *)
(* set of values that the step does not leave.                             *)
(***************************************************************************)
FoldsWith(f, n, base, step) ==
  \A s \in SUBSET (1..n) : f[s] = IF s = {} THEN base ELSE step[<<f[s \ {Max(s)}], Max(s)>>]

LEMMA FoldExists ==
  ASSUME NEW n \in Nat, NEW D, NEW base \in D, NEW step \in [D \X (1..n) -> D]
  PROVE  \E f \in [SUBSET (1..n) -> D] : FoldsWith(f, n, base, step)
<1> DEFINE Taken(f, s) == IF s = {} THEN base ELSE step[<<f[s \ {Max(s)}], Max(s)>>]
           Folds(m) == \E f \in [SUBSET (1..m) -> D] :
                         \A s \in SUBSET (1..m) : f[s] = Taken(f, s)
           S == {m \in Nat : m <= n => Folds(m)}
<1>1. Folds(0)
  <2> DEFINE f == [s \in SUBSET (1..0) |-> base]
  <2>1. \A s \in SUBSET (1..0) : s = {}
    OBVIOUS
  <2>2. f \in [SUBSET (1..0) -> D] /\ \A s \in SUBSET (1..0) : f[s] = Taken(f, s)
    BY <2>1
  <2> QED BY <2>2
<1>2. ASSUME NEW m \in Nat, m + 1 <= n, Folds(m) PROVE Folds(m + 1)
  <2>1. PICK g \in [SUBSET (1..m) -> D] : \A s \in SUBSET (1..m) : g[s] = Taken(g, s)
    BY <1>2
  <2> DEFINE f == [s \in SUBSET (1..(m + 1)) |->
                     IF m + 1 \in s THEN step[<<g[s \ {m + 1}], m + 1>>] ELSE g[s]]
  <2>2. \A s \in SUBSET (1..(m + 1)) : s \ {m + 1} \in SUBSET (1..m)
    OBVIOUS
  <2>3. \A s \in SUBSET (1..(m + 1)) :
          f[s] = IF m + 1 \in s THEN step[<<g[s \ {m + 1}], m + 1>>] ELSE g[s]
    OBVIOUS
  <2>4. f \in [SUBSET (1..(m + 1)) -> D]
    <3> SUFFICES ASSUME NEW s \in SUBSET (1..(m + 1)) PROVE f[s] \in D
      OBVIOUS
    <3>1. g[s \ {m + 1}] \in D /\ m + 1 \in 1..n
      BY <1>2, <2>2
    <3>2. <<g[s \ {m + 1}], m + 1>> \in D \X (1..n)
      BY <3>1
    <3>3. step[<<g[s \ {m + 1}], m + 1>>] \in D
      BY <3>2
    <3>4. m + 1 \notin s => s = s \ {m + 1}
      OBVIOUS
    <3>5. m + 1 \notin s => g[s] \in D
      BY <3>1, <3>4
    <3> QED BY <2>3, <3>3, <3>5
  <2> HIDE DEF f
  <2>5. ASSUME NEW s \in SUBSET (1..(m + 1)) PROVE f[s] = Taken(f, s)
    <3>1. CASE m + 1 \in s
      <4>1. m + 1 \in Nat /\ s # {} BY <3>1
      <4>2. Max(s) \in s /\ \A y \in s : y <= Max(s) BY <4>1, MaxOfIndices
      <4>3. Max(s) \in 1..(m + 1) /\ m + 1 <= Max(s) BY <3>1, <4>2
      <4>4. Max(s) = m + 1 BY <4>3
      <4>5. s \ {m + 1} \in SUBSET (1..(m + 1)) /\ m + 1 \notin s \ {m + 1} BY <2>2
      <4>6. f[s \ {m + 1}] = g[s \ {m + 1}] BY <2>3, <4>5
      <4> QED BY <2>3, <3>1, <4>1, <4>4, <4>6
    <3>2. CASE m + 1 \notin s
      <4>1. s \in SUBSET (1..m) BY <3>2
      <4>2. s \ {Max(s)} \in SUBSET (1..(m + 1)) /\ m + 1 \notin s \ {Max(s)} BY <3>2
      <4>3. f[s] = g[s] /\ f[s \ {Max(s)}] = g[s \ {Max(s)}] BY <2>3, <3>2, <4>2
      <4> QED BY <2>1, <4>1, <4>3
    <3> QED BY <3>1, <3>2
  <2> QED BY <2>4, <2>5
<1>3. \A m \in Nat : m \in S
  <2> HIDE DEF Folds
  <2>1. 0 \in S BY <1>1
  <2>2. ASSUME NEW m \in Nat, m \in S PROVE m + 1 \in S
    <3>1. m + 1 <= n => m <= n OBVIOUS
    <3>2. m + 1 <= n => Folds(m + 1) BY <1>2, <2>2, <3>1
    <3> QED BY <3>2
  <2> HIDE DEF S
  <2> QED BY <2>1, <2>2, SetInduction
<1>4. Folds(n)
  <2> HIDE DEF Folds
  <2>1. n \in S BY <1>3
  <2> QED BY <2>1
<1> QED
  BY <1>4 DEF FoldsWith
=============================================================================
