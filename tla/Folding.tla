------------------------------- MODULE Folding -------------------------------
(***************************************************************************)
(* What a fold over a sequence computes, whatever it folds with: the       *)
(* instances of this module are the folds of the models.  Induction is     *)
(* stated with sets of numbers, which need no operator for a parameter.    *)
(***************************************************************************)
EXTENDS Naturals, Sequences, SequencesExt, WellFoundedInduction, TLAPS

CONSTANT Op(_, _)  \* what is folded with: the value so far and the next element

\* FoldLeft with Op.
Folded(s, base) == FoldLeft(Op, base, s)

\* h is the function that FoldLeft recurs with, on the sets of indices below those in D.
Iterates(h, s, base, D) ==
  h = [d \in SUBSET D |-> IF d = {} THEN base ELSE Op(h[d \ {Max(d)}], s[Max(d)])]

\* f goes from the base through the first n elements, one by one.
Runs(f, s, base, n) ==
  f[0] = base /\ \A k \in 1..n : f[k] = Op(f[k - 1], s[k])

-----------------------------------------------------------------------------
(* Numbers                                                                 *)

\* A set of numbers that is not empty has a least one.
LEMMA LeastNumber ==
  ASSUME NEW T \in SUBSET Nat, T # {}
  PROVE  \E m \in T : \A n \in T : m <= n
<1> DEFINE R == OpToRel(<, Nat)
<1>1. IsWellFoundedOn(R, Nat)
  BY NatLessThanWellFounded
<1>2. \A x, y \in Nat : x < y => <<x, y>> \in R
  BY DEF OpToRel
<1> HIDE DEF R
<1>3. PICK m \in T : \A n \in T : <<n, m>> \notin R
  BY <1>1, WFMin
<1>4. \A n \in T : ~(n < m)
  BY <1>2, <1>3
<1>5. m \in Nat /\ T \subseteq Nat
  OBVIOUS
<1> QED BY <1>4, <1>5

\* A set that has 0 and, with a number, the next one, has every number.
LEMMA Induction ==
  ASSUME NEW S, 0 \in S, \A n \in Nat : n \in S => n + 1 \in S
  PROVE  \A n \in Nat : n \in S
<1> SUFFICES ASSUME Nat \ S # {} PROVE FALSE
  OBVIOUS
<1>1. PICK m \in Nat \ S : \A n \in Nat \ S : m <= n
  BY LeastNumber
<1>2. m # 0 /\ m - 1 \in Nat
  BY <1>1
<1>3. m - 1 \in S
  BY <1>1, <1>2
<1> QED BY <1>1, <1>2, <1>3

\* A bounded set of numbers that is not empty has a greatest one, which is its Max.
LEMMA MaxOfNumbers ==
  ASSUME NEW n \in Nat, NEW d \in SUBSET (1..n), d # {}
  PROVE  Max(d) \in d /\ \A x \in d : x <= Max(d)
<1> DEFINE B == {b \in Nat : \A x \in d : x <= b}
<1>1. n \in B
  OBVIOUS
<1>2. PICK m \in B : \A b \in B : m <= b
  BY <1>1, LeastNumber
<1>3. m \in d
  <2>1. CASE m = 0
    <3>1. PICK x \in d : TRUE
      OBVIOUS
    <3>2. x \in Nat /\ x >= 1 /\ x <= m
      BY <1>2
    <3> QED BY <2>1, <3>2
  <2>2. CASE m # 0 /\ m \notin d
    <3>1. m - 1 \in Nat /\ \A x \in d : x <= m - 1
      BY <1>2, <2>2
    <3> QED BY <1>2, <3>1
  <2> QED BY <2>1, <2>2
<1>4. \E x \in d : \A y \in d : x >= y
  BY <1>2, <1>3
<1> QED BY <1>4 DEF Max

-----------------------------------------------------------------------------
(* Folds                                                                   *)

\* FoldLeft chooses such a function.
LEMMA FoldedIterates ==
  ASSUME NEW s, NEW base
  PROVE  Folded(s, base) = (CHOOSE h : Iterates(h, s, base, DOMAIN s))[DOMAIN s]
BY DEF Folded, FoldLeft, MapThenFoldSet, Iterates

\* There is one.
LEMMA Iterator ==
  ASSUME NEW s, NEW base, NEW n \in Nat
  PROVE  \E h : Iterates(h, s, base, 1..n)
<1> DEFINE S == {k \in Nat : \E h : Iterates(h, s, base, 1..k)}
<1>1. 0 \in S
  <2>1. 1..0 = {} /\ SUBSET {} = {{}}
    OBVIOUS
  <2> DEFINE h == [d \in SUBSET {} |-> base]
  <2>2. h = [d \in SUBSET {} |-> IF d = {} THEN base ELSE Op(h[d \ {Max(d)}], s[Max(d)])]
    BY <2>1
  <2> QED BY <2>1, <2>2 DEF Iterates
<1>2. ASSUME NEW k \in Nat, k \in S PROVE k + 1 \in S
  <2>1. PICK h : Iterates(h, s, base, 1..k)
    BY <1>2
  <2> DEFINE g == [d \in SUBSET (1..k + 1) |->
                     IF k + 1 \in d THEN Op(h[d \ {k + 1}], s[k + 1]) ELSE h[d]]
  <2>2. ASSUME NEW d \in SUBSET (1..k + 1)
        PROVE  g[d] = IF d = {} THEN base ELSE Op(g[d \ {Max(d)}], s[Max(d)])
    <3>1. CASE k + 1 \in d
      <4>1. Max(d) \in d /\ \A x \in d : x <= Max(d)
        BY <3>1, MaxOfNumbers, k + 1 \in Nat
      <4>2. Max(d) \in 1..k + 1 /\ k + 1 <= Max(d)
        BY <3>1, <4>1
      <4>5. Max(d) = k + 1
        BY <4>2
      <4>3. d \ {k + 1} \in SUBSET (1..k + 1) /\ k + 1 \notin d \ {k + 1}
        OBVIOUS
      <4>4. g[d \ {k + 1}] = h[d \ {k + 1}]
        BY <4>3
      <4> QED BY <3>1, <4>4, <4>5
    <3>2. CASE k + 1 \notin d
      <4>1. d \in SUBSET (1..k)
        BY <3>2
      <4>2. h[d] = IF d = {} THEN base ELSE Op(h[d \ {Max(d)}], s[Max(d)])
        BY <2>1, <4>1 DEF Iterates
      <4>3. g[d] = h[d]
        BY <3>2
      <4>4. d \ {Max(d)} \in SUBSET (1..k + 1) /\ k + 1 \notin d \ {Max(d)}
        BY <3>2
      <4>5. g[d \ {Max(d)}] = h[d \ {Max(d)}]
        BY <4>4
      <4> HIDE DEF g
      <4> QED BY <4>2, <4>3, <4>5
    <3> QED BY <3>1, <3>2
  <2>3. g = [d \in SUBSET (1..k + 1) |->
               IF d = {} THEN base ELSE Op(g[d \ {Max(d)}], s[Max(d)])]
    <3> DEFINE e == [d \in SUBSET (1..k + 1) |->
                       IF d = {} THEN base ELSE Op(g[d \ {Max(d)}], s[Max(d)])]
    <3>1. DOMAIN g = DOMAIN e /\ \A d \in DOMAIN g : g[d] = e[d]
      BY <2>2
    <3>2. g = [d \in DOMAIN g |-> g[d]] /\ e = [d \in DOMAIN e |-> e[d]]
      OBVIOUS
    <3> HIDE DEF g, e
    <3>3. g = e
      BY <3>1, <3>2
    <3> QED BY <3>3 DEF e
  <2> HIDE DEF g
  <2>4. Iterates(g, s, base, 1..k + 1)
    BY <2>3 DEF Iterates
  <2> QED BY <2>4
<1> HIDE DEF S
<1>3. n \in S
  BY <1>1, <1>2, Induction
<1> QED BY <1>3 DEF S

\* A fold goes from the base through the elements, one by one.
LEMMA FoldRuns ==
  ASSUME NEW s, NEW base, NEW n \in Nat, DOMAIN s = 1..n
  PROVE  \E f : Runs(f, s, base, n) /\ Folded(s, base) = f[n]
<1>1. PICK h : Iterates(h, s, base, 1..n) /\ Folded(s, base) = h[1..n]
  <2>1. Iterates(CHOOSE h : Iterates(h, s, base, 1..n), s, base, 1..n)
    BY Iterator
  <2> QED BY <2>1, FoldedIterates
<1>2. ASSUME NEW d \in SUBSET (1..n)
      PROVE  h[d] = IF d = {} THEN base ELSE Op(h[d \ {Max(d)}], s[Max(d)])
  BY <1>1 DEF Iterates
<1> DEFINE f == [k \in 0..n |-> h[1..k]]
<1>3. f[0] = base
  <2>1. 1..0 = {} /\ {} \in SUBSET (1..n) /\ 0 \in 0..n
    OBVIOUS
  <2>2. h[{}] = base
    BY <1>2, <2>1
  <2> QED BY <2>1, <2>2
<1>4. ASSUME NEW k \in 1..n PROVE f[k] = Op(f[k - 1], s[k])
  <2>1. 1..k \in SUBSET (1..n) /\ k \in 1..k /\ k \in 0..n /\ k - 1 \in 0..n
    <3> HIDE DEF f
    <3>1. k \in Nat /\ 1 <= k /\ k <= n
      OBVIOUS
    <3> QED BY <3>1
  <2>2. Max(1..k) \in 1..k /\ \A x \in 1..k : x <= Max(1..k)
    BY <2>1, MaxOfNumbers
  <2>3. Max(1..k) = k
    BY <2>1, <2>2
  <2>4. (1..k) \ {k} = 1..(k - 1)
    OBVIOUS
  <2>5. h[1..k] = Op(h[1..(k - 1)], s[k])
    BY <1>2, <2>1, <2>3, <2>4
  <2> QED BY <2>5
<1>5. f[n] = h[1..n]
  OBVIOUS
<1> HIDE DEF f
<1> QED BY <1>1, <1>3, <1>4, <1>5 DEF Runs

\* What holds of the base and is kept by every step holds of the whole.
LEMMA FoldKeeps ==
  ASSUME NEW s, NEW base, NEW n \in Nat, DOMAIN s = 1..n, NEW T, base \in T,
         \A x \in T : \A k \in 1..n : Op(x, s[k]) \in T
  PROVE  Folded(s, base) \in T
<1>1. PICK f : Runs(f, s, base, n) /\ Folded(s, base) = f[n]
  BY FoldRuns
<1> DEFINE S == {k \in Nat : k <= n => f[k] \in T}
<1>2. 0 \in S
  BY <1>1 DEF Runs
<1>3. ASSUME NEW k \in Nat, k \in S PROVE k + 1 \in S
  <2>1. CASE k + 1 <= n
    <3>1. f[k] \in T /\ k + 1 \in 1..n /\ (k + 1) - 1 = k
      BY <1>3, <2>1
    <3>2. f[k + 1] = Op(f[k], s[k + 1])
      BY <1>1, <3>1 DEF Runs
    <3> QED BY <3>1, <3>2
  <2>2. CASE ~(k + 1 <= n)
    BY <2>2
  <2> QED BY <2>1, <2>2
<1> HIDE DEF S
<1>4. n \in S
  BY <1>2, <1>3, Induction
<1> QED BY <1>1, <1>4 DEF S
=============================================================================
