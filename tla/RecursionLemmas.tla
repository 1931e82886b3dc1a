--------------------------- MODULE RecursionLemmas ---------------------------
(***************************************************************************)
(* Induction over the places of a sequence, for the operators that the     *)
(* modules define by a function f over 0 .. n with f[k] from f[k - 1]: the *)
(* loops of the code.  Sets and functions stand for what a predicate or an *)
(* operator would say, as the provers take no operator for a parameter.    *)
(***************************************************************************)
EXTENDS Naturals, Sequences, WellFoundedInduction, TLAPS

\* A set of numbers has a least one: the first place of which something holds.
LEMMA LeastElement ==
  ASSUME NEW T \in SUBSET Nat, T # {}
  PROVE  \E m \in T : \A k \in T : m <= k
  <1> DEFINE R == OpToRel(<, Nat)
  <1>1. \A x, y \in Nat : <<y, x>> \in R <=> y < x
    BY DEF OpToRel
  <1>2. IsWellFoundedOn(R, Nat)
    BY NatLessThanWellFounded
  <1> HIDE DEF R
  <1>3. PICK x \in T : \A y \in T : ~ (<<y, x>> \in R)
    BY <1>2, WFMin
  <1>4. \A k \in T : k \in Nat /\ x \in Nat /\ ~(k < x)
    BY <1>1, <1>3
  <1> QED BY <1>4

\* One that has a bound has a greatest one as well: the last place.
LEMMA GreatestElement ==
  ASSUME NEW n \in Nat, NEW T \in SUBSET (0 .. n), T # {}
  PROVE  \E m \in T : \A k \in T : k <= m
  <1> DEFINE U == {n - k : k \in T}
  <1>1. U \in SUBSET Nat /\ U # {}
    <2>1. PICK t \in T : TRUE
      OBVIOUS
    <2>2. n - t \in U
      BY <2>1
    <2>3. \A k \in 0 .. n : n - k \in Nat
      OBVIOUS
    <2> QED BY <2>2, <2>3
  <1>2. PICK m \in U : \A k \in U : m <= k
    <2> HIDE DEF U
    <2> QED BY <1>1, LeastElement
  <1>3. PICK l \in T : m = n - l
    OBVIOUS
  <1>4. \A k \in T : m <= n - k
    BY <1>2
  <1>5. \A k \in T : k <= l
    BY <1>3, <1>4
  <1> QED BY <1>5

\* A set that has 0, and the place after each that it has, reaches n.
LEMMA SetInduction ==
  ASSUME NEW S \in SUBSET Nat, NEW n \in Nat,
         0 \in S, \A k \in 0 .. n - 1 : k \in S => k + 1 \in S
  PROVE  n \in S
  <1> SUFFICES ASSUME n \notin S PROVE FALSE
    OBVIOUS
  <1> DEFINE T == (0 .. n) \ S
  <1>1. T \in SUBSET Nat /\ T # {}
    OBVIOUS
  <1>2. PICK m \in T : \A k \in T : m <= k
    <2> HIDE DEF T
    <2> QED BY <1>1, LeastElement
  <1>3. m \in 1 .. n /\ m - 1 \in S
    BY <1>2
  <1> QED BY <1>3

\* The steps of a loop that keeps to D, and the results of one that starts from base.
Steps(D, n) == [1 .. n -> [D -> D]]
Results(D, base, n, step) ==
  {g \in [0 .. n -> D] : g[0] = base /\ \A k \in 1 .. n : g[k] = step[k][g[k - 1]]}

\* Such a loop has its results: base, and one after each step.
LEMMA LoopHasResults ==
  ASSUME NEW D, NEW base \in D, NEW n \in Nat, NEW step \in Steps(D, n)
  PROVE  Results(D, base, n, step) # {}
  <1> DEFINE S == {m \in 0 .. n : Results(D, base, m, step) # {}}
  <1>1. 0 \in S
    <2>1. [k \in 0 .. 0 |-> base] \in Results(D, base, 0, step)
      BY DEF Results
    <2> QED BY <2>1
  <1>2. ASSUME NEW m \in 0 .. n - 1, m \in S
        PROVE  m + 1 \in S
    <2>1. PICK g : g \in Results(D, base, m, step)
      BY <1>2
    <2> DEFINE h == [k \in 0 .. m + 1 |-> IF k = m + 1 THEN step[m + 1][g[m]] ELSE g[k]]
    <2>2. m + 1 \in 1 .. n /\ m \in 0 .. m
      OBVIOUS
    <2>3. step[m + 1] \in [D -> D] /\ g[m] \in D
      BY <2>1, <2>2 DEF Steps, Results
    <2>4. h \in [0 .. m + 1 -> D]
      <3>1. \A k \in 0 .. m + 1 : k # m + 1 => k \in 0 .. m
        OBVIOUS
      <3>2. step[m + 1][g[m]] \in D
        BY <2>3
      <3> QED BY <2>1, <3>1, <3>2 DEF Results
    <2>5. h[m + 1] = step[m + 1][g[m]] /\ \A k \in 0 .. m : h[k] = g[k]
      OBVIOUS
    <2> HIDE DEF h
    <2>6. h[0] = base /\ \A k \in 1 .. m + 1 : h[k] = step[k][h[k - 1]]
      BY <2>1, <2>5 DEF Results
    <2>7. h \in Results(D, base, m + 1, step)
      BY <2>4, <2>6 DEF Results
    <2>8. m + 1 \in 0 .. n
      BY <2>2
    <2> QED BY <2>7, <2>8
  <1>3. S \in SUBSET Nat
    OBVIOUS
  <1> HIDE DEF S
  <1>4. n \in S
    BY <1>1, <1>2, <1>3, SetInduction
  <1> QED BY <1>4 DEF S
==============================================================================
