------------------------------ MODULE Induction ------------------------------
(***************************************************************************)
(* Induction and recursion over the natural numbers with sets and          *)
(* functions in the place of predicates and operators.  The other proofs   *)
(* use it for what walks over logs and sequences compute.                  *)
(***************************************************************************)
EXTENDS Naturals, FiniteSetTheorems, TLAPS

\* Numbers are well ordered: their initial segments are finite sets, and these are well
\* founded under inclusion.
THEOREM LeastNatural ==
  ASSUME NEW T, T \subseteq Nat, T # {}
  PROVE  \E x \in T : \A y \in T : x <= y
<1> DEFINE U == {0 .. x : x \in T}
           R == StrictSubsetOrdering(Nat)
           F == FiniteSubsetsOf(Nat)
<1>1. IsWellFoundedOn(R, F)
  BY FS_StrictSubsetOrderingWellFounded
<1>2. U \subseteq F /\ U # {}
  <2>1. \A x \in T : 0 .. x \subseteq Nat /\ IsFiniteSet(0 .. x)
    BY FS_Interval
  <2> QED BY <2>1 DEF FiniteSubsetsOf
<1>3. PICK I \in U : \A J \in U : ~(<<J, I>> \in R)
  <2> HIDE DEF U, R, F
  <2> QED BY <1>1, <1>2, WFMin
<1>4. PICK x \in T : I = 0 .. x
  OBVIOUS
<1>5. ASSUME NEW y \in T, y < x PROVE FALSE
  <2>1. 0 .. y \in U /\ 0 .. y \subseteq 0 .. x /\ x \in 0 .. x /\ x \notin 0 .. y
    BY <1>5
  <2>2. 0 .. y # 0 .. x
    BY <2>1
  <2>3. <<0 .. y, 0 .. x>> \in R
    BY <2>1, <2>2 DEF StrictSubsetOrdering
  <2> QED BY <1>3, <1>4, <2>1, <2>3
<1> QED BY <1>5

\* A set that has zero and with every number the next one has all of them.
THEOREM SetInduction ==
  ASSUME NEW S, 0 \in S, \A n \in Nat : n \in S => n + 1 \in S
  PROVE  Nat \subseteq S
<1> DEFINE T == Nat \ S
<1>1. SUFFICES ASSUME T # {} PROVE FALSE
  OBVIOUS
<1>2. PICK x \in T : \A y \in T : x <= y
  BY <1>1, LeastNatural
<1>3. x \in Nat /\ x # 0 /\ x - 1 \in Nat /\ (x - 1) + 1 = x
  OBVIOUS
<1>4. x - 1 \in S
  BY <1>2, <1>3
<1> QED BY <1>3, <1>4

\* The same up to a bound.
THEOREM BoundedInduction ==
  ASSUME NEW N \in Nat, NEW S, 0 \in S, \A i \in 1 .. N : i - 1 \in S => i \in S
  PROVE  0 .. N \subseteq S
<1> DEFINE T == {n \in Nat : n <= N => n \in S}
<1>1. 0 \in T
  OBVIOUS
<1>2. ASSUME NEW n \in Nat, n \in T PROVE n + 1 \in T
  <2>1. SUFFICES ASSUME n + 1 <= N PROVE n + 1 \in S
    OBVIOUS
  <2>2. n + 1 \in 1 .. N /\ (n + 1) - 1 = n /\ n \in S
    BY <1>2, <2>1
  <2> QED BY <2>2
<1> HIDE DEF T
<1>3. Nat \subseteq T
  BY <1>1, <1>2, SetInduction
<1> QED BY <1>3 DEF T

\* What a function on 0 .. n is that starts with first and goes on with step.
IsRecursion(g, n, first, step) == g[0] = first /\ \A i \in 1 .. n : g[i] = step[i][g[i - 1]]

\* A function defined step by step up to N exists, and its values have what the first has
\* and every step keeps: `good` is an invariant of the recursion.
THEOREM InvariantRecursion ==
  ASSUME NEW V, NEW N \in Nat, NEW first, NEW step, NEW good \in [0 .. N -> SUBSET V],
         first \in good[0],
         \A i \in 1 .. N : \A v \in good[i - 1] : step[i][v] \in good[i]
  PROVE  \E g \in [0 .. N -> V] : /\ IsRecursion(g, N, first, step)
                                  /\ \A i \in 0 .. N : g[i] \in good[i]
<1> DEFINE Fits(g, n) == IsRecursion(g, n, first, step) /\ \A i \in 0 .. n : g[i] \in good[i]
           S == {n \in Nat : n <= N => \E g \in [0 .. n -> V] : Fits(g, n)}
<1>1. 0 \in S
  <2> DEFINE g == [i \in 0 .. 0 |-> first]
  <2>1. good[0] \subseteq V
    OBVIOUS
  <2>2. g \in [0 .. 0 -> V] /\ Fits(g, 0)
    BY <2>1 DEF IsRecursion
  <2> QED BY <2>2
<1> HIDE DEF Fits
<1>2. ASSUME NEW n \in Nat, n \in S PROVE n + 1 \in S
  <2>1. SUFFICES ASSUME n + 1 <= N
                 PROVE  \E g \in [0 .. n + 1 -> V] : Fits(g, n + 1)
    OBVIOUS
  <2>2. PICK g \in [0 .. n -> V] : Fits(g, n)
    BY <1>2, <2>1
  <2>3. n + 1 \in 1 .. N /\ n + 1 \in 0 .. N /\ (n + 1) - 1 = n /\ g[n] \in good[n]
    BY <2>1, <2>2 DEF Fits
  <2> DEFINE next == step[n + 1][g[n]]
             h == [i \in 0 .. n + 1 |-> IF i = n + 1 THEN next ELSE g[i]]
  <2>4. next \in good[n + 1]
    BY <2>3
  <2>5. good[n + 1] \subseteq V
    BY <2>3
  <2>6. h \in [0 .. n + 1 -> V]
    <3> HIDE DEF next
    <3> QED BY <2>4, <2>5
  <2>7. h[0] = first
    BY <2>2 DEF IsRecursion, Fits
  <2>8. ASSUME NEW i \in 1 .. n + 1 PROVE h[i] = step[i][h[i - 1]]
    <3>1. i - 1 \in 0 .. n /\ h[i - 1] = g[i - 1]
      OBVIOUS
    <3>2. CASE i = n + 1
      BY <3>1, <3>2
    <3>3. CASE i # n + 1
      BY <2>2, <3>1, <3>3 DEF IsRecursion, Fits
    <3> QED BY <3>2, <3>3
  <2>9. ASSUME NEW i \in 0 .. n + 1 PROVE h[i] \in good[i]
    <3>1. CASE i = n + 1
      BY <2>4, <3>1
    <3>2. CASE i # n + 1
      <4>1. i \in 0 .. n /\ h[i] = g[i]
        BY <3>2
      <4> QED BY <2>2, <4>1 DEF Fits
    <3> QED BY <3>1, <3>2
  <2>10. Fits(h, n + 1)
    <3> HIDE DEF h
    <3> QED BY <2>7, <2>8, <2>9 DEF IsRecursion, Fits
  <2> HIDE DEF h
  <2> QED BY <2>6, <2>10
<1> HIDE DEF S
<1>3. Nat \subseteq S
  BY <1>1, <1>2, SetInduction
<1>4. N \in S
  BY <1>3
<1> QED BY <1>4 DEF S, Fits

\* A function on 0 .. N whose steps stay in V exists.
THEOREM RecursionExists ==
  ASSUME NEW V, NEW N \in Nat, NEW first \in V, NEW step \in [1 .. N -> [V -> V]]
  PROVE  \E g \in [0 .. N -> V] : IsRecursion(g, N, first, step)
<1> DEFINE good == [i \in 0 .. N |-> V]
<1>1. good \in [0 .. N -> SUBSET V] /\ first \in good[0]
  OBVIOUS
<1>2. \A i \in 1 .. N : \A v \in good[i - 1] : step[i][v] \in good[i]
  <2>1. \A i \in 1 .. N : i \in 0 .. N /\ i - 1 \in 0 .. N
    OBVIOUS
  <2> QED BY <2>1
<1> HIDE DEF good
<1> QED BY <1>1, <1>2, InvariantRecursion
==============================================================================
