--------------------------- MODULE NaturalLemmas ---------------------------
(***************************************************************************)
(* Lemmas about natural numbers with sets and functions in the place of    *)
(* predicates and operators: a set of numbers has a least element, a set   *)
(* that is closed under successors is all of them, and a value for 0 and a *)
(* step from each number to the next define a function.                    *)
(***************************************************************************)
EXTENDS Integers, FiniteSetTheorems, WellFoundedInduction, TLAPS

\* A set of natural numbers has a least element: intervals from 0 are finite sets, and
\* strict inclusion of finite sets is well founded.
LEMMA Least ==
  ASSUME NEW T \in SUBSET Nat, T # {}
  PROVE  \E x \in T : \A y \in T : x <= y
<1> DEFINE U == {0 .. x : x \in T}
<1>1. \A x \in Nat : 0 .. x \in FiniteSubsetsOf(Nat)
  BY FS_Interval DEF FiniteSubsetsOf
<1>2. IsWellFoundedOn(StrictSubsetOrdering(Nat), FiniteSubsetsOf(Nat))
  BY FS_StrictSubsetOrderingWellFounded
<1>3. U # {} /\ U \subseteq FiniteSubsetsOf(Nat)
  BY <1>1
<1> HIDE DEF U
<1>4. PICK u \in U : \A v \in U : <<v, u>> \notin StrictSubsetOrdering(Nat)
  BY <1>2, <1>3, WFMin
<1>5. PICK x \in T : u = 0 .. x
  BY DEF U
<1>6. ASSUME NEW y \in T, y < x PROVE FALSE
  <2>1. 0 .. y \in U
    BY DEF U
  <2>2. x \in 0 .. x /\ x \notin 0 .. y
    BY <1>6
  <2>3. 0 .. y \subseteq 0 .. x /\ 0 .. y \in SUBSET Nat /\ 0 .. x \in SUBSET Nat
    BY <1>6
  <2> QED BY <1>4, <1>5, <2>1, <2>2, <2>3 DEF StrictSubsetOrdering
<1> QED BY <1>6

\* Induction: the least number that is missing could be neither 0 nor a successor.
LEMMA Induction ==
  ASSUME NEW T \in SUBSET Nat, 0 \in T, \A n \in T : n + 1 \in T
  PROVE  T = Nat
<1> SUFFICES ASSUME Nat \ T # {} PROVE FALSE
  OBVIOUS
<1>1. PICK x \in Nat \ T : \A y \in Nat \ T : x <= y
  <2>1. Nat \ T \in SUBSET Nat
    OBVIOUS
  <2>2. QED
    BY <2>1, Least
<1>2. x - 1 \in Nat /\ (x - 1) + 1 = x /\ ~(x <= x - 1)
  BY <1>1
<1>3. QED
  BY <1>1, <1>2

\* Induction up to a number.
LEMMA InductionTo ==
  ASSUME NEW N \in Nat, NEW T, 0 \in T, \A n \in 0 .. N - 1 : n \in T => n + 1 \in T
  PROVE  0 .. N \subseteq T
<1> DEFINE U == {n \in Nat : n <= N => n \in T}
<1>1. U = Nat
  <2>1. U \in SUBSET Nat /\ 0 \in U
    OBVIOUS
  <2>2. \A n \in U : n + 1 \in U
    OBVIOUS
  <2> HIDE DEF U
  <2>3. QED
    BY <2>1, <2>2, Induction
<1>2. QED
  BY <1>1

\* The function that is b at 0 and from there goes on by the steps.
Follows(f, b, step) == f[0] = b /\ \A n \in Nat : f[n + 1] = step[n][f[n]]

\* Definition by recursion: the values up to n are determined, so they are those of a
\* function on all numbers.
LEMMA Recursion ==
  ASSUME NEW S, NEW b \in S, NEW step \in [Nat -> [S -> S]]
  PROVE  \E f \in [Nat -> S] : Follows(f, b, step)
<1> DEFINE Upto(n) == {g \in [0 .. n -> S] :
                         g[0] = b /\ \A k \in 0 .. n - 1 : g[k + 1] = step[k][g[k]]}
<1>1. \A n \in Nat : Upto(n) # {}
  <2> DEFINE U == {n \in Nat : Upto(n) # {}}
  <2>1. 0 \in U
    <3>1. [k \in 0 .. 0 |-> b] \in Upto(0)
      OBVIOUS
    <3>2. QED
      BY <3>1
  <2>2. ASSUME NEW n \in U PROVE n + 1 \in U
    <3>1. PICK g \in Upto(n) : TRUE
      OBVIOUS
    <3> DEFINE h == [k \in 0 .. n + 1 |-> IF k = n + 1 THEN step[n][g[n]] ELSE g[k]]
    <3>2. g \in [0 .. n -> S] /\ n \in Nat /\ n \in 0 .. n /\ step[n][g[n]] \in S
      BY <3>1
    <3>3. h \in [0 .. n + 1 -> S]
      BY <3>2
    <3>4. h[0] = b
      BY <3>1, <3>2
    <3>5. ASSUME NEW k \in 0 .. n PROVE h[k + 1] = step[k][h[k]]
      BY <3>1, <3>2
    <3>6. h \in Upto(n + 1)
      <4>1. 0 .. (n + 1) - 1 = 0 .. n
        BY <3>2
      <4> HIDE DEF h
      <4>2. QED
        BY <3>3, <3>4, <3>5, <4>1
    <3> HIDE DEF h, Upto
    <3>7. QED
      BY <3>2, <3>6
  <2>3. U \in SUBSET Nat
    OBVIOUS
  <2> HIDE DEF U
  <2>4. U = Nat
    BY <2>1, <2>2, <2>3, Induction
  <2>5. QED
    BY <2>4 DEF U
<1>2. ASSUME NEW n \in Nat, NEW g \in Upto(n), NEW h \in Upto(n + 1) PROVE g[n] = h[n]
  <2> DEFINE U == {k \in Nat : k <= n => g[k] = h[k]}
  <2>1. 0 \in U
    OBVIOUS
  <2>2. ASSUME NEW k \in U PROVE k + 1 \in U
    <3>1. k \in Nat
      OBVIOUS
    <3>2. CASE k + 1 <= n
      <4>1. k \in 0 .. n - 1 /\ k \in 0 .. (n + 1) - 1 /\ g[k] = h[k]
        BY <3>1, <3>2
      <4>2. g[k + 1] = step[k][g[k]] /\ h[k + 1] = step[k][h[k]]
        BY <4>1
      <4>3. QED
        BY <3>1, <4>1, <4>2
    <3>3. QED
      BY <3>1, <3>2
  <2>3. U \in SUBSET Nat
    OBVIOUS
  <2> HIDE DEF U
  <2>4. U = Nat
    BY <2>1, <2>2, <2>3, Induction
  <2>5. QED
    BY <2>4 DEF U
<1> DEFINE pick(n) == CHOOSE g \in Upto(n) : TRUE
<1>3. \A n \in Nat : pick(n) \in Upto(n)
  BY <1>1
<1> HIDE DEF pick
<1>4. ASSUME NEW n \in Nat
      PROVE  /\ pick(n) \in [0 .. n -> S] /\ pick(n)[0] = b
             /\ \A k \in 0 .. n - 1 : pick(n)[k + 1] = step[k][pick(n)[k]]
  BY <1>3
<1>5. ASSUME NEW n \in Nat PROVE pick(n)[n] = pick(n + 1)[n]
  <2>1. pick(n) \in Upto(n) /\ pick(n + 1) \in Upto(n + 1)
    BY <1>3
  <2> HIDE DEF Upto
  <2>2. QED
    BY <1>2, <2>1
<1> DEFINE f == [n \in Nat |-> pick(n)[n]]
<1>6. f \in [Nat -> S]
  <2>1. ASSUME NEW n \in Nat PROVE pick(n)[n] \in S
    BY <1>4
  <2>2. QED
    BY <2>1
<1>7. f[0] = b
  BY <1>4
<1>8. ASSUME NEW n \in Nat PROVE f[n + 1] = step[n][f[n]]
  <2>1. n \in 0 .. (n + 1) - 1 /\ n + 1 \in Nat
    OBVIOUS
  <2>2. pick(n + 1)[n + 1] = step[n][pick(n + 1)[n]]
    BY <1>4, <2>1
  <2>3. QED
    BY <1>5, <2>1, <2>2
<1> HIDE DEF f
<1>9. QED
  BY <1>6, <1>7, <1>8 DEF Follows
=============================================================================
