------------------------------- MODULE Loops -------------------------------
(***************************************************************************)
(* Induction for the provers, which instantiate no operator: over a set    *)
(* in place of a formula, and what a loop of n rounds computes.            *)
(***************************************************************************)
EXTENDS Integers, Sequences, SequenceTheorems, WellFoundedInduction, NaturalsInduction, TLAPS

(***************************************************************************)
(* Induction up to a number, over a set instead of a formula.              *)
(***************************************************************************)
LEMMA UpTo ==
  ASSUME NEW n \in Nat, NEW S, 0 \in S, \A k \in 0..(n-1) : k \in S => k + 1 \in S
  PROVE  0..n \subseteq S
<1>. DEFINE R == OpToRel(<, Nat)
            T == (0..n) \ S
<1>1. SUFFICES ASSUME T # {} PROVE FALSE
  OBVIOUS
<1>2. IsWellFoundedOn(R, Nat)
  BY NatLessThanWellFounded
<1>3. T \subseteq Nat
  OBVIOUS
<1>4. \E x \in T : \A y \in T : ~(<<y, x>> \in R)
  <2>. HIDE DEF R, T
  <2>. QED  BY <1>1, <1>2, <1>3, WFMin
<1>5. PICK x \in T : \A y \in T : ~(y < x)
  BY <1>3, <1>4 DEF OpToRel
<1>6. x # 0 /\ x \in 0..n /\ x - 1 \in 0..(n-1) /\ x - 1 < x /\ (x - 1) + 1 = x
  BY <1>5
<1>7. x - 1 \notin T
  BY <1>5, <1>6
<1>8. x - 1 \in S
  BY <1>6, <1>7
<1>. QED  BY <1>5, <1>6, <1>8

(***************************************************************************)
(* What a loop computes exists: n rounds, F[k] being the k-th.             *)
(***************************************************************************)
Runs(f, n, S, init, F) ==
  f \in [0..n -> S] /\ f[0] = init /\ \A k \in 1..n : f[k] = F[k][f[k-1]]

LEMMA LoopRuns ==
  ASSUME NEW n \in Nat, NEW S, NEW init \in S, NEW F \in [1..n -> [S -> S]]
  PROVE  \E f : Runs(f, n, S, init, F)
<1>. DEFINE T == {m \in 0..n : \E f : Runs(f, m, S, init, F)}
<1>1. 0 \in T
  <2>1. Runs([k \in 0..0 |-> init], 0, S, init, F)
    BY DEF Runs
  <2>. QED  BY <2>1
<1>2. ASSUME NEW m \in 0..(n-1), m \in T PROVE m + 1 \in T
  <2>1. PICK f : Runs(f, m, S, init, F)
    BY <1>2
  <2>. DEFINE g == [k \in 0..(m+1) |-> IF k = m + 1 THEN F[m+1][f[m]] ELSE f[k]]
  <2>2. m + 1 \in 1..n /\ F[m+1] \in [S -> S] /\ f[m] \in S
    BY <2>1 DEF Runs
  <2>3. F[m+1][f[m]] \in S
    BY <2>2
  <2>4. g \in [0..(m+1) -> S] /\ g[0] = init
    BY <2>1, <2>3 DEF Runs
  <2>5. ASSUME NEW k \in 1..(m+1) PROVE g[k] = F[k][g[k-1]]
    <3>1. CASE k = m + 1
      BY <3>1
    <3>2. CASE k # m + 1
      <4>1. k \in 1..m /\ k - 1 \in 0..m /\ k \in 0..(m+1) /\ k - 1 \in 0..(m+1) /\ k - 1 # m + 1
        BY <3>2
      <4>2. f[k] = F[k][f[k-1]]
        BY <2>1, <4>1 DEF Runs
      <4>. QED  BY <4>1, <4>2, <3>2
    <3>. QED  BY <3>1, <3>2
  <2>6. Runs(g, m + 1, S, init, F)
    BY <2>4, <2>5 DEF Runs
  <2>7. m + 1 \in 0..n
    OBVIOUS
  <2>. QED  BY <2>6, <2>7
<1>3. 0..n \subseteq T
  <2>. HIDE DEF T
  <2>. QED  BY <1>1, <1>2, UpTo
<1>. QED  BY <1>3

(* Who begins like the loop and goes on like it, computes the same.        *)
Follows(g, n, S, init, F) ==
  g[0] = init /\ \A k \in 1..n : g[k-1] \in S => g[k] = F[k][g[k-1]]

LEMMA LoopIsUnique ==
  ASSUME NEW n \in Nat, NEW S, NEW init, NEW F, NEW f, Runs(f, n, S, init, F),
         NEW m \in 0..n, NEW g, Follows(g, m, S, init, F)
  PROVE  \A k \in 0..m : g[k] = f[k]
<1>. DEFINE T == {k \in 0..m : g[k] = f[k]}
<1>1. 0 \in T
  <2>1. g[0] = f[0] /\ 0 \in 0..m
    BY DEF Runs, Follows
  <2>. QED  BY <2>1
<1>2. ASSUME NEW k \in 0..(m-1), k \in T PROVE k + 1 \in T
  <2>1. k + 1 \in 1..m /\ (k + 1) - 1 = k /\ k \in 0..n /\ k + 1 \in 0..m /\ k + 1 \in 1..n
    OBVIOUS
  <2>2. f[k] \in S /\ f[k + 1] = F[k + 1][f[k]]
    BY <2>1 DEF Runs
  <2>3. g[k] \in S => g[k + 1] = F[k + 1][g[k]]
    BY <2>1 DEF Follows
  <2>. QED  BY <1>2, <2>1, <2>2, <2>3
<1>3. 0..m \subseteq T
  <2>. HIDE DEF T
  <2>. QED  BY <1>1, <1>2, UpTo
<1>. QED  BY <1>3

=============================================================================
