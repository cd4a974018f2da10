----------------------------- MODULE Induction -----------------------------
(***************************************************************************)
(* Induction and recursion for the proofs, with sets and functions where   *)
(* the theorems of the library have operators as parameters.               *)
(***************************************************************************)
EXTENDS Integers, Sequences, FiniteSetTheorems, WellFoundedInduction, TLAPS

(* Every set of numbers has a least one. *)
LEMMA LeastNumber ==
  ASSUME NEW T \in SUBSET Nat, T # {}
  PROVE  \E n \in T : \A m \in T : n <= m
<1>. DEFINE R == OpToRel(<, Nat)
<1>1. IsWellFoundedOn(R, Nat)
  BY NatLessThanWellFounded
<1>2. \A m, n \in Nat : <<m, n>> \in R <=> m < n
  BY DEF OpToRel
<1>. HIDE DEF R
<1>3. PICK n \in T : \A m \in T : ~ (<<m, n>> \in R)
  BY <1>1, WFMin
<1>4. ASSUME NEW m \in T PROVE n <= m
  <2>1. m \in Nat /\ n \in Nat
    OBVIOUS
  <2>2. ~ (m < n)
    BY <1>2, <1>3, <2>1
  <2>. QED  BY <2>1, <2>2
<1>. QED
  BY <1>3, <1>4

(* Induction from 0 to n over the set of the numbers that have a property. *)
LEMMA IntervalInduction ==
  ASSUME NEW n \in Nat, NEW T, 0 \in T,
         \A k \in 0..(n - 1) : k \in T => k + 1 \in T
  PROVE  0..n \subseteq T
<1>. DEFINE C == (0..n) \ T
<1>. SUFFICES ASSUME C # {} PROVE FALSE
  OBVIOUS
<1>1. PICK k \in C : \A m \in C : k <= m
  <2>1. C \in SUBSET Nat
    OBVIOUS
  <2>. HIDE DEF C
  <2>. QED  BY <2>1, LeastNumber
<1>2. k # 0 /\ k - 1 \in 0..(n - 1) /\ (k - 1) + 1 = k
  BY <1>1
<1>3. k - 1 \in T
  BY <1>1, <1>2
<1>. QED
  BY <1>1, <1>2, <1>3

(* A function that starts with base and takes each value from the one before *)
(* it, by the function step of the place and of that value,                *)
Follows(f, n, X, base, step) ==
  /\ f \in [0..n -> X]
  /\ f[0] = base
  /\ \A k \in 1..n : f[k] = step[<<k, f[k - 1]>>]

(* exists for any such step that stays within the set. *)
LEMMA RecursionExists ==
  ASSUME NEW n \in Nat, NEW X, NEW base \in X, NEW step,
         \A k \in 1..n : \A x \in X : step[<<k, x>>] \in X
  PROVE  \E f : Follows(f, n, X, base, step)
<1>. DEFINE Good(f, m) == f[0] = base /\ \A k \in 1..m : f[k] = step[<<k, f[k - 1]>>]
            T == {m \in 0..n : \E f \in [0..m -> X] : Good(f, m)}
<1>1. 0 \in T
  <2>1. [i \in 0..0 |-> base] \in [0..0 -> X] /\ Good([i \in 0..0 |-> base], 0)
    OBVIOUS
  <2>2. 0 \in 0..n
    OBVIOUS
  <2>. HIDE DEF Good
  <2>. QED  BY <2>1, <2>2
<1>2. ASSUME NEW m \in 0..(n - 1), m \in T
      PROVE  m + 1 \in T
  <2>1. PICK f \in [0..m -> X] : Good(f, m)
    BY <1>2
  <2>. DEFINE last == step[<<m + 1, f[m]>>]
              g == [i \in 0..(m + 1) |-> IF i = m + 1 THEN last ELSE f[i]]
  <2>2. last \in X
    <3>1. m + 1 \in 1..n /\ f[m] \in X
      OBVIOUS
    <3>. QED  BY <3>1
  <2>3. g \in [0..(m + 1) -> X]
    BY <2>2
  <2>4. g[0] = base
    BY <2>1
  <2>5. ASSUME NEW k \in 1..(m + 1) PROVE g[k] = step[<<k, g[k - 1]>>]
    <3>1. CASE k = m + 1
      <4>1. g[k] = last /\ g[k - 1] = f[m] /\ k - 1 = m
        BY <3>1
      <4>. QED  BY <3>1, <4>1
    <3>2. CASE k # m + 1
      <4>1. g[k] = f[k] /\ g[k - 1] = f[k - 1] /\ k \in 1..m
        BY <3>2
      <4>. QED  BY <2>1, <4>1
    <3>. QED  BY <3>1, <3>2
  <2>. HIDE DEF g
  <2>. QED  BY <2>3, <2>4, <2>5
<1>3. 0..n \subseteq T
  <2>. HIDE DEF T
  <2>. QED  BY <1>1, <1>2, IntervalInduction
<1>4. n \in T
  BY <1>3
<1>5. PICK f \in [0..n -> X] : Good(f, n)
  BY <1>4
<1>. QED
  BY <1>5 DEF Follows

(* A function that is defined by such a step, as long as its values are in  *)
(* the set, is that function.                                              *)
LEMMA RecursionFollows ==
  ASSUME NEW n \in Nat, NEW X, NEW base \in X, NEW step,
         \A k \in 1..n : \A x \in X : step[<<k, x>>] \in X,
         NEW f, f = [k \in 0..n |-> f[k]], f[0] = base,
         \A k \in 1..n : f[k - 1] \in X => f[k] = step[<<k, f[k - 1]>>]
  PROVE  Follows(f, n, X, base, step)
<1>. DEFINE T == {k \in 0..n : f[k] \in X}
<1>1. 0 \in T
  OBVIOUS
<1>2. ASSUME NEW k \in 0..(n - 1), k \in T PROVE k + 1 \in T
  <2>1. k + 1 \in 1..n /\ (k + 1) - 1 = k
    OBVIOUS
  <2>2. f[k + 1] = step[<<k + 1, f[k]>>]
    BY <1>2, <2>1
  <2>. QED  BY <1>2, <2>1, <2>2
<1>3. 0..n \subseteq T
  <2>. HIDE DEF T
  <2>. QED  BY <1>1, <1>2, IntervalInduction
<1>4. \A k \in 0..n : f[k] \in X
  BY <1>3
<1>5. f \in [0..n -> X]
  BY <1>4
<1>6. \A k \in 1..n : k - 1 \in 0..n
  OBVIOUS
<1>. QED
  BY <1>4, <1>5, <1>6 DEF Follows
=============================================================================
