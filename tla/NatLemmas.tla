----------------------------- MODULE NatLemmas -----------------------------
(***************************************************************************)
(* What the proofs need of the natural numbers, stated for sets: the       *)
(* provers cannot instantiate an induction theorem whose parameter is an   *)
(* operator, but they can be given the set where a formula holds.          *)
(***************************************************************************)
EXTENDS Integers, WellFoundedInduction, TLAPS

(* Of a set of natural numbers that has a member there is a least one, as  *)
(* the loops that stop at the first index with a property rely on.         *)
LEMMA LeastNat ==
    ASSUME NEW T \in SUBSET Nat, NEW m \in T
    PROVE  \E i \in T : \A j \in T : i <= j
<1>1. IsWellFoundedOn(OpToRel(<, Nat), Nat)
  BY NatLessThanWellFounded
<1>2. PICK i \in T : \A j \in T : <<j, i>> \notin OpToRel(<, Nat)
  BY <1>1, WFMin
<1>3. \A j \in T : ~(j < i)
  BY <1>2 DEF OpToRel
<1> QED BY <1>3

(* Induction: a set that has 0 and with each number the next has them all. *)
LEMMA NatSetInduction ==
    ASSUME NEW S, 0 \in S, \A n \in Nat : n \in S => n + 1 \in S
    PROVE  Nat \subseteq S
<1> SUFFICES ASSUME NEW m \in Nat \ S PROVE FALSE
  OBVIOUS
<1>1. PICK n \in Nat \ S : \A j \in Nat \ S : n <= j
  BY LeastNat
<1>2. n # 0
  OBVIOUS
<1>3. n - 1 \in Nat /\ ~(n <= n - 1) /\ (n - 1) + 1 = n
  BY <1>2
<1>4. n - 1 \in S
  BY <1>1, <1>3
<1> QED BY <1>3, <1>4

(* f lists the first n + 1 values of a loop that starts with x0 and whose  *)
(* i-th turn is the function F[i].                                         *)
IsLoop(f, x0, n, F) == \A i \in 0..n : f[i] = IF i = 0 THEN x0 ELSE F[i][f[i-1]]

(* Such a loop has values: the recursive functions of the models, which    *)
(* are loops of this kind, are defined.                                    *)
LEMMA LoopExists ==
    ASSUME NEW X, NEW x0 \in X, NEW n \in Nat, NEW F \in [1..n -> [X -> X]]
    PROVE  \E f \in [0..n -> X] : IsLoop(f, x0, n, F)
<1> DEFINE S == {m \in Nat : m <= n => \E f \in [0..m -> X] : IsLoop(f, x0, m, F)}
<1>1. 0 \in S
  <2>1. [i \in 0..0 |-> x0] \in [0..0 -> X] /\ IsLoop([i \in 0..0 |-> x0], x0, 0, F)
    BY DEF IsLoop
  <2> QED BY <2>1
<1>2. ASSUME NEW m \in Nat, m \in S PROVE m + 1 \in S
  <2> SUFFICES ASSUME m + 1 <= n PROVE \E f \in [0..(m+1) -> X] : IsLoop(f, x0, m + 1, F)
    OBVIOUS
  <2>1. PICK f \in [0..m -> X] : IsLoop(f, x0, m, F)
    BY <1>2
  <2> DEFINE g == [i \in 0..(m+1) |-> IF i = 0 THEN x0 ELSE F[i][f[i-1]]]
  <2>2. \A i \in 0..(m+1) : i # 0 => i - 1 \in 0..m /\ i \in 1..n
    OBVIOUS
  <2>3. g \in [0..(m+1) -> X]
    BY <2>2
  <2>4. \A i \in 0..m : g[i] = f[i]
    BY <2>1 DEF IsLoop
  <2>5. IsLoop(g, x0, m + 1, F)
    BY <2>2, <2>4 DEF IsLoop
  <2> HIDE DEF g
  <2> QED BY <2>3, <2>5
<1> HIDE DEF S
<1>3. Nat \subseteq S
  BY <1>1, <1>2, NatSetInduction
<1> QED BY <1>3 DEF S
=============================================================================
