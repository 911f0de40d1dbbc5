---------------------------- MODULE SetInduction ----------------------------
(***************************************************************************)
(* Induction over the natural numbers, stated of sets.  The induction      *)
(* theorems of the library take an operator as a parameter, which the      *)
(* provers cannot instantiate; this one takes a set, and so does the       *)
(* strong form.                                                            *)
(***************************************************************************)
EXTENDS Naturals, FiniteSetTheorems, TLAPS

(* Were n missing from S, adding one would map the part of S below n one   *)
(* to one to itself, but not onto 0.                                       *)
LEMMA NatSetInduction ==
  ASSUME NEW S, 0 \in S, \A n \in Nat : n \in S => n + 1 \in S
  PROVE  \A n \in Nat : n \in S
<1> SUFFICES ASSUME NEW n \in Nat, n \notin S PROVE FALSE
  OBVIOUS
<1> DEFINE T == S \cap (0..n)
           next == [i \in T |-> i + 1]
<1>1. IsFiniteSet(T)
  <2>1. IsFiniteSet(0..n)
    BY FS_Interval
  <2> QED
    BY <2>1, FS_Intersection
<1>2. \A i \in T : i + 1 \in T /\ next[i] = i + 1
  OBVIOUS
<1>3. next \in [T -> T]
  BY <1>2
<1>4. next \in Injection(T, T)
  BY <1>2, <1>3 DEF Injection, IsInjective
<1>5. next \in Surjection(T, T)
  BY <1>1, <1>4, FS_Injection
<1>6. 0 \in T
  OBVIOUS
<1>7. \E i \in T : next[i] = 0
  <2> HIDE DEF T, next
  <2> QED
    BY <1>5, <1>6 DEF Surjection
<1> QED
  BY <1>2, <1>7

(* The strong form: n may be reached from all smaller numbers. *)
LEMMA StrongSetInduction ==
  ASSUME NEW S,
         \A n \in Nat : (\A m \in 0..(n - 1) : m \in S) => n \in S
  PROVE  \A n \in Nat : n \in S
<1> DEFINE T == {n \in Nat : \A m \in 0..(n - 1) : m \in S}
<1>1. 0 \in T
  OBVIOUS
<1>2. ASSUME NEW n \in Nat, n \in T PROVE n + 1 \in T
  <2>1. n \in S
    BY <1>2
  <2>2. \A m \in 0..((n + 1) - 1) : m \in 0..(n - 1) \/ m = n
    OBVIOUS
  <2> QED
    BY <1>2, <2>1, <2>2
<1> HIDE DEF T
<1>3. \A n \in Nat : n \in T
  BY <1>1, <1>2, NatSetInduction
<1> QED
  BY <1>3 DEF T
=============================================================================
