------------------------------ MODULE Recursion ------------------------------
(***************************************************************************)
(* Induction over the natural numbers, and functions defined by it, for    *)
(* the recursive functions of WrSdSync (FrameStarts, FrameEnd).  The       *)
(* library's induction theorems take the statement as an operator; these   *)
(* take it as a set, and rest on the minimum of a well-founded order.      *)
(***************************************************************************)
EXTENDS Integers, WellFoundedInduction, TLAPS

\* The order of the natural numbers.
Less == {p \in Nat \X Nat : p[1] < p[2]}

(* The order is well-founded.                                                *)
LEMMA LessIsWellFounded == IsWellFoundedOn(Less, Nat)
  <1>1. OpToRel(<, Nat) = Less
    BY DEF OpToRel, Less
  <1> QED
    BY <1>1, NatLessThanWellFounded

(* A set of natural numbers that is not empty has a least element.           *)
LEMMA LeastNat ==
  ASSUME NEW T \in SUBSET Nat, T # {}
  PROVE  \E n \in T : \A m \in T : n <= m
  <1>1. PICK n \in T : \A m \in T : ~ (<<m, n>> \in Less)
    BY LessIsWellFounded, WFMin
  <1>2. ASSUME NEW m \in T PROVE n <= m
    <2>1. <<m, n>> \in Nat \X Nat /\ <<m, n>>[1] = m /\ <<m, n>>[2] = n
      OBVIOUS
    <2>2. ~(<<m, n>>[1] < <<m, n>>[2])
      BY <1>1, <2>1 DEF Less
    <2> QED
      BY <2>1, <2>2
  <1> QED
    BY <1>2

(* A set that holds 0, and the successor of each of its numbers, holds them all.*)
LEMMA Induction ==
  ASSUME NEW P, 0 \in P, \A n \in Nat : n \in P => n + 1 \in P
  PROVE  Nat \subseteq P
  <1> SUFFICES ASSUME Nat \ P # {} PROVE FALSE
    OBVIOUS
  <1>1. PICK n \in Nat \ P : \A m \in Nat \ P : n <= m
    BY LeastNat
  <1>2. n # 0 /\ n - 1 \in Nat /\ n - 1 \notin Nat \ P
    BY <1>1
  <1> QED
    BY <1>2

\* f[n] is g applied n times to a.
IsIteration(f, a, g) == f[0] = a /\ \A n \in Nat : f[n + 1] = g[f[n]]

(* A function can be iterated: there is an f with f[0] = a and             *)
(* f[n + 1] = g[f[n]].                                                       *)
LEMMA Iterates ==
  ASSUME NEW S, NEW a \in S, NEW g \in [S -> S]
  PROVE  \E f \in [Nat -> S] : IsIteration(f, a, g)
  <1> DEFINE Upto(n, f) == f[0] = a /\ \A i \in 0..n - 1 : f[i + 1] = g[f[i]]
             P == {n \in Nat : \E f \in [Nat -> S] : Upto(n, f)}
  <1>1. 0 \in P
    <2>1. [i \in Nat |-> a] \in [Nat -> S] /\ Upto(0, [i \in Nat |-> a])
      OBVIOUS
    <2> QED
      BY <2>1
  <1>2. ASSUME NEW n \in Nat, n \in P PROVE n + 1 \in P
    <2>1. PICK f \in [Nat -> S] : Upto(n, f)
      BY <1>2
    <2> DEFINE h == [i \in Nat |-> IF i <= n THEN f[i] ELSE g[f[n]]]
    <2>2. h \in [Nat -> S]
      OBVIOUS
    <2>3. Upto(n + 1, h)
      <3>1. h[0] = a
        BY <2>1
      <3>2. ASSUME NEW i \in 0..n PROVE h[i + 1] = g[h[i]]
        BY <2>1
      <3> QED
        BY <3>1, <3>2
    <2> HIDE DEF h, Upto
    <2> QED
      BY <2>2, <2>3
  <1>3. Nat \subseteq P
    <2> HIDE DEF P
    <2> QED
      BY <1>1, <1>2, Induction
  <1>4. \A n \in Nat : \E f \in [Nat -> S] : Upto(n, f)
    BY <1>3
  <1>5. ASSUME NEW m \in Nat, NEW f, NEW h, f \in [Nat -> S], h \in [Nat -> S],
               Upto(m, f), Upto(m, h)
        PROVE  \A i \in 0..m : f[i] = h[i]
    <2> DEFINE Q == {i \in Nat : i <= m => f[i] = h[i]}
    <2>1. 0 \in Q
      BY <1>5
    <2>2. ASSUME NEW i \in Nat, i \in Q PROVE i + 1 \in Q
      BY <1>5, <2>2
    <2>3. Nat \subseteq Q
      <3> HIDE DEF Q
      <3> QED
        BY <2>1, <2>2, Induction
    <2> QED
      BY <2>3
  <1> DEFINE part == [n \in Nat |-> CHOOSE f \in [Nat -> S] : Upto(n, f)]
             all == [n \in Nat |-> part[n][n]]
  <1>6. \A n \in Nat : part[n] \in [Nat -> S] /\ Upto(n, part[n])
    <2> TAKE n \in Nat
    <2>1. \E f \in [Nat -> S] : Upto(n, f)
      BY <1>4
    <2> HIDE DEF Upto
    <2> QED
      BY <2>1
  <1>7. all \in [Nat -> S] /\ all[0] = a
    <2> HIDE DEF part
    <2> QED
      BY <1>6
  <1>8. ASSUME NEW n \in Nat PROVE all[n + 1] = g[all[n]]
    <2> HIDE DEF part
    <2>1. Upto(n, part[n]) /\ Upto(n, part[n + 1]) /\ part[n + 1][n + 1] = g[part[n + 1][n]]
      BY <1>6
    <2>2. part[n][n] = part[n + 1][n]
      <3> HIDE DEF Upto
      <3>1. part[n] \in [Nat -> S] /\ part[n + 1] \in [Nat -> S]
        BY <1>6
      <3> QED
        BY <1>5, <2>1, <3>1
    <2> QED
      BY <2>1, <2>2
  <1> HIDE DEF all
  <1> QED
    BY <1>7, <1>8 DEF IsIteration
===============================================================================
