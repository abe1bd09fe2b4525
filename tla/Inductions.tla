------------------------------- MODULE Inductions -------------------------------
(***************************************************************************)
(* Induction and recursion over numbers and sequences, for the proofs of   *)
(* modules that compute with recursive functions.  What a proof shows of   *)
(* every number or sequence is put as a set that has them all.             *)
(***************************************************************************)
EXTENDS Naturals, Sequences, SequenceTheorems, WellFoundedInduction, TLAPS

(* Every set of natural numbers that is not empty has a least member. *)
LEMMA LeastNumber ==
    ASSUME NEW T, T \subseteq Nat, T # {}
    PROVE  \E x \in T : \A y \in T : x <= y
  <1> DEFINE R == OpToRel(<, Nat)
  <1>1. IsWellFoundedOn(R, Nat)
    BY NatLessThanWellFounded
  <1>2. \A y \in Nat, x \in Nat : y < x => <<y, x>> \in R
    BY DEF OpToRel
  <1> HIDE DEF R
  <1>3. PICK x \in T : \A y \in T : ~ (<<y, x>> \in R)
    BY <1>1, WFMin
  <1>4. \A y \in T : x \in Nat /\ y \in Nat /\ ~ (y < x)
    BY <1>2, <1>3
  <1>5. \A y \in T : x <= y
    BY <1>4
  <1> QED
    BY <1>5

(* A set with 0 and the successor of each of its numbers has them all. *)
LEMMA Induction ==
    ASSUME NEW S, 0 \in S, \A n \in Nat : n \in S => n + 1 \in S
    PROVE  Nat \subseteq S
  <1> DEFINE T == Nat \ S
  <1> SUFFICES ASSUME T # {} PROVE FALSE
    OBVIOUS
  <1>1. PICK x \in T : \A y \in T : x <= y
    BY LeastNumber
  <1>2. x \in Nat /\ x # 0
    BY <1>1
  <1>3. x - 1 \in Nat /\ x - 1 \notin T
    BY <1>1, <1>2
  <1> QED
    BY <1>1, <1>2, <1>3

(* A set of sequences with the empty one, and what its members become when *)
(* they are appended to, has every sequence.                               *)
LEMMA SequenceInduction ==
    ASSUME NEW T, NEW S, << >> \in S,
           \A s \in Seq(T), e \in T : s \in S => Append(s, e) \in S
    PROVE  Seq(T) \subseteq S
  <1> DEFINE Has == {n \in Nat : \A s \in Seq(T) : Len(s) = n => s \in S}
  <1>1. 0 \in Has
    BY EmptySeq
  <1>2. ASSUME NEW n \in Nat, n \in Has PROVE n + 1 \in Has
    <2> SUFFICES ASSUME NEW s \in Seq(T), Len(s) = n + 1 PROVE s \in S
      OBVIOUS
    <2>1. s # << >>
      BY EmptySeq
    <2>2. PICK r \in Seq(T), e \in T : s = Append(r, e)
      BY <2>1, SequenceEmptyOrAppend
    <2>3. Len(r) = n
      BY <2>2, AppendProperties, LenProperties
    <2> QED
      BY <1>2, <2>2, <2>3
  <1>3. Nat \subseteq Has
    BY <1>1, <1>2, Induction
  <1> QED
    BY <1>3, LenProperties

(* The function on 0..N whose first value is c and whose others follow from *)
(* the one before.                                                          *)
IsStep(step, N, V) == step \in [(1..N) \X V -> V]
IsRecursion(f, N, V, c, step) ==
    /\ f \in [0..N -> V] /\ f[0] = c
    /\ \A n \in 1..N : f[n] = step[<< n, f[n - 1] >>]

(* g goes on as f does. *)
GoesOnAs(g, f, N) == \A n \in 1..N : f[n - 1] = g[n - 1] => f[n] = g[n]

LEMMA RecursionExists ==
    ASSUME NEW N \in Nat, NEW V, NEW c \in V, NEW step, IsStep(step, N, V)
    PROVE  \E f : IsRecursion(f, N, V, c, step)
  <1> USE DEF IsStep
  <1> DEFINE UpTo(m, f) == /\ f[0] = c
                           /\ \A n \in 1..m : f[n] = step[<< n, f[n - 1] >>]
             Has == {m \in Nat : m <= N => \E f \in [0..m -> V] : UpTo(m, f)}
  <1>1. 0 \in Has
    <2>1. [n \in 0..0 |-> c] \in [0..0 -> V] /\ UpTo(0, [n \in 0..0 |-> c])
      OBVIOUS
    <2> QED
      BY <2>1
  <1>2. ASSUME NEW m \in Nat, m \in Has PROVE m + 1 \in Has
    <2> SUFFICES ASSUME m + 1 <= N PROVE \E f \in [0..m + 1 -> V] : UpTo(m + 1, f)
      OBVIOUS
    <2>1. PICK f \in [0..m -> V] : UpTo(m, f)
      BY <1>2
    <2>2. << m + 1, f[m] >> \in (1..N) \X V
      OBVIOUS
    <2> DEFINE g == [n \in 0..m + 1 |-> IF n <= m THEN f[n] ELSE step[<< m + 1, f[m] >>]]
    <2>3. step[<< m + 1, f[m] >>] \in V
      BY <2>2
    <2>4. g \in [0..m + 1 -> V]
      <3>1. \A n \in 0..m + 1 : n <= m => n \in 0..m
        OBVIOUS
      <3> QED
        BY <2>3, <3>1
    <2>5. \A n \in 0..m : g[n] = f[n]
      OBVIOUS
    <2>6. g[m + 1] = step[<< m + 1, g[m] >>]
      <3>1. m + 1 \in 0..m + 1 /\ m \in 0..m /\ ~(m + 1 <= m)
        OBVIOUS
      <3> QED
        BY <3>1
    <2>7. UpTo(m + 1, g)
      <3>1. g[0] = c
        BY <2>1, <2>5
      <3>2. ASSUME NEW n \in 1..m + 1, n <= m PROVE g[n] = step[<< n, g[n - 1] >>]
        <4>1. n \in 0..m /\ n - 1 \in 0..m /\ n \in 1..m
          BY <3>2
        <4> HIDE DEF g
        <4> QED
          BY <4>1, <2>1, <2>5
      <3>3. \A n \in 1..m + 1 : n <= m \/ (n = m + 1 /\ n - 1 = m)
        OBVIOUS
      <3> HIDE DEF g
      <3> QED
        BY <3>1, <3>2, <3>3, <2>6
    <2> HIDE DEF g
    <2> QED
      BY <2>4, <2>7
  <1>3. Nat \subseteq Has
    BY <1>1, <1>2, Induction
  <1> QED
    BY <1>3 DEF IsRecursion

(* Two functions that start alike and go on alike are alike. *)
LEMMA RecursionIsUnique ==
    ASSUME NEW N \in Nat, NEW f, NEW g, f[0] = g[0], GoesOnAs(g, f, N)
    PROVE  \A n \in 0..N : f[n] = g[n]
  <1> DEFINE Same == {n \in Nat : n <= N => f[n] = g[n]}
  <1>1. 0 \in Same
    OBVIOUS
  <1>2. ASSUME NEW n \in Nat, n \in Same PROVE n + 1 \in Same
    <2>1. n + 1 <= N => n + 1 \in 1..N /\ (n + 1) - 1 = n /\ n <= N
      OBVIOUS
    <2> QED
      BY <1>2, <2>1 DEF GoesOnAs
  <1>3. Nat \subseteq Same
    BY <1>1, <1>2, Induction
  <1> QED
    BY <1>3

(* The same for a function on all numbers. *)
IsNatStep(step, V) == step \in [Nat \X V -> V]
IsNatRecursion(f, V, c, step) ==
    /\ f \in [Nat -> V] /\ f[0] = c
    /\ \A n \in Nat : n # 0 => f[n] = step[<< n, f[n - 1] >>]

LEMMA NatRecursionExists ==
    ASSUME NEW V, NEW c \in V, NEW step, IsNatStep(step, V)
    PROVE  \E f : IsNatRecursion(f, V, c, step)
  <1> DEFINE first(N) == [p \in (1..N) \X V |-> step[p]]
             upTo(N) == CHOOSE f : IsRecursion(f, N, V, c, first(N))
             f == [n \in Nat |-> upTo(n)[n]]
  <1>1. ASSUME NEW N \in Nat PROVE IsStep(first(N), N, V)
    <2>1. \A p \in (1..N) \X V : p \in Nat \X V
      OBVIOUS
    <2> QED
      BY <2>1 DEF IsStep, IsNatStep
  <1>2. ASSUME NEW N \in Nat PROVE IsRecursion(upTo(N), N, V, c, first(N))
    <2>1. IsStep(first(N), N, V)
      BY <1>1
    <2> HIDE DEF first
    <2>2. \E g : IsRecursion(g, N, V, c, first(N))
      BY <2>1, RecursionExists
    <2> QED
      BY <2>2
  <1>3. ASSUME NEW N \in Nat
        PROVE  /\ upTo(N) \in [0..N -> V] /\ upTo(N)[0] = c
               /\ \A n \in 1..N : upTo(N)[n] = step[<< n, upTo(N)[n - 1] >>]
    <2>1. IsRecursion(upTo(N), N, V, c, first(N))
      BY <1>2
    <2> HIDE DEF upTo
    <2>2. /\ upTo(N) \in [0..N -> V] /\ upTo(N)[0] = c
          /\ \A n \in 1..N : upTo(N)[n] = first(N)[<< n, upTo(N)[n - 1] >>]
      <3> HIDE DEF first
      <3> QED
        BY <2>1 DEF IsRecursion
    <2>3. \A n \in 1..N : << n, upTo(N)[n - 1] >> \in (1..N) \X V
      <3>1. \A n \in 1..N : n - 1 \in 0..N
        OBVIOUS
      <3> QED
        BY <2>2, <3>1
    <2> QED
      BY <2>2, <2>3
  <1> HIDE DEF upTo
  <1>4. f \in [Nat -> V]
    <2>1. \A n \in Nat : n \in 0..n
      OBVIOUS
    <2>2. \A n \in Nat : upTo(n)[n] \in V
      BY <1>3, <2>1
    <2> QED
      BY <2>2
  <1>5. f[0] = c
    BY <1>3
  <1>6. ASSUME NEW n \in Nat, n # 0 PROVE f[n] = step[<< n, f[n - 1] >>]
    <2>1. n - 1 \in Nat /\ n \in 1..n /\ n - 1 \in 0..n - 1
      BY <1>6
    <2>2. GoesOnAs(upTo(n), upTo(n - 1), n - 1)
      <3>1. \A m \in 1..n - 1 : m \in 1..n
        BY <2>1
      <3> QED
        BY <1>3, <2>1, <3>1 DEF GoesOnAs
    <2>3. upTo(n - 1)[0] = upTo(n)[0]
      BY <1>3, <2>1
    <2>4. upTo(n - 1)[n - 1] = upTo(n)[n - 1]
      BY <2>1, <2>2, <2>3, RecursionIsUnique
    <2>5. upTo(n)[n] = step[<< n, upTo(n)[n - 1] >>]
      BY <1>3, <2>1
    <2> QED
      BY <2>1, <2>4, <2>5
  <1> HIDE DEF f
  <1>7. IsNatRecursion(f, V, c, step)
    BY <1>4, <1>5, <1>6 DEF IsNatRecursion
  <1> QED
    BY <1>7
================================================================================
