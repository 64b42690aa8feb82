---------------------------- MODULE FoldProofs ----------------------------
(***************************************************************************)
(* What the folds and the sorted enumeration of the community modules      *)
(* compute.  Induction is used in the form of a set: a set of naturals     *)
(* that is not empty has a least element.                                  *)
(***************************************************************************)
EXTENDS Integers, SequencesExt, FiniteSetTheorems, TLAPS

LEMMA LessThanRelation ==
  OpToRel(<, Nat) = {ss \in Nat \X Nat : ss[1] < ss[2]}
BY DEF OpToRel

\* The natural numbers are well ordered.
LEMMA LeastNatural ==
  ASSUME NEW S, S \subseteq Nat, S # {}
  PROVE  \E x \in S : \A y \in S : x <= y
<1> DEFINE R == OpToRel(<, Nat)
<1>1. PICK x \in S : \A y \in S : ~(<<y, x>> \in R)
  <2>1. IsWellFoundedOn(R, Nat)
    BY NatLessThanWellFounded
  <2> HIDE DEF R
  <2> QED BY <2>1, WFMin
<1>2. ASSUME NEW y \in S PROVE x <= y
  <2>1. x \in Nat /\ y \in Nat
    OBVIOUS
  <2>2. y < x => <<y, x>> \in R
    BY <2>1, LessThanRelation
  <2> HIDE DEF R
  <2> QED BY <1>1, <2>1, <2>2
<1> QED BY <1>2

\* Induction: a set that has 0, and n + 1 with n, has all natural numbers.
LEMMA Inductive ==
  ASSUME NEW S, 0 \in S, \A n \in Nat : n \in S => n + 1 \in S
  PROVE  \A n \in Nat : n \in S
<1> DEFINE T == Nat \ S
<1>1. SUFFICES ASSUME T # {} PROVE FALSE
  OBVIOUS
<1>2. PICK x \in T : \A y \in T : x <= y
  BY <1>1, LeastNatural
<1>3. x - 1 \in Nat /\ x - 1 \notin T
  BY <1>2
<1> QED BY <1>3

\* Min of a set of natural numbers.
LEMMA MinOf ==
  ASSUME NEW S, S \subseteq Nat, S # {}
  PROVE  Min(S) \in S /\ \A y \in S : Min(S) <= y
BY LeastNatural DEF Min

\* Max of a bounded set of natural numbers.
LEMMA MaxOf ==
  ASSUME NEW n \in Nat, NEW S, S \subseteq 0 .. n, S # {}
  PROVE  Max(S) \in S /\ \A y \in S : Max(S) >= y
<1> DEFINE T == {n - x : x \in S}
<1>1. T \subseteq Nat /\ T # {}
  OBVIOUS
<1>2. PICK t \in T : \A u \in T : t <= u
  BY <1>1, LeastNatural
<1>3. PICK x \in S : t = n - x
  OBVIOUS
<1>4. ASSUME NEW y \in S PROVE x >= y
  <2>1. n - x <= n - y
    BY <1>2, <1>3
  <2>2. x \in 0 .. n /\ y \in 0 .. n
    OBVIOUS
  <2> QED BY <2>1, <2>2
<1>5. \E z \in S : \A y \in S : z >= y
  BY <1>4
<1> QED BY <1>5 DEF Max

\* Without its last position a set of positions lies within a shorter prefix.
LEMMA WithoutMax ==
  ASSUME NEW n \in Nat, NEW s, s \subseteq 1 .. n + 1, s # {}
  PROVE  Max(s) \in s /\ s \ {Max(s)} \subseteq 1 .. n
<1>1. Max(s) \in s /\ \A y \in s : Max(s) >= y
  <2>1. n + 1 \in Nat /\ s \subseteq 0 .. (n + 1)
    OBVIOUS
  <2> QED BY <2>1, MaxOf
<1>2. ASSUME NEW y \in s \ {Max(s)} PROVE y \in 1 .. n
  <2>1. y \in 1 .. n + 1 /\ Max(s) \in 1 .. n + 1 /\ y <= Max(s) /\ y # Max(s)
    BY <1>1
  <2> QED BY <2>1
<1> QED BY <1>1, <1>2

\* Without the greatest, 1 .. n is 1 .. n - 1.
LEMMA MaxOfPrefix ==
  ASSUME NEW n \in Nat \ {0}
  PROVE  Max(1 .. n) = n /\ (1 .. n) \ {Max(1 .. n)} = 1 .. n - 1
<1>1. 1 .. n \subseteq 0 .. n /\ n \in 1 .. n
  OBVIOUS
<1>2. Max(1 .. n) \in 1 .. n /\ Max(1 .. n) >= n
  BY <1>1, MaxOf
<1> QED BY <1>2

\* f solves the recursion of MapThenFoldSet, as FoldLeft uses it: step[n] is
\* what the n-th element does to a value.
FoldsTo(f, N, V, base, step) ==
  /\ f \in [SUBSET (1 .. N) -> V]
  /\ \A s \in SUBSET (1 .. N) : f[s] = IF s = {} THEN base ELSE step[Max(s)][f[s \ {Max(s)}]]

\* The recursion has a solution.
LEMMA FoldExists ==
  ASSUME NEW N, NEW V, NEW base, NEW step,
         N \in Nat, base \in V, step \in [1 .. N -> [V -> V]]
  PROVE  \E f : FoldsTo(f, N, V, base, step)
<1> DEFINE Next(f, s) == IF s = {} THEN base ELSE step[Max(s)][f[s \ {Max(s)}]]
           Solves(f, n) == f \in [SUBSET (1 .. n) -> V] /\ \A s \in SUBSET (1 .. n) : f[s] = Next(f, s)
           Solved(n) == n <= N => \E f : Solves(f, n)
           I == {n \in Nat : Solved(n)}
<1>1. Solved(0)
  <2> DEFINE f == [s \in SUBSET (1 .. 0) |-> base]
  <2>1. \A s \in SUBSET (1 .. 0) : s = {}
    OBVIOUS
  <2>2. f \in [SUBSET (1 .. 0) -> V] /\ \A s \in SUBSET (1 .. 0) : f[s] = Next(f, s)
    BY <2>1
  <2> QED BY <2>2
<1>2. ASSUME NEW n \in Nat, Solved(n) PROVE Solved(n + 1)
  <2>1. SUFFICES ASSUME n + 1 <= N PROVE \E f : Solves(f, n + 1)
    OBVIOUS
  <2>2. PICK f : Solves(f, n)
    <3> HIDE DEF Solves
    <3> QED BY <1>2, <2>1
  <2> DEFINE g == [s \in SUBSET (1 .. n + 1) |-> Next(f, s)]
  <2>3. ASSUME NEW s \in SUBSET (1 .. n + 1), s # {}
        PROVE  s \ {Max(s)} \in SUBSET (1 .. n) /\ Max(s) \in 1 .. N
    <3>1. Max(s) \in s /\ s \ {Max(s)} \subseteq 1 .. n
      BY <2>3, WithoutMax
    <3>2. Max(s) \in 1 .. n + 1
      BY <3>1
    <3> QED BY <2>1, <3>1, <3>2
  <2>4. ASSUME NEW s \in SUBSET (1 .. n + 1) PROVE Next(f, s) \in V
    <3>1. CASE s # {}
      <4>1. f[s \ {Max(s)}] \in V /\ step[Max(s)] \in [V -> V]
        BY <2>2, <2>3, <3>1
      <4> QED BY <3>1, <4>1
    <3> QED BY <3>1
  <2>5. ASSUME NEW s \in SUBSET (1 .. n) PROVE s \in SUBSET (1 .. n + 1) /\ g[s] = f[s]
    <3>1. s \in SUBSET (1 .. n + 1)
      OBVIOUS
    <3> QED BY <2>2, <3>1
  <2>6. ASSUME NEW s \in SUBSET (1 .. n + 1) PROVE g[s] = Next(g, s)
    <3>1. CASE s # {}
      <4>1. f[s \ {Max(s)}] = g[s \ {Max(s)}]
        BY <2>3, <2>5, <3>1
      <4> QED BY <4>1
    <3> QED BY <3>1
  <2>7. g \in [SUBSET (1 .. n + 1) -> V]
    <3> HIDE DEF Next
    <3> QED BY <2>4
  <2> HIDE DEF g, Next
  <2> QED BY <2>6, <2>7
<1>3. Solved(N)
  <2>1. 0 \in I /\ \A n \in Nat : n \in I => n + 1 \in I
    <3> HIDE DEF Solved
    <3> QED BY <1>1, <1>2
  <2>2. N \in I
    <3> HIDE DEF I
    <3> QED BY <2>1, Inductive
  <2> HIDE DEF Solved
  <2> QED BY <2>2
<1>4. PICK f : Solves(f, N)
  <2> HIDE DEF Solves
  <2> QED BY <1>3
<1>5. FoldsTo(f, N, V, base, step)
  BY <1>4 DEF FoldsTo
<1> QED BY <1>5

-----------------------------------------------------------------------------
(* Sequences *)

\* SetToSeq enumerates a finite set, in some order.
LEMMA EnumerationOf ==
  ASSUME NEW S, IsFiniteSet(S)
  PROVE  SetToSeq(S) \in Seq(S) /\ ToSet(SetToSeq(S)) = S
<1> DEFINE N == Cardinality(S)
           s == SetToSeq(S)
<1>1. N \in Nat /\ ExistsBijection(1 .. N, S)
  BY FS_CardinalityType
<1>2. PICK f : f \in [1 .. N -> S] /\ IsInjective(f)
  BY <1>1 DEF ExistsBijection, Bijection, Injection
<1>3. s \in [1 .. N -> S] /\ IsInjective(s)
  BY <1>2 DEF SetToSeq
<1>4. s \in Injection(1 .. N, S)
  BY <1>3 DEF Injection
<1>5. Cardinality(1 .. N) = N
  BY <1>1, FS_Interval
<1>6. s \in Surjection(1 .. N, S)
  <2> HIDE DEF s
  <2> QED BY <1>4, <1>5, FS_Injection
<1>7. \A x \in S : \E i \in 1 .. N : s[i] = x
  BY <1>6 DEF Surjection
<1>8. s \in Seq(S)
  <2> HIDE DEF s, N
  <2> QED BY <1>1, <1>3
<1>9. ToSet(s) = S
  <2> HIDE DEF s, N
  <2> QED BY <1>3, <1>7 DEF ToSet
<1> QED BY <1>8, <1>9
=============================================================================
