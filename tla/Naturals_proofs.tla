--------------------------- MODULE Naturals_proofs --------------------------
(* Facts that the other proofs rest on: a set of naturals has a least      *)
(* element; induction over a set of numbers; a function that is defined    *)
(* from its value before exists; and a finite set listed as a sequence.    *)
EXTENDS Integers, FiniteSets, SequencesExt, FiniteSetTheorems, TLAPS

(* A set of naturals has a least element: its intervals 0..n, finite sets, *)
(* are well ordered by inclusion.                                          *)
LEMMA LeastNat ==
    ASSUME NEW S, S \subseteq Nat, S # {}
    PROVE  \E m \in S : \A n \in S : m <= n
<1> DEFINE Below(n) == 0..n
           F == {Below(n) : n \in S}
           R == StrictSubsetOrdering(Nat)
<1>1. F \subseteq FiniteSubsetsOf(Nat) /\ F # {}
  <2>1. \A n \in S : Below(n) \subseteq Nat /\ IsFiniteSet(Below(n))
    BY FS_Interval
  <2> QED
    BY <2>1 DEF FiniteSubsetsOf
<1>2. PICK X \in F : \A Y \in F : <<Y, X>> \notin R
  <2>1. IsWellFoundedOn(R, FiniteSubsetsOf(Nat))
    BY FS_StrictSubsetOrderingWellFounded
  <2> HIDE DEF F, R
  <2> QED
    BY <1>1, <2>1, WFMin
<1>3. PICK m \in S : X = Below(m)
  OBVIOUS
<1>4. ASSUME NEW n \in S
      PROVE  m <= n
  <2>1. <<Below(n), Below(m)>> \notin R
    BY <1>2, <1>3
  <2>2. Below(n) \in SUBSET Nat /\ Below(m) \in SUBSET Nat
    OBVIOUS
  <2>3. ~(n < m)
    <3>1. SUFFICES ASSUME n < m PROVE FALSE
      OBVIOUS
    <3>2. Below(n) \subseteq Below(m) /\ Below(n) # Below(m)
      BY <3>1
    <3> QED
      BY <2>1, <2>2, <3>2 DEF StrictSubsetOrdering
  <2> QED
    BY <2>3
<1> QED
  BY <1>4

(* A set of naturals with a bound has a greatest element.                  *)
LEMMA GreatestNat ==
    ASSUME NEW S, S \subseteq Nat, S # {}, NEW b \in Nat, \A n \in S : n <= b
    PROVE  \E m \in S : \A n \in S : n <= m
<1> DEFINE T == {t \in 0..b : b - t \in S}
<1>1. \A n \in S : b - n \in 0..b /\ b - (b - n) = n
  OBVIOUS
<1>2. T \subseteq Nat /\ T # {}
  <2>1. PICK n \in S : TRUE
    OBVIOUS
  <2>2. b - n \in T
    BY <1>1
  <2>3. T \subseteq Nat
    OBVIOUS
  <2> HIDE DEF T
  <2> QED
    BY <2>2, <2>3
<1>3. PICK t \in T : \A u \in T : t <= u
  <2> HIDE DEF T
  <2> QED
    BY <1>2, LeastNat
<1>4. \A n \in S : t <= b - n
  BY <1>1, <1>3
<1> QED
  BY <1>3, <1>4

(* Induction up to a bound, over the set of the numbers a fact holds for.  *)
LEMMA InductUpTo ==
    ASSUME NEW N \in Nat, NEW S, 0 \in S, \A n \in 1..N : n - 1 \in S => n \in S
    PROVE  \A n \in 0..N : n \in S
<1> DEFINE Bad == {n \in 0..N : n \notin S}
<1>1. SUFFICES ASSUME Bad # {} PROVE FALSE
  OBVIOUS
<1>2. PICK m \in Bad : \A n \in Bad : m <= n
  <2>1. Bad \subseteq Nat
    OBVIOUS
  <2> HIDE DEF Bad
  <2> QED
    BY <1>1, <2>1, LeastNat
<1>3. m \in 1..N /\ m - 1 \in 0..N /\ ~(m <= m - 1)
  BY <1>2
<1>4. m - 1 \notin Bad
  <2> HIDE DEF Bad
  <2> QED
    BY <1>2, <1>3
<1> QED
  BY <1>2, <1>3, <1>4

(* f is what the steps make of v, up to m of them.                         *)
Computes(f, V, v, step, m) ==
    /\ f \in [0..m -> V] /\ f[0] = v
    /\ \A n \in 1..m : f[n] = step[<<n, f[n - 1]>>]

(* What is defined from the value before it exists.                        *)
LEMMA Recursion ==
    ASSUME NEW V, NEW v \in V, NEW N \in Nat, NEW step \in [(1..N) \X V -> V]
    PROVE  \E f : Computes(f, V, v, step, N)
<1> DEFINE S == {m \in 0..N : \E f : Computes(f, V, v, step, m)}
<1>1. 0 \in S
  <2> DEFINE f == [n \in 0..0 |-> v]
  <2>1. Computes(f, V, v, step, 0)
    BY DEF Computes
  <2> QED
    BY <2>1
<1>2. ASSUME NEW m \in 1..N, m - 1 \in S
      PROVE  m \in S
  <2>1. PICK g : Computes(g, V, v, step, m - 1)
    BY <1>2
  <2> DEFINE last == step[<<m, g[m - 1]>>]
             f == [n \in 0..m |-> IF n = m THEN last ELSE g[n]]
  <2>2. g[m - 1] \in V /\ last \in V
    BY <2>1 DEF Computes
  <2> HIDE DEF last
  <2>3. f \in [0..m -> V] /\ f[0] = v
    <3>1. \A n \in 0..m : n # m => n \in 0..(m - 1)
      OBVIOUS
    <3> QED
      BY <2>1, <2>2, <3>1 DEF Computes
  <2>4. ASSUME NEW n \in 1..m
        PROVE  f[n] = step[<<n, f[n - 1]>>]
    <3>1. n - 1 \in 0..(m - 1) /\ n - 1 # m /\ n - 1 \in 0..m
      OBVIOUS
    <3>2. f[n - 1] = g[n - 1]
      BY <3>1
    <3>3. CASE n = m
      <4>1. f[n] = last /\ last = step[<<n, g[n - 1]>>]
        BY <3>3 DEF last
      <4> QED
        BY <3>2, <4>1
    <3>4. CASE n # m
      <4>1. n \in 1..(m - 1) /\ f[n] = g[n]
        BY <3>4
      <4> QED
        BY <2>1, <3>2, <4>1 DEF Computes
    <3> QED
      BY <3>3, <3>4
  <2>5. Computes(f, V, v, step, m)
    <3> HIDE DEF f
    <3> QED
      BY <2>3, <2>4 DEF Computes
  <2> QED
    BY <2>5
<1>3. N \in S
  <2> HIDE DEF S
  <2>1. \A n \in 0..N : n \in S
    BY <1>1, <1>2, InductUpTo
  <2> QED
    BY <2>1
<1> QED
  BY <1>3

(* The elements of a finite set in a sequence: each is there, once.        *)
LEMMA SetToSeqLemma ==
    ASSUME NEW S, IsFiniteSet(S)
    PROVE  /\ Cardinality(S) \in Nat
           /\ SetToSeq(S) \in [1..Cardinality(S) -> S]
           /\ \A x \in S : \E i \in 1..Cardinality(S) : SetToSeq(S)[i] = x
           /\ \A i, j \in 1..Cardinality(S) : SetToSeq(S)[i] = SetToSeq(S)[j] => i = j
<1> DEFINE n == Cardinality(S)
           Is(f) == f \in [1..n -> S] /\ IsInjective(f)
<1>1. n \in Nat /\ Bijection(1..n, S) # {}
  BY FS_CardinalityType DEF ExistsBijection
<1>2. PICK g : g \in Bijection(1..n, S)
  BY <1>1
<1>3. Is(g)
  BY <1>2 DEF Bijection, Injection
<1>4. SetToSeq(S) = CHOOSE f \in [1..n -> S] : IsInjective(f)
  BY DEF SetToSeq
<1>5. Is(SetToSeq(S))
  <2> HIDE DEF n
  <2> QED
    BY <1>3, <1>4
<1> DEFINE f == SetToSeq(S)
<1>6. f \in Injection(1..n, S)
  BY <1>5 DEF Injection
<1>7. Cardinality(1..n) = n
  BY <1>1, FS_Interval
<1>8. f \in Surjection(1..n, S)
  <2> HIDE DEF f, n
  <2> QED
    BY <1>6, <1>7, FS_Injection DEF n
<1> HIDE DEF f
<1>9. \A x \in S : \E i \in 1..n : f[i] = x
  BY <1>8 DEF Surjection
<1>10. \A i, j \in 1..n : f[i] = f[j] => i = j
  <2>1. DOMAIN f = 1..n /\ IsInjective(f)
    BY <1>5 DEF f
  <2> QED
    BY <2>1 DEF IsInjective
<1> QED
  BY <1>1, <1>5, <1>9, <1>10 DEF f

(* A share of a fixed amount grows as the number of shares falls.          *)
LEMMA ShareLemma ==
    ASSUME NEW a \in Nat \ {0}, NEW b \in Nat \ {0}, a <= b
    PROVE  180 \div a \in 0..180 /\ 180 \div b \in 0..180 /\ 180 \div b <= 180 \div a
BY SMTT(30)
=============================================================================
