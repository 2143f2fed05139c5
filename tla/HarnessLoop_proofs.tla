-------------------------- MODULE HarnessLoop_proofs --------------------------
(***************************************************************************)
(* Theorems about HarnessLoop, for any agent, variables, validators and    *)
(* number of steps.                                                        *)
(*                                                                         *)
(* What is executed is sound of every list of variables.  That reopens     *)
(* settle and that the log stays equal to the ledger is proved of initial  *)
(* variables with distinct ids, from which merges and refreshes never      *)
(* depart: of an id that comes twice only the first variable is refreshed. *)
(***************************************************************************)
EXTENDS HarnessLoop, Naturals_proofs

Variables == Seq(ConcernVariable)

Distinct(L) == \A m, n \in DOMAIN L : L[m].id = L[n].id => m = n

LEMMA VariablesLemma ==
    ASSUME NEW L \in Variables
    PROVE  /\ Len(L) \in Nat /\ DOMAIN L = 1..Len(L) /\ IsFiniteSet(DOMAIN L)
           /\ \A n \in DOMAIN L : L[n] \in ConcernVariable /\ L[n].id \in VarIds /\ L[n].id \in Ids(L)
           /\ Ids(L) \subseteq VarIds
<1>1. Len(L) \in Nat /\ DOMAIN L = 1..Len(L) /\ \A n \in DOMAIN L : L[n] \in ConcernVariable
  BY DEF Variables
<1>2. \A v \in ConcernVariable : v.id \in VarIds
  BY DEF ConcernVariable
<1>3. IsFiniteSet(DOMAIN L)
  BY <1>1, FS_Interval
<1> QED
  BY <1>1, <1>2, <1>3 DEF Ids

(* The last variable of an id is one of that id.                           *)
LEMMA LastOfLemma ==
    ASSUME NEW L \in Variables, NEW id \in Ids(L)
    PROVE  /\ \E n \in DOMAIN L : LastOf(L, id) = L[n]
           /\ LastOf(L, id) \in ConcernVariable /\ LastOf(L, id).id = id
<1> DEFINE S == {n \in DOMAIN L : L[n].id = id}
           IsLast(n) == L[n].id = id /\ \A m \in n+1..Len(L) : L[m].id # id
<1>1. Len(L) \in Nat /\ DOMAIN L = 1..Len(L)
  BY VariablesLemma
<1>2. \E n \in DOMAIN L : IsLast(n)
  <2>1. S # {} /\ S \subseteq Nat /\ \A n \in S : n <= Len(L)
    BY <1>1 DEF Ids
  <2>2. PICK n \in S : \A m \in S : m <= n
    <3> HIDE DEF S
    <3> QED
      BY <1>1, <2>1, GreatestNat
  <2> QED
    BY <1>1, <2>2
<1> HIDE DEF IsLast
<1>3. LastOf(L, id) = L[CHOOSE n \in DOMAIN L : IsLast(n)]
  BY DEF LastOf, IsLast
<1>4. PICK n \in DOMAIN L : IsLast(n) /\ LastOf(L, id) = L[n]
  BY <1>2, <1>3
<1> QED
  BY <1>4, VariablesLemma DEF IsLast

LEMMA LastOfDistinct ==
    ASSUME NEW L \in Variables, Distinct(L), NEW n \in DOMAIN L
    PROVE  LastOf(L, L[n].id) = L[n]
BY LastOfLemma, VariablesLemma DEF Distinct

(* A part of a bounded set of naturals is finite, and if it has elements   *)
(* it has a greatest one.                                                  *)
LEMMA BoundedLemma ==
    ASSUME NEW F, NEW b \in Nat, F \subseteq 1..b
    PROVE  /\ IsFiniteSet(F) /\ Cardinality(F) \in Nat /\ (Cardinality(F) = 0 <=> F = {})
           /\ F # {} => \E m \in F : \A n \in F : n <= m
           /\ F # {} => \E m \in F : \A n \in F : m <= n
<1>1. IsFiniteSet(1..b) /\ F \in SUBSET (1..b)
  BY FS_Interval
<1>2. IsFiniteSet(F)
  BY <1>1, FS_Subset
<1>3. F \subseteq Nat /\ \A n \in F : n <= b
  OBVIOUS
<1> QED
  BY <1>2, <1>3, FS_CardinalityType, FS_EmptySet, GreatestNat, LeastNat

(* There are as many first occurrences as the k-th of them is asked for.   *)
LEMMA NthFirstLemma ==
    ASSUME NEW L \in Variables, NEW k \in 1..Cardinality(Firsts(L))
    PROVE  NthFirst(L, k) \in DOMAIN L
<1> DEFINE F == Firsts(L)
           b == Len(L)
           Upto(n) == {m \in F : m <= n}
           Enough == {n \in F : k <= Cardinality(Upto(n))}
<1>1. b \in Nat /\ F \subseteq 1..b /\ DOMAIN L = 1..b
  BY VariablesLemma DEF Firsts
<1> HIDE DEF F, b
<1>2. Cardinality(F) \in Nat /\ k \in Nat /\ 1 <= k /\ k <= Cardinality(F) /\ F # {}
  <2>1. Cardinality(F) \in Nat /\ (Cardinality(F) = 0 <=> F = {})
    BY <1>1, BoundedLemma
  <2>2. k \in 1..Cardinality(F)
    BY DEF F
  <2> QED
    BY <2>1, <2>2
<1>3. ASSUME NEW n
      PROVE  /\ Upto(n) \subseteq 1..b /\ IsFiniteSet(Upto(n)) /\ Cardinality(Upto(n)) \in Nat
  <2>1. Upto(n) \subseteq 1..b
    BY <1>1
  <2> HIDE DEF Upto
  <2> QED
    BY <1>1, <2>1, BoundedLemma
<1>4. \E n \in Enough : \A m \in Enough : n <= m
  <2>1. PICK m \in F : \A n \in F : n <= m
    BY <1>1, <1>2, BoundedLemma
  <2>2. Upto(m) = F
    BY <2>1
  <2>3. m \in Enough
    BY <1>2, <2>2
  <2>4. Enough \subseteq 1..b
    BY <1>1
  <2> HIDE DEF Enough
  <2> QED
    BY <1>1, <2>3, <2>4, BoundedLemma
<1>5. PICK n \in F : k <= Cardinality(Upto(n)) /\ \A m \in Enough : n <= m
  BY <1>4
<1>6. Cardinality(Upto(n)) = k
  <2> SUFFICES ASSUME Cardinality(Upto(n)) # k PROVE FALSE
    OBVIOUS
  <2> DEFINE Less == Upto(n) \ {n}
  <2>1. n \in Upto(n)
    BY <1>1
  <2>2. Cardinality(Less) = Cardinality(Upto(n)) - 1
    <3>1. IsFiniteSet(Upto(n))
      BY <1>3
    <3> HIDE DEF Upto
    <3> QED
      BY <2>1, <3>1, FS_RemoveElement
  <2>3. Less \subseteq 1..b /\ \A m \in Less : m \in F /\ m < n
    <3>1. \A m \in F : m \in 1..b /\ m \in Nat
      BY <1>1
    <3>2. \A m \in Less : m \in F /\ m <= n /\ m # n
      OBVIOUS
    <3> HIDE DEF Less
    <3> QED
      BY <3>1, <3>2
  <2>4. k <= Cardinality(Less) /\ 0 < Cardinality(Less)
    <3>1. k <= Cardinality(Upto(n)) /\ Cardinality(Upto(n)) \in Nat
      BY <1>3, <1>5
    <3> HIDE DEF Less, Upto
    <3> QED
      BY <1>2, <2>2, <3>1
  <2>5. PICK m \in Less : \A j \in Less : j <= m
    <3> HIDE DEF Less
    <3>1. Less # {}
      <4>1. Cardinality(Less) = 0 <=> Less = {}
        BY <1>1, <2>3, BoundedLemma
      <4> QED
        BY <2>4, <4>1
    <3> QED
      BY <1>1, <2>3, <3>1, BoundedLemma
  <2>6. Upto(m) = Less
    <3>1. m \in F /\ m < n /\ m \in Nat /\ n \in Nat
      BY <1>1, <2>3, <2>5
    <3>2. \A j \in F : j \in Nat
      BY <1>1
    <3>3. \A j \in F : j <= m <=> j <= n /\ j # n
      <4>1. \A j \in Less : j <= m
        BY <2>5
      <4>2. \A j \in F : j <= n /\ j # n => j \in Less
        OBVIOUS
      <4> HIDE DEF Less
      <4> QED
        BY <3>1, <3>2, <4>1, <4>2
    <3> QED
      BY <3>3
  <2>7. m \in Enough
    BY <2>3, <2>4, <2>5, <2>6
  <2>8. n <= m /\ m < n /\ m \in Nat /\ n \in Nat
    BY <1>1, <1>5, <2>3, <2>5, <2>7
  <2> QED
    BY <2>8
<1>7. NthFirst(L, k) = CHOOSE m \in F : Cardinality(Upto(m)) = k
  BY DEF NthFirst, F
<1> HIDE DEF Upto
<1> QED
  BY <1>1, <1>6, <1>7

(* merge_variables: it keeps the type of a list, and of one with distinct  *)
(* ids every place but that of v.                                          *)
LEMMA MergeType ==
    ASSUME NEW L \in Variables, NEW v \in ConcernVariable
    PROVE  Merge(L, v) \in Variables
<1> DEFINE N == Cardinality(Firsts(L))
           old(k) == LastOf(L, L[NthFirst(L, k)].id)
           kept == [k \in 1..N |-> IF old(k).id = v.id /\ old(k).concern < v.concern THEN v ELSE old(k)]
<1>1. N \in Nat
  BY VariablesLemma, BoundedLemma DEF Firsts
<1>2. ASSUME NEW k \in 1..N PROVE old(k) \in ConcernVariable
  BY NthFirstLemma, VariablesLemma, LastOfLemma
<1> HIDE DEF N, old
<1>3. kept \in Variables
  BY <1>1, <1>2 DEF Variables
<1>4. Merge(L, v) = IF v.id \in Ids(L) THEN kept ELSE Append(kept, v)
  BY DEF Merge, N, old
<1> HIDE DEF kept
<1> QED
  BY <1>3, <1>4 DEF Variables

LEMMA FirstsDistinct ==
    ASSUME NEW L \in Variables, Distinct(L)
    PROVE  /\ Firsts(L) = 1..Len(L) /\ Cardinality(Firsts(L)) = Len(L)
           /\ \A k \in 1..Len(L) : NthFirst(L, k) = k
<1>1. Len(L) \in Nat /\ DOMAIN L = 1..Len(L)
  BY VariablesLemma
<1>2. Firsts(L) = 1..Len(L)
  BY <1>1 DEF Firsts, Distinct
<1>3. Cardinality(Firsts(L)) = Len(L)
  <2>1. Cardinality(1..Len(L)) = IF 1 > Len(L) THEN 0 ELSE Len(L) - 1 + 1
    BY <1>1, FS_Interval
  <2> QED
    BY <1>1, <1>2, <2>1
<1>4. ASSUME NEW k \in 1..Len(L) PROVE NthFirst(L, k) = k
  <2>1. \A n \in 1..Len(L) : {m \in 1..Len(L) : m <= n} = 1..n
    BY <1>1
  <2>2. \A n \in 1..Len(L) : Cardinality(1..n) = n
    BY <1>1, FS_Interval
  <2> QED
    BY <1>2, <2>1, <2>2 DEF NthFirst
<1> QED
  BY <1>2, <1>3, <1>4

LEMMA MergeDistinct ==
    ASSUME NEW L \in Variables, Distinct(L), NEW v \in ConcernVariable
    PROVE  /\ Merge(L, v) \in Variables /\ Distinct(Merge(L, v))
           /\ Ids(Merge(L, v)) = Ids(L) \union {v.id}
           /\ DOMAIN L \subseteq DOMAIN Merge(L, v)
           /\ \A n \in DOMAIN L : Merge(L, v)[n] =
                IF L[n].id = v.id /\ L[n].concern < v.concern THEN v ELSE L[n]
           /\ v.id \in Ids(L) => DOMAIN Merge(L, v) = DOMAIN L
           /\ v.id \notin Ids(L) => /\ DOMAIN Merge(L, v) = 1..(Len(L) + 1)
                                    /\ Merge(L, v)[Len(L) + 1] = v
<1> DEFINE new(n) == IF L[n].id = v.id /\ L[n].concern < v.concern THEN v ELSE L[n]
           kept == [n \in 1..Len(L) |-> new(n)]
<1>1. /\ Len(L) \in Nat /\ DOMAIN L = 1..Len(L) /\ \A n \in DOMAIN L : L[n] \in ConcernVariable
  BY VariablesLemma
<1>2. Merge(L, v) = IF v.id \in Ids(L) THEN kept ELSE Append(kept, v)
  BY <1>1, FirstsDistinct, LastOfDistinct, SMTT(30) DEF Merge
<1>3. \A n \in 1..Len(L) : new(n) \in ConcernVariable /\ new(n).id = L[n].id
  BY <1>1
<1>4. kept \in Variables /\ Len(kept) = Len(L) /\ \A n \in 1..Len(L) : kept[n] = new(n)
  BY <1>1, <1>3 DEF Variables
<1> HIDE DEF kept
<1>5. CASE v.id \in Ids(L)
  <2>1. Merge(L, v) = kept
    BY <1>2, <1>5
  <2>2. DOMAIN kept = 1..Len(L) /\ Ids(kept) = Ids(L)
    BY <1>1, <1>3, <1>4 DEF Ids, Variables
  <2>3. Distinct(kept)
    BY <1>1, <1>3, <1>4, <2>2 DEF Distinct
  <2> QED
    BY <1>1, <1>4, <1>5, <2>1, <2>2, <2>3
<1>6. CASE v.id \notin Ids(L)
  <2>1. Merge(L, v) = Append(kept, v)
    BY <1>2, <1>6
  <2>2. /\ Append(kept, v) \in Variables /\ DOMAIN Append(kept, v) = 1..(Len(L) + 1)
        /\ Append(kept, v)[Len(L) + 1] = v /\ \A n \in 1..Len(L) : Append(kept, v)[n] = new(n)
    BY <1>1, <1>4 DEF Variables
  <2>3. \A n \in 1..(Len(L) + 1) : n \in 1..Len(L) \/ n = Len(L) + 1
    BY <1>1
  <2>4. \A n \in 1..Len(L) : L[n].id # v.id
    BY <1>1, <1>6 DEF Ids
  <2> HIDE DEF new
  <2>5. Distinct(Append(kept, v))
    BY <1>1, <1>3, <2>2, <2>3, <2>4 DEF Distinct
  <2>6. Ids(Append(kept, v)) = Ids(L) \union {v.id}
    BY <1>1, <1>3, <2>2, <2>3 DEF Ids
  <2>7. DOMAIN L \subseteq DOMAIN Append(kept, v)
    BY <1>1, <2>2, <2>3
  <2>8. \A n \in DOMAIN L : Append(kept, v)[n] = IF L[n].id = v.id /\ L[n].concern < v.concern THEN v ELSE L[n]
    BY <1>1, <2>2 DEF new
  <2> QED
    BY <1>6, <2>1, <2>2, <2>5, <2>6, <2>7, <2>8
<1> QED
  BY <1>5, <1>6

Stales(L) == {n \in DOMAIN L : L[n].freshness < 10}

(* A reopen marks the variables that it names, and no other, as fresh.     *)
LEMMA RefreshType ==
    ASSUME NEW L \in Variables, NEW ids
    PROVE  /\ Refresh(L, ids) \in Variables /\ DOMAIN Refresh(L, ids) = DOMAIN L
           /\ Ids(Refresh(L, ids)) = Ids(L)
           /\ \A n \in DOMAIN L : /\ Refresh(L, ids)[n].id = L[n].id
                                  /\ Refresh(L, ids)[n].freshness = L[n].freshness
                                       \/ Refresh(L, ids)[n].freshness = 10
<1>1. /\ Len(L) \in Nat /\ DOMAIN L = 1..Len(L) /\ \A n \in DOMAIN L : L[n] \in ConcernVariable
  BY VariablesLemma
<1> DEFINE R == Refresh(L, ids)
<1> DEFINE Fresh(v) == [v EXCEPT !.freshness = 10]
<1>2. \A v \in ConcernVariable : Fresh(v) \in ConcernVariable /\ Fresh(v).id = v.id /\ Fresh(v).freshness = 10
  BY DEF ConcernVariable
<1>3. DOMAIN R = DOMAIN L /\ \A n \in DOMAIN L : R[n] = L[n] \/ R[n] = Fresh(L[n])
  BY DEF Refresh
<1>4. R = [n \in 1..Len(L) |-> R[n]]
  BY <1>1 DEF Refresh
<1> HIDE DEF R, Fresh
<1>5. \A n \in DOMAIN L : /\ R[n] \in ConcernVariable /\ R[n].id = L[n].id
                          /\ R[n].freshness = L[n].freshness \/ R[n].freshness = 10
  BY <1>1, <1>2, <1>3
<1>6. R \in Variables
  BY <1>1, <1>4, <1>5 DEF Variables
<1>7. Ids(R) = Ids(L)
  BY <1>3, <1>5 DEF Ids
<1> QED
  BY <1>3, <1>5, <1>6, <1>7 DEF R

LEMMA RefreshDistinct ==
    ASSUME NEW L \in Variables, Distinct(L), NEW ids
    PROVE  /\ Distinct(Refresh(L, ids))
           /\ \A n \in DOMAIN L : Refresh(L, ids)[n] =
                IF L[n].id \in ids THEN [L[n] EXCEPT !.freshness = 10] ELSE L[n]
<1>1. Len(L) \in Nat /\ DOMAIN L = 1..Len(L)
  BY VariablesLemma
<1>2. ASSUME NEW n \in DOMAIN L PROVE \A m \in 1..n-1 : L[m].id # L[n].id
  BY <1>1 DEF Distinct
<1>3. Distinct(Refresh(L, ids))
  BY RefreshType DEF Distinct
<1> QED
  BY <1>2, <1>3 DEF Refresh

Log(P) == DOMAIN P \subseteq VarIds /\ P \in [DOMAIN P -> ConcernVariable]

(* The log stays well formed as long as it has the variables of the ledger.*)
LEMMA MirrorType ==
    ASSUME NEW L \in Variables, NEW M \in Variables, NEW P, Log(P), Ids(L) \subseteq DOMAIN P
    PROVE  Log(MirrorMerge(P, L, M)) /\ DOMAIN MirrorMerge(P, L, M) = DOMAIN P \union Ids(M)
<1> DEFINE Q == MirrorMerge(P, L, M)
           D == DOMAIN P \union Ids(M)
           same(id) == LET v == LastOf(M, id)
                           b == LastOf(L, id)
                       IN id \in Ids(L) /\ <<b.concern, b.freshness>> = <<v.concern, v.freshness>>
           q(id) == IF id \notin Ids(M) THEN P[id] ELSE IF same(id) THEN P[id] ELSE LastOf(M, id)
<1>1. Q = [id \in D |-> q(id)]
  BY DEF MirrorMerge
<1>2. ASSUME NEW id \in D PROVE q(id) \in ConcernVariable
  <2>1. id \in DOMAIN P => P[id] \in ConcernVariable
    BY DEF Log
  <2>2. id \in Ids(M) => LastOf(M, id) \in ConcernVariable
    BY LastOfLemma
  <2>3. same(id) => id \in Ids(L)
    OBVIOUS
  <2> HIDE DEF same
  <2> QED
    BY <2>1, <2>2, <2>3
<1>3. D \subseteq VarIds
  BY VariablesLemma DEF Log
<1> HIDE DEF q, Q, D
<1>4. DOMAIN Q = D /\ Q \in [D -> ConcernVariable]
  BY <1>1, <1>2
<1> QED
  BY <1>3, <1>4 DEF Log, Q, D

LEMMA RefreshLogType ==
    ASSUME NEW P, Log(P), NEW ids
    PROVE  Log(RefreshLog(P, ids)) /\ DOMAIN RefreshLog(P, ids) = DOMAIN P
<1> DEFINE Fresh(v) == [v EXCEPT !.freshness = 10]
           Q == RefreshLog(P, ids)
<1>1. \A v \in ConcernVariable : Fresh(v) \in ConcernVariable
  BY DEF ConcernVariable
<1>2. Q = [id \in DOMAIN P |-> IF id \in ids THEN Fresh(P[id]) ELSE P[id]]
  BY DEF RefreshLog
<1> HIDE DEF Fresh, Q
<1>3. \A id \in DOMAIN P : P[id] \in ConcernVariable /\ Fresh(P[id]) \in ConcernVariable
  BY <1>1 DEF Log
<1> QED
  BY <1>2, <1>3 DEF Log, Q

-----------------------------------------------------------------------------

(* Types, the log's having the variables of the ledger, and a run that     *)
(* goes on only as long as no action has ended the task.                   *)
HInv ==
    /\ TypeOK /\ OneEnding
    /\ Ids(ledger) \subseteq DOMAIN projection
    /\ pc = "run" => endings = 0

(* The end of a turn, whatever is surfaced.                                *)
LEMMA FinishLemma ==
    ASSUME NEW L \in Variables, NEW P, Log(P), Ids(L) \subseteq DOMAIN P,
           surfaced \in 0..MaxSurfaced, FinishTurn(L, P)
    PROVE  /\ ledger' \in Variables /\ Log(projection') /\ Ids(ledger') \subseteq DOMAIN projection'
           /\ surfaced' \in 0..MaxSurfaced
           /\ pc' = IF EnvDone THEN "ended" ELSE "run"
<1>0. MaxSurfaced \in Nat /\ Surfaceable \subseteq ConcernVariable
  BY LoopAssumption
<1>1. pc' = IF EnvDone THEN "ended" ELSE "run"
  BY DEF FinishTurn
<1>2. CASE ledger' = L /\ projection' = P /\ surfaced' = surfaced
  BY <1>1, <1>2
<1>3. CASE /\ surfaced < MaxSurfaced /\ surfaced' = surfaced + 1
           /\ \E v \in Surfaceable :
                 ledger' = Merge(L, v) /\ projection' = MirrorMerge(P, L, Merge(L, v))
  <2>1. PICK v \in Surfaceable : ledger' = Merge(L, v) /\ projection' = MirrorMerge(P, L, Merge(L, v))
    BY <1>3
  <2>2. Merge(L, v) \in Variables
    BY <1>0, MergeType
  <2>3. Log(projection') /\ DOMAIN projection' = DOMAIN P \union Ids(ledger')
    BY <2>1, <2>2, MirrorType
  <2>4. surfaced' \in 0..MaxSurfaced
    BY <1>0, <1>3
  <2> QED
    BY <1>1, <2>1, <2>2, <2>3, <2>4
<1> QED
  BY <1>2, <1>3 DEF FinishTurn

(* The bookkeeping of a turn.                                              *)
LEMMA DecidedLemma ==
    ASSUME HInv, NEW p \in Proposals, NEW d \in {"allow", "block", "reopen", "revise"}, Decided(p, d)
    PROVE  /\ env' \in Environments /\ mode' \in Modes
           /\ step' = step + 1 /\ step' \in 0..MaxSteps
           /\ history' \in Seq(Payloads) /\ Len(history') <= 3
           /\ proposal' \in Proposals \union {<< >>}
           /\ decision' \in {"none", "allow", "block", "reopen", "revise"}
           /\ pc = "run" /\ endings = 0
<1>1. MaxSteps \in Nat /\ p \in ActionProposal
  BY LoopAssumption
<1>2. step' = step + 1 /\ step' \in 0..MaxSteps
  BY <1>1 DEF Decided, HInv, TypeOK
<1>3. history' \in Seq(Payloads) /\ Len(history') <= 3
  <2> DEFINE h == Append(history, p.payload)
  <2>1. history \in Seq(Payloads) /\ Len(history) <= 3 /\ p.payload \in Payloads
    BY <1>1 DEF HInv, TypeOK, ActionProposal
  <2>2. h \in Seq(Payloads) /\ Len(h) = Len(history) + 1 /\ Len(history) \in Nat
    BY <2>1
  <2>3. history' = IF Len(h) > 3 THEN Tail(h) ELSE h
    BY DEF Decided
  <2> HIDE DEF h
  <2>4. Len(h) > 3 => Tail(h) \in Seq(Payloads) /\ Len(Tail(h)) = Len(h) - 1
    BY <2>2
  <2> QED
    BY <2>1, <2>2, <2>3, <2>4
<1> QED
  BY <1>2, <1>3 DEF Decided, HInv, TypeOK

(* What the actions that carry out a decision have in common.              *)
LEMMA TurnLemma ==
    ASSUME HInv, NEW p \in Proposals, NEW d \in {"allow", "block", "reopen", "revise"}, Decided(p, d),
           envSteps' \in 0..step', endings' \in 0..1,
           committed' \in {"nobody", "agent", "governor"},
           reopens' \in 0..step',
           \/ LeaveTurn
           \/ \E L \in Variables, P \in {projection, RefreshLog(projection, Stale(ledger, p))} :
                 Ids(L) = Ids(ledger) /\ FinishTurn(L, P)
    PROVE  HInv'
<1>1. /\ env' \in Environments /\ mode' \in Modes
      /\ step' \in 0..MaxSteps
      /\ history' \in Seq(Payloads) /\ Len(history') <= 3
      /\ proposal' \in Proposals \union {<< >>}
      /\ decision' \in {"none", "allow", "block", "reopen", "revise"}
  BY DecidedLemma
<1>2. /\ ledger \in Variables /\ Log(projection) /\ Ids(ledger) \subseteq DOMAIN projection
      /\ surfaced \in 0..MaxSurfaced
  BY DEF HInv, TypeOK, Variables, Log
<1>3. /\ ledger' \in Variables /\ Log(projection') /\ Ids(ledger') \subseteq DOMAIN projection'
      /\ surfaced' \in 0..MaxSurfaced
      /\ pc' = "ended" \/ pc' = IF EnvDone THEN "ended" ELSE "run"
  <2>1. CASE LeaveTurn
    BY <1>2, <2>1 DEF LeaveTurn
  <2>2. CASE \E L \in Variables, P \in {projection, RefreshLog(projection, Stale(ledger, p))} :
                 Ids(L) = Ids(ledger) /\ FinishTurn(L, P)
    <3>1. PICK L \in Variables, P \in {projection, RefreshLog(projection, Stale(ledger, p))} :
                 Ids(L) = Ids(ledger) /\ FinishTurn(L, P)
      BY <2>2
    <3>2. Log(P) /\ DOMAIN P = DOMAIN projection
      BY <1>2, RefreshLogType
    <3> QED
      BY <1>2, <3>1, <3>2, FinishLemma
  <2> QED
    BY <2>1, <2>2
<1>4. pc' \in {"run", "ended"} /\ (endings' > 0 => pc' = "ended")
  BY <1>3 DEF EnvDone
<1>5. endings' <= 1 /\ (endings' = 1 => pc' = "ended") /\ (pc' = "run" => endings' = 0) /\ endings' \in Nat
  BY <1>4
<1>6. TypeOK'
  BY <1>1, <1>3, <1>4, <1>5 DEF TypeOK, Variables, Log
<1> QED
  BY <1>3, <1>5, <1>6 DEF HInv, OneEnding

LEMMA HInvInit == Init => HInv
<1> SUFFICES ASSUME Init PROVE HInv
  OBVIOUS
<1>1. MaxSteps \in Nat /\ MaxSurfaced \in Nat /\ InitialVars \in Variables
  BY LoopAssumption DEF Variables
<1>2. /\ DOMAIN projection = Ids(ledger) /\ DOMAIN projection \subseteq VarIds
      /\ projection \in [DOMAIN projection -> ConcernVariable]
  <2>1. projection = [id \in Ids(InitialVars) |-> LastOf(InitialVars, id)] /\ ledger = InitialVars
    BY DEF Init, AsDict
  <2>2. \A id \in Ids(InitialVars) : LastOf(InitialVars, id) \in ConcernVariable
    BY <1>1, LastOfLemma
  <2>3. Ids(InitialVars) \subseteq VarIds
    BY <1>1, VariablesLemma
  <2> QED
    BY <2>1, <2>2, <2>3
<1>3. history \in Seq(Payloads) /\ Len(history) <= 3
  BY DEF Init
<1> QED
  BY <1>1, <1>2, <1>3 DEF Init, HInv, TypeOK, OneEnding, Variables

LEMMA HInvStep == HInv /\ [Next]_vars => HInv'
<1> SUFFICES ASSUME HInv, [Next]_vars PROVE HInv'
  OBVIOUS
<1>0. /\ envSteps \in 0..step /\ reopens \in 0..step /\ step \in Nat /\ endings \in Nat
      /\ committed \in {"nobody", "agent", "governor"} /\ ledger \in Variables
  BY LoopAssumption DEF HInv, TypeOK, Variables
<1>e. ASSUME NEW final \in BOOLEAN, NEW who \in {"nobody", "agent", "governor"},
             Execute(final, who), step' = step + 1, endings = 0
      PROVE  envSteps' \in 0..step' /\ endings' \in 0..1 /\ committed' \in {"nobody", "agent", "governor"}
  BY <1>0, <1>e DEF Execute
<1>1. CASE Allow
  <2>1. PICK p \in Proposals : Decided(p, "allow") /\ Execute(p.final \/ ~env.probes, "agent")
    BY <1>1 DEF Allow
  <2>2. step' = step + 1 /\ endings = 0
    BY <2>1, DecidedLemma
  <2>3. envSteps' \in 0..step' /\ endings' \in 0..1 /\ committed' \in {"nobody", "agent", "governor"}
    <3>1. (p.final \/ ~env.probes) \in BOOLEAN
      OBVIOUS
    <3> QED
      BY <1>e, <2>1, <2>2, <3>1
  <2>4. reopens' \in 0..step' /\ (LeaveTurn \/ FinishTurn(ledger, projection))
    BY <1>0, <1>1, <2>2 DEF Allow
  <2> QED
    BY <1>0, <2>1, <2>3, <2>4, TurnLemma
<1>2. CASE Block
  <2>1. PICK p \in Proposals : Decided(p, "block")
    BY <1>2 DEF Block
  <2>2. step' = step + 1 /\ endings = 0
    BY <2>1, DecidedLemma
  <2>3. envSteps' \in 0..step' /\ endings' \in 0..1 /\ committed' \in {"nobody", "agent", "governor"}
    BY <1>0, <1>2, <2>2 DEF Block
  <2>4. reopens' \in 0..step' /\ (LeaveTurn \/ FinishTurn(ledger, projection))
    BY <1>0, <1>2, <2>2 DEF Block
  <2> QED
    BY <1>0, <2>1, <2>3, <2>4, TurnLemma
<1>3. CASE Reopen
  <2>1. PICK p \in Proposals :
          /\ Decided(p, "reopen") /\ Execute(env.reopen_ends, "governor") /\ reopens' = reopens + 1
          /\ FinishTurn(Refresh(ledger, Stale(ledger, p)), RefreshLog(projection, Stale(ledger, p)))
    BY <1>3 DEF Reopen
  <2>2. step' = step + 1 /\ endings = 0
    BY <2>1, DecidedLemma
  <2>3. envSteps' \in 0..step' /\ endings' \in 0..1 /\ committed' \in {"nobody", "agent", "governor"}
    <3>1. env.reopen_ends \in BOOLEAN
      <4>1. env \in Environments
        BY DEF HInv, TypeOK
      <4>2. \A t, b, e, r \in BOOLEAN, n \in Nat : Environment(t, n, b, r, e).reopen_ends \in BOOLEAN
        BY DEF Environment
      <4> QED
        BY <4>1, <4>2 DEF Environments, ToolUseEnv, CodingEnv, MemoryEnv, RetrievalEnv, BrowserEnv
    <3> QED
      BY <1>e, <2>1, <2>2, <3>1
  <2>4. reopens' \in 0..step'
    BY <1>0, <2>1, <2>2
  <2>5. Refresh(ledger, Stale(ledger, p)) \in Variables /\ Ids(Refresh(ledger, Stale(ledger, p))) = Ids(ledger)
    BY <1>0, RefreshType
  <2> QED
    BY <2>1, <2>3, <2>4, <2>5, TurnLemma
<1>4. CASE Revise
  <2>1. PICK p \in Proposals : Decided(p, "revise")
    BY <1>4 DEF Revise
  <2>2. step' = step + 1 /\ endings = 0
    BY <2>1, DecidedLemma
  <2>3. envSteps' \in 0..step' /\ endings' \in 0..1 /\ committed' \in {"nobody", "agent", "governor"}
    BY <1>0, <1>4, <2>2 DEF Revise
  <2>4. reopens' \in 0..step' /\ FinishTurn(ledger, projection)
    BY <1>0, <1>4, <2>2 DEF Revise
  <2> QED
    BY <1>0, <2>1, <2>3, <2>4, TurnLemma
<1>5. CASE Raise \/ Exhaust
  BY <1>5 DEF Raise, Exhaust, HInv, TypeOK, OneEnding
<1>6. CASE UNCHANGED vars
  BY <1>6 DEF vars, HInv, TypeOK, OneEnding
<1> QED
  BY <1>1, <1>2, <1>3, <1>4, <1>5, <1>6 DEF Next, Terminated

(* Types hold of every run, the ledger's under any surfaced variables.     *)
THEOREM AlwaysHInv == Spec => []HInv
BY HInvInit, HInvStep, PTL DEF Spec

-----------------------------------------------------------------------------

Projected(P, L) == DOMAIN P = Ids(L) /\ \A n \in DOMAIN L : P[L[n].id] = L[n]

(* A merge leaves the log equal to the ledger, since what differs from it  *)
(* has gained in concern.                                                  *)
LEMMA MergeProjected ==
    ASSUME NEW L \in Variables, Distinct(L), NEW P, Projected(P, L), NEW v \in ConcernVariable
    PROVE  Projected(MirrorMerge(P, L, Merge(L, v)), Merge(L, v))
<1> DEFINE M == Merge(L, v)
           Q == MirrorMerge(P, L, M)
<1>1. M \in Variables /\ Distinct(M) /\ Ids(M) = Ids(L) \union {v.id}
  BY MergeDistinct
<1>2. DOMAIN Q = Ids(M)
  BY <1>1 DEF Projected, MirrorMerge
<1>3. ASSUME NEW n \in DOMAIN M PROVE Q[M[n].id] = M[n]
  <2> DEFINE id == M[n].id
             b == LastOf(L, id)
             same == id \in Ids(L) /\ <<b.concern, b.freshness>> = <<M[n].concern, M[n].freshness>>
  <2>1. id \in Ids(M) /\ LastOf(M, id) = M[n]
    BY <1>1, LastOfDistinct, VariablesLemma
  <2>2. Q[id] = IF same THEN P[id] ELSE M[n]
    BY <1>1, <2>1 DEF MirrorMerge
  <2>3. same => P[id] = M[n]
    <3> SUFFICES ASSUME same PROVE P[id] = M[n]
      OBVIOUS
    <3>1. PICK k \in DOMAIN L : L[k].id = id
      BY DEF Ids
    <3>2. b = L[k] /\ P[id] = L[k]
      BY <3>1, LastOfDistinct DEF Projected
    <3>3. /\ L[k].concern \in 1..10 /\ L[k].concern = M[n].concern
      BY <3>2, VariablesLemma DEF ConcernVariable
    <3>4. k \in DOMAIN M /\ M[k] = IF L[k].id = v.id /\ L[k].concern < v.concern THEN v ELSE L[k]
      BY MergeDistinct
    <3>5. k = n
      BY <1>1, <3>1, <3>4 DEF Distinct
    <3> QED
      BY <3>2, <3>3, <3>4, <3>5
  <2> QED
    BY <2>2, <2>3
<1> QED
  BY <1>2, <1>3 DEF Projected

LEMMA RefreshProjected ==
    ASSUME NEW L \in Variables, Distinct(L), NEW P, Projected(P, L), NEW ids
    PROVE  Projected(RefreshLog(P, ids), Refresh(L, ids))
<1>1. DOMAIN Refresh(L, ids) = DOMAIN L /\ Ids(Refresh(L, ids)) = Ids(L)
  BY RefreshType
<1>2. DOMAIN RefreshLog(P, ids) = Ids(Refresh(L, ids))
  BY <1>1 DEF RefreshLog, Projected
<1>3. ASSUME NEW n \in DOMAIN L PROVE RefreshLog(P, ids)[Refresh(L, ids)[n].id] = Refresh(L, ids)[n]
  <2>1. Refresh(L, ids)[n].id = L[n].id /\ L[n].id \in DOMAIN P /\ P[L[n].id] = L[n]
    BY RefreshType, VariablesLemma DEF Projected
  <2>2. RefreshLog(P, ids)[L[n].id] = IF L[n].id \in ids THEN [L[n] EXCEPT !.freshness = 10] ELSE L[n]
    BY <2>1 DEF RefreshLog
  <2> QED
    BY <2>1, <2>2, RefreshDistinct
<1> QED
  BY <1>1, <1>2, <1>3 DEF Projected

(* The variables that may still be reopened are finitely many, a merge     *)
(* adds at most one, and a reopen takes at least one away.                 *)
LEMMA StalesLemma ==
    ASSUME NEW L \in Variables
    PROVE  IsFiniteSet(Stales(L)) /\ Cardinality(Stales(L)) \in Nat /\ Cardinality(Stales(L)) <= Len(L)
<1>1. Len(L) \in Nat /\ IsFiniteSet(1..Len(L)) /\ Stales(L) \in SUBSET (1..Len(L))
  BY VariablesLemma DEF Stales
<1>2. Cardinality(1..Len(L)) = IF 1 > Len(L) THEN 0 ELSE Len(L) - 1 + 1
  BY <1>1, FS_Interval
<1>3. IsFiniteSet(Stales(L)) /\ Cardinality(Stales(L)) <= Cardinality(1..Len(L))
  BY <1>1, FS_Subset
<1>4. Cardinality(Stales(L)) \in Nat
  BY <1>3, FS_CardinalityType
<1> QED
  BY <1>1, <1>2, <1>3, <1>4

LEMMA MergeStales ==
    ASSUME NEW L \in Variables, Distinct(L), NEW v \in ConcernVariable
    PROVE  Cardinality(Stales(Merge(L, v))) <= Cardinality(Stales(L)) + 1
<1> DEFINE M == Merge(L, v)
<1>1. M \in Variables
  BY MergeDistinct
<1>2. \E i : Stales(M) \subseteq Stales(L) \union {i}
  <2>1. CASE v.id \in Ids(L)
    <3>1. PICK i \in DOMAIN L : L[i].id = v.id
      BY <2>1 DEF Ids
    <3>2. DOMAIN M = DOMAIN L /\ \A n \in DOMAIN L : n # i => M[n] = L[n]
      BY <2>1, <3>1, MergeDistinct DEF Distinct
    <3> QED
      BY <3>2 DEF Stales
  <2>2. CASE v.id \notin Ids(L)
    <3>1. Len(L) \in Nat /\ DOMAIN L = 1..Len(L) /\ DOMAIN M = 1..(Len(L) + 1)
      BY <2>2, MergeDistinct, VariablesLemma
    <3>2. \A n \in DOMAIN L : M[n] = L[n]
      BY <2>2, MergeDistinct DEF Ids
    <3>3. Stales(M) \subseteq Stales(L) \union {Len(L) + 1}
      BY <3>1, <3>2 DEF Stales
    <3> QED
      BY <3>3
  <2> QED
    BY <2>1, <2>2
<1>3. PICK i : Stales(M) \subseteq Stales(L) \union {i}
  BY <1>2
<1> DEFINE S == Stales(L) \union {i}
<1>4. IsFiniteSet(S) /\ Cardinality(S) <= Cardinality(Stales(L)) + 1
  <2>1. IsFiniteSet(Stales(L)) /\ Cardinality(Stales(L)) \in Nat
    BY StalesLemma
  <2>2. /\ IsFiniteSet(S)
        /\ Cardinality(S) = IF i \in Stales(L) THEN Cardinality(Stales(L)) ELSE Cardinality(Stales(L)) + 1
    BY <2>1, FS_AddElement
  <2> QED
    BY <2>1, <2>2
<1>5. Cardinality(Stales(M)) <= Cardinality(S)
  <2>1. Stales(M) \in SUBSET S
    BY <1>3
  <2> HIDE DEF S, M
  <2> QED
    BY <1>4, <2>1, FS_Subset
<1>6. Cardinality(S) \in Nat /\ Cardinality(Stales(M)) \in Nat /\ Cardinality(Stales(L)) \in Nat
  BY <1>1, <1>4, StalesLemma, FS_CardinalityType
<1> HIDE DEF S
<1> QED
  BY <1>4, <1>5, <1>6

LEMMA RefreshStales ==
    ASSUME NEW L \in Variables, Distinct(L), NEW p, MustReopen(L, p)
    PROVE  Cardinality(Stales(Refresh(L, Stale(L, p)))) + 1 <= Cardinality(Stales(L))
<1> DEFINE ids == Stale(L, p)
           R == Refresh(L, ids)
<1>1. PICK n \in DOMAIN L : L[n].freshness # 10 /\ NeedsReopen(L, L[n], p.surface)
  <2>1. DOMAIN ReopenGates(L, p) = DOMAIN L
    BY DEF ReopenGates
  <2>2. PICK n \in DOMAIN L : ~ReopenGates(L, p)[n].passed
    BY <2>1 DEF MustReopen, Fails
  <2>3. L[n].freshness # 10 /\ NeedsReopen(L, L[n], p.surface)
    BY <2>2 DEF ReopenGates, Silent, Gate
  <2> QED
    BY <2>3
<1>2. n \in Stales(L) /\ L[n].id \in ids
  BY <1>1 DEF NeedsReopen, Stales, Stale
<1>3. R \in Variables /\ DOMAIN R = DOMAIN L
  BY RefreshType
<1>4. Stales(R) \subseteq Stales(L) \ {n}
  <2>1. \A m \in DOMAIN L : R[m].freshness = L[m].freshness \/ R[m].freshness = 10
    BY RefreshType
  <2>2. R[n].freshness = 10
    <3>1. R[n] = [L[n] EXCEPT !.freshness = 10] /\ L[n] \in ConcernVariable
      BY <1>2, RefreshDistinct, VariablesLemma
    <3> QED
      BY <3>1 DEF ConcernVariable
  <2> HIDE DEF R
  <2> QED
    BY <1>3, <2>1, <2>2 DEF Stales
<1> DEFINE S == Stales(L) \ {n}
<1>5. IsFiniteSet(S) /\ Cardinality(S) = Cardinality(Stales(L)) - 1
  BY <1>2, StalesLemma, FS_RemoveElement
<1>6. Cardinality(Stales(R)) <= Cardinality(S)
  <2>1. Stales(R) \in SUBSET S
    BY <1>4
  <2> HIDE DEF S, R
  <2> QED
    BY <1>5, <2>1, FS_Subset
<1>7. Cardinality(S) \in Nat /\ Cardinality(Stales(R)) \in Nat /\ Cardinality(Stales(L)) \in Nat
  BY <1>3, <1>5, StalesLemma, FS_CardinalityType
<1> HIDE DEF S, R
<1> QED
  BY <1>5, <1>6, <1>7 DEF R

(* Of distinct ids: the log is the ledger, and a reopen and what can still *)
(* be reopened are never more than there are variables and surfaced ones.  *)
DInv ==
    /\ Distinct(ledger)
    /\ Projected(projection, ledger)
    /\ reopens + Cardinality(Stales(ledger)) <= Len(InitialVars) + surfaced

LEMMA FinishDistinct ==
    ASSUME NEW L \in Variables, Distinct(L), NEW P, Projected(P, L),
           reopens' \in Nat, surfaced \in Nat,
           reopens' + Cardinality(Stales(L)) <= Len(InitialVars) + surfaced,
           FinishTurn(L, P)
    PROVE  DInv'
<1>0. Surfaceable \subseteq ConcernVariable /\ Len(InitialVars) \in Nat
  BY LoopAssumption
<1>1. CASE ledger' = L /\ projection' = P /\ surfaced' = surfaced
  BY <1>1 DEF DInv
<1>2. CASE /\ surfaced < MaxSurfaced /\ surfaced' = surfaced + 1
           /\ \E v \in Surfaceable :
                 ledger' = Merge(L, v) /\ projection' = MirrorMerge(P, L, Merge(L, v))
  <2>1. PICK v \in Surfaceable : ledger' = Merge(L, v) /\ projection' = MirrorMerge(P, L, Merge(L, v))
    BY <1>2
  <2>2. Merge(L, v) \in Variables /\ Distinct(Merge(L, v))
    BY <1>0, MergeDistinct
  <2>3. Projected(MirrorMerge(P, L, Merge(L, v)), Merge(L, v))
    BY <1>0, MergeProjected
  <2>4. reopens' + Cardinality(Stales(Merge(L, v))) <= Len(InitialVars) + surfaced'
    <3>1. Cardinality(Stales(Merge(L, v))) <= Cardinality(Stales(L)) + 1
      BY <1>0, MergeStales
    <3>2. Cardinality(Stales(L)) \in Nat /\ Cardinality(Stales(Merge(L, v))) \in Nat
      BY <2>2, StalesLemma
    <3> QED
      BY <1>0, <1>2, <3>1, <3>2
  <2> QED
    BY <2>1, <2>2, <2>3, <2>4 DEF DInv
<1> QED
  BY <1>1, <1>2 DEF FinishTurn

LEMMA DInvInit == ASSUME Distinct(InitialVars) PROVE Init => DInv
<1> SUFFICES ASSUME Init PROVE DInv
  OBVIOUS
<1>1. InitialVars \in Variables /\ Len(InitialVars) \in Nat
  BY LoopAssumption DEF Variables
<1>2. ledger = InitialVars /\ projection = AsDict(InitialVars) /\ reopens = 0 /\ surfaced = 0
  BY DEF Init
<1>3. Projected(AsDict(InitialVars), InitialVars)
  BY <1>1, LastOfDistinct, VariablesLemma DEF Projected, AsDict
<1>4. Cardinality(Stales(InitialVars)) \in Nat /\ Cardinality(Stales(InitialVars)) <= Len(InitialVars)
  BY <1>1, StalesLemma
<1> QED
  BY <1>1, <1>2, <1>3, <1>4 DEF DInv

LEMMA DInvStep == HInv /\ DInv /\ [Next]_vars => DInv'
<1> SUFFICES ASSUME HInv, DInv, [Next]_vars PROVE DInv'
  OBVIOUS
<1>0. /\ reopens \in Nat /\ surfaced \in Nat /\ ledger \in Variables /\ Cardinality(Stales(ledger)) \in Nat
      /\ Len(InitialVars) \in Nat
  <2>1. step \in Nat /\ MaxSurfaced \in Nat /\ ledger \in Variables
    BY LoopAssumption DEF HInv, TypeOK, Variables
  <2> QED
    BY <2>1, LoopAssumption, StalesLemma DEF HInv, TypeOK
<1>t. /\ Distinct(ledger) /\ Projected(projection, ledger)
      /\ reopens + Cardinality(Stales(ledger)) <= Len(InitialVars) + surfaced
  BY DEF DInv
<1>1. ASSUME reopens' = reopens, LeaveTurn \/ FinishTurn(ledger, projection)
      PROVE  DInv'
  <2>1. CASE LeaveTurn
    BY <1>t, <1>1, <2>1 DEF LeaveTurn, DInv
  <2>2. CASE FinishTurn(ledger, projection)
    BY <1>0, <1>t, <1>1, <2>2, FinishDistinct
  <2> QED
    BY <1>1, <2>1, <2>2
<1>2. CASE Allow
  BY <1>1, <1>2 DEF Allow
<1>3. CASE Block
  BY <1>1, <1>3 DEF Block
<1>4. CASE Reopen
  <2>1. PICK p \in Proposals :
          /\ Decided(p, "reopen") /\ reopens' = reopens + 1
          /\ FinishTurn(Refresh(ledger, Stale(ledger, p)), RefreshLog(projection, Stale(ledger, p)))
    BY <1>4 DEF Reopen
  <2> DEFINE ids == Stale(ledger, p)
  <2>2. MustReopen(ledger, p)
    BY <2>1 DEF Decided, Decide
  <2>3. Cardinality(Stales(Refresh(ledger, ids))) + 1 <= Cardinality(Stales(ledger))
    BY <1>0, <1>t, <2>2, RefreshStales
  <2>4. Refresh(ledger, ids) \in Variables /\ Distinct(Refresh(ledger, ids))
    BY <1>0, <1>t, RefreshType, RefreshDistinct
  <2>5. Projected(RefreshLog(projection, ids), Refresh(ledger, ids))
    BY <1>0, <1>t, RefreshProjected
  <2>6. Cardinality(Stales(Refresh(ledger, ids))) \in Nat
    BY <2>4, StalesLemma
  <2> HIDE DEF ids
  <2>7. reopens' \in Nat /\ reopens' + Cardinality(Stales(Refresh(ledger, ids))) <= Len(InitialVars) + surfaced
    BY <1>0, <1>t, <2>1, <2>3, <2>6
  <2> QED
    BY <1>0, <2>1, <2>4, <2>5, <2>7, FinishDistinct DEF ids
<1>5. CASE Revise
  BY <1>1, <1>5 DEF Revise
<1>6. CASE Raise \/ Exhaust \/ UNCHANGED vars
  BY <1>6 DEF Raise, Exhaust, vars, DInv
<1> QED
  BY <1>2, <1>3, <1>4, <1>5, <1>6 DEF Next, Terminated

(* However the turns of a run go, whatever is refused, surfaced or         *)
(* reopened: reopens are never more than the variables extracted and       *)
(* surfaced, and no action is executed after one that ended the task.      *)
THEOREM TurnsAlwaysSettle == ASSUME Distinct(InitialVars) PROVE Spec => []TurnsSettle
<1>1. HInv /\ DInv => TurnsSettle
  <2> SUFFICES ASSUME HInv, DInv PROVE TurnsSettle
    OBVIOUS
  <2>1. /\ TypeOK /\ OneEnding /\ ledger \in Variables
        /\ reopens + Cardinality(Stales(ledger)) <= Len(InitialVars) + surfaced
    BY DEF HInv, DInv, TypeOK, Variables
  <2>2. Cardinality(Stales(ledger)) \in Nat
    BY <2>1, StalesLemma
  <2>3. reopens \in Nat /\ surfaced \in Nat /\ Len(InitialVars) \in Nat
    BY <2>1, LoopAssumption DEF TypeOK
  <2>4. ReopensSettle
    BY <2>1, <2>2, <2>3 DEF ReopensSettle
  <2> QED
    BY <2>1, <2>4 DEF TurnsSettle
<1>2. Init => DInv
  BY DInvInit
<1> QED
  BY <1>1, <1>2, AlwaysHInv, DInvStep, PTL DEF Spec

LEMMA DistinctLength ==
    ASSUME NEW L \in Variables, Distinct(L)
    PROVE  Len(L) = Cardinality(Ids(L))
<1> DEFINE f == [n \in 1..Len(L) |-> L[n].id]
<1>1. Len(L) \in Nat /\ DOMAIN L = 1..Len(L)
  BY VariablesLemma
<1>2. IsFiniteSet(1..Len(L)) /\ Cardinality(1..Len(L)) = Len(L)
  <2>1. IsFiniteSet(1..Len(L)) /\ Cardinality(1..Len(L)) = IF 1 > Len(L) THEN 0 ELSE Len(L) - 1 + 1
    BY <1>1, FS_Interval
  <2> QED
    BY <1>1, <2>1
<1>3. f \in Bijection(1..Len(L), Ids(L))
  <2>1. f \in [1..Len(L) -> Ids(L)]
    BY <1>1 DEF Ids
  <2>2. \A m, n \in 1..Len(L) : f[m] = f[n] => m = n
    BY <1>1 DEF Distinct
  <2>3. \A id \in Ids(L) : \E n \in 1..Len(L) : f[n] = id
    BY <1>1 DEF Ids
  <2> HIDE DEF f
  <2> QED
    BY <2>1, <2>2, <2>3 DEF Bijection, Injection, Surjection, IsInjective
<1>4. ExistsBijection(1..Len(L), Ids(L))
  BY <1>3 DEF ExistsBijection
<1> QED
  BY <1>2, <1>4, FS_Bijection

(* The log stays equal to the ledger, one variable for each id, through    *)
(* every merge of surfaced variables and every reopen.                     *)
THEOREM LogAlwaysProjects == ASSUME Distinct(InitialVars) PROVE Spec => []LogProjectsLedger
<1>1. HInv /\ DInv => LogProjectsLedger
  BY DistinctLength DEF HInv, TypeOK, DInv, Projected, Variables, LogProjectsLedger
<1>2. Init => DInv
  BY DInvInit
<1> QED
  BY <1>1, <1>2, AlwaysHInv, DInvStep, PTL DEF Spec

-----------------------------------------------------------------------------

(* A gate that says no and weighs enough decides.                          *)
LEMMA FailLemma ==
    ASSUME NEW gates, NEW w, NEW n \in DOMAIN gates, ~gates[n].passed, gates[n].weight >= w
    PROVE  Fails(gates, w)
BY DEF Fails

LEMMA NoLemma ==
    ASSUME NEW x \in BOOLEAN, NEW y, NEW gate, gate = Gate(x, y), x = FALSE
    PROVE  ~gate.passed /\ gate.weight = y
BY DEF Gate

LEMMA SingletonLemma ==
    ASSUME NEW S, NEW x \in S
    PROVE  <<x>> \in Seq(S) /\ Len(<<x>>) = 1 /\ <<x>>[1] = x
OBVIOUS

LEMMA ConcatLemma ==
    ASSUME NEW S, NEW V \in Seq(S), NEW W \in Seq(S)
    PROVE  /\ V \o W \in Seq(S) /\ Len(V \o W) = Len(V) + Len(W)
           /\ \A n \in 1..Len(V) : n \in DOMAIN (V \o W) /\ (V \o W)[n] = V[n]
           /\ \A n \in 1..Len(W) : Len(V) + n \in DOMAIN (V \o W) /\ (V \o W)[Len(V) + n] = W[n]
OBVIOUS

LEMMA ConcatPlace ==
    ASSUME NEW S, NEW V \in Seq(S), NEW W \in Seq(S), NEW n \in 1..Len(W)
    PROVE  Len(V) + n \in DOMAIN (V \o W) /\ (V \o W)[Len(V) + n] = W[n]
BY ConcatLemma

GateRecord == [passed: BOOLEAN, weight: Nat]

LEMMA GateType ==
    ASSUME NEW x \in BOOLEAN, NEW y \in Nat
    PROVE  Gate(x, y) \in GateRecord
BY DEF Gate, GateRecord

(* The transport auditor and the orchestration auditor each have one gate  *)
(* for each variable of the ledger.                                        *)
LEMMA ValueGatesType ==
    ASSUME NEW L \in Variables, NEW p
    PROVE  /\ ValueGates(L, p) \in Seq(GateRecord) /\ Len(ValueGates(L, p)) = Len(L)
           /\ HandoffGates(L, p) \in Seq(GateRecord) /\ Len(HandoffGates(L, p)) = Len(L)
<1> DEFINE V == ValueGates(L, p)
           H == HandoffGates(L, p)
<1>1. Len(L) \in Nat /\ DOMAIN L = 1..Len(L) /\ \A n \in 1..Len(L) : 2 * L[n].concern \in Nat
  BY VariablesLemma DEF ConcernVariable
<1>2. V = [n \in 1..Len(L) |-> V[n]] /\ H = [n \in 1..Len(L) |-> H[n]]
  BY <1>1 DEF ValueGates, HandoffGates
<1>3. Silent \in GateRecord
  BY GateType DEF Silent
<1>4. ASSUME NEW n \in 1..Len(L) PROVE V[n] \in GateRecord
  <2>1. V[n] = Gate(L[n].id \in p.carries, 2 * L[n].concern) \/ V[n] = Silent
    BY <1>1 DEF ValueGates
  <2>2. Gate(L[n].id \in p.carries, 2 * L[n].concern) \in GateRecord
    BY <1>1 DEF Gate, GateRecord
  <2> HIDE DEF V
  <2> QED
    BY <1>3, <2>1, <2>2
<1>5. ASSUME NEW n \in 1..Len(L) PROVE H[n] \in GateRecord
  <2>1. H[n] = Gate(L[n].id \in Mentioned(p), 2 * L[n].concern) \/ H[n] = Silent
    BY <1>1 DEF HandoffGates
  <2>2. Gate(L[n].id \in Mentioned(p), 2 * L[n].concern) \in GateRecord
    BY <1>1 DEF Gate, GateRecord
  <2> HIDE DEF H
  <2> QED
    BY <1>3, <2>1, <2>2
<1> HIDE DEF V, H
<1>6. V \in Seq(GateRecord) /\ Len(V) = Len(L)
  BY <1>1, <1>2, <1>4
<1>7. H \in Seq(GateRecord) /\ Len(H) = Len(L)
  BY <1>1, <1>2, <1>5
<1> QED
  BY <1>6, <1>7 DEF V, H

(* The places of the transport auditor's gates: the values of the ledger's *)
(* variables, then what it says of the trace, then the handoffs.           *)
LEMMA TransportLemma ==
    ASSUME NEW L \in Variables, NEW p \in ActionProposal
    PROVE  LET G == TransportGates(L, p)
           IN /\ \A n \in DOMAIN L : n \in DOMAIN G /\ G[n] = ValueGates(L, p)[n]
              /\ p.traced => \A n \in DOMAIN L : \E k \in DOMAIN G : G[k] = HandoffGates(L, p)[n]
              /\ ~p.traced /\ TraceRequired => \E k \in DOMAIN G : G[k] = Gate(FALSE, 16)
<1> DEFINE V == ValueGates(L, p)
           H == HandoffGates(L, p)
           told == <<Gate(TRUE, 4)>>
           untold == <<Gate(FALSE, 16)>>
           G == TransportGates(L, p)
<1>1. Len(L) \in Nat /\ DOMAIN L = 1..Len(L)
  BY VariablesLemma
<1>2. V \in Seq(GateRecord) /\ Len(V) = Len(L) /\ H \in Seq(GateRecord) /\ Len(H) = Len(L)
  BY ValueGatesType
<1>3. told \in Seq(GateRecord) /\ Len(told) = 1
  <2>1. Gate(TRUE, 4) \in GateRecord
    BY GateType
  <2> QED
    BY <2>1, SingletonLemma
<1>4. untold \in Seq(GateRecord) /\ Len(untold) = 1 /\ untold[1] = Gate(FALSE, 16)
  <2>1. Gate(FALSE, 16) \in GateRecord
    BY GateType
  <2> QED
    BY <2>1, SingletonLemma
<1>5. p.traced => G = V \o (told \o H)
  BY DEF TransportGates
<1>6. ~p.traced /\ TraceRequired => G = V \o untold
  BY DEF TransportGates
<1>7. ~p.traced /\ ~TraceRequired => G = V \o << >>
  BY DEF TransportGates
<1> HIDE DEF V, H, told, untold, G
<1>8. CASE p.traced
  <2>1. told \o H \in Seq(GateRecord) /\ Len(told \o H) = 1 + Len(L)
    <3>1. told \o H \in Seq(GateRecord)
      BY <1>2, <1>3
    <3>2. Len(told \o H) = Len(told) + Len(H)
      BY <1>2, <1>3, ConcatLemma, Zenon
    <3> QED
      BY <1>2, <1>3, <3>1, <3>2
  <2>2. \A n \in 1..Len(H) : (told \o H)[1 + n] = H[n]
    <3>1. ASSUME NEW n \in 1..Len(H) PROVE (told \o H)[Len(told) + n] = H[n]
      BY <1>2, <1>3, ConcatPlace
    <3> QED
      BY <1>3, <3>1
  <2>3. G = V \o (told \o H)
    BY <1>5, <1>8
  <2>4. \A n \in 1..Len(V) : n \in DOMAIN G /\ G[n] = V[n]
    BY <1>2, <2>1, <2>3, ConcatLemma
  <2>5. \A n \in 1..Len(told \o H) : Len(V) + n \in DOMAIN G /\ G[Len(V) + n] = (told \o H)[n]
    BY <1>2, <2>1, <2>3, ConcatLemma
  <2>6. ASSUME NEW n \in 1..Len(L) PROVE \E k \in DOMAIN G : G[k] = H[n]
    <3>1. 1 + n \in 1..Len(told \o H)
      BY <1>1, <2>1
    <3> QED
      BY <1>2, <2>2, <2>5, <3>1
  <2> QED
    BY <1>1, <1>2, <1>8, <2>4, <2>6 DEF G, V, H
<1>9. CASE ~p.traced /\ TraceRequired
  <2>1. G = V \o untold
    BY <1>6, <1>9
  <2>2. \A n \in 1..Len(V) : n \in DOMAIN G /\ G[n] = V[n]
    BY <1>2, <1>4, <2>1, ConcatLemma
  <2>3. \E k \in DOMAIN G : G[k] = Gate(FALSE, 16)
    <3>1. \A n \in 1..Len(untold) : Len(V) + n \in DOMAIN G /\ G[Len(V) + n] = untold[n]
      <4>1. ASSUME NEW n \in 1..Len(untold)
            PROVE  Len(V) + n \in DOMAIN (V \o untold) /\ (V \o untold)[Len(V) + n] = untold[n]
        <5>1. V \in Seq(GateRecord) /\ untold \in Seq(GateRecord)
          BY <1>2, <1>4
        <5> QED
          BY <5>1, ConcatPlace
      <4> QED
        BY <2>1, <4>1
    <3>2. 1 \in 1..Len(untold)
      BY <1>4
    <3> QED
      BY <1>4, <3>1, <3>2
  <2> QED
    BY <1>1, <1>2, <1>9, <2>2, <2>3 DEF G, V
<1>10. CASE ~p.traced /\ ~TraceRequired
  <2>1. G = V \o << >> /\ << >> \in Seq(GateRecord)
    BY <1>7, <1>10
  <2>2. \A n \in 1..Len(V) : n \in DOMAIN G /\ G[n] = V[n]
    BY <1>2, <2>1, ConcatLemma
  <2> QED
    BY <1>1, <1>2, <1>10, <2>2 DEF G, V
<1> QED
  BY <1>8, <1>9, <1>10

(* A proposal that the decision lets through has none of the faults that   *)
(* the gates look for.                                                     *)
LEMMA AllowLemma ==
    ASSUME NEW L \in Variables, NEW p \in ActionProposal, NEW h, Decide(L, p, h) = "allow"
    PROVE  /\ Valid(p)
           /\ p.traced => ~Collapses(p)
           /\ TraceRequired => p.traced
           /\ \A n \in DOMAIN L :
               LET v == L[n] IN
               /\ Audited(v, p) /\ v.concern >= 7 => v.id \in p.carries
               /\ p.traced /\ MustHandOver(v, p) => v.id \in Mentioned(p)
               /\ v.forbidden => v.id \notin p.carries
               /\ v.id \in p.claims => v.freshness >= 5
               /\ v.concern >= 9 => ~NeedsReopen(L, v, p.surface)
<1> DEFINE T == TransportGates(L, p)
           G == ProxyGates(L, p, h)
           R == ReopenGates(L, p)
<1>1. ~MustReopen(L, p) /\ ~MustRevise(L, p, h)
  BY DEF Decide
<1>2. Valid(p) /\ ~Fails(G, 14) /\ ~Fails(T, 14) /\ ~Fails(R, 18)
  BY <1>1 DEF MustReopen, MustRevise
<1>3. \A n \in DOMAIN L : /\ L[n] \in ConcernVariable /\ L[n].concern \in 1..10 /\ L[n].freshness \in 0..10
  BY VariablesLemma DEF ConcernVariable
<1>4. /\ \A n \in DOMAIN L : n \in DOMAIN T /\ T[n] = ValueGates(L, p)[n]
      /\ p.traced => \A n \in DOMAIN L : \E k \in DOMAIN T : T[k] = HandoffGates(L, p)[n]
      /\ ~p.traced /\ TraceRequired => \E k \in DOMAIN T : T[k] = Gate(FALSE, 16)
  BY TransportLemma
<1>5. 2 \in DOMAIN G /\ 3 \in DOMAIN G /\ 6 \in DOMAIN G
  BY DEF ProxyGates
<1>6. ~ForbiddenPresent(L, p)
  <2> SUFFICES ASSUME ForbiddenPresent(L, p) PROVE FALSE
    OBVIOUS
  <2>1. G[2] = Gate(~ForbiddenPresent(L, p), 20)
    BY DEF ProxyGates
  <2>2. (~ForbiddenPresent(L, p)) \in BOOLEAN /\ (~ForbiddenPresent(L, p)) = FALSE
    OBVIOUS
  <2>3. ~G[2].passed /\ G[2].weight = 20
    BY <2>1, <2>2, NoLemma, Zenon
  <2> QED
    <3>1. G[2].weight >= 14
      BY <2>3
    <3> HIDE DEF G
    <3> QED
      BY <1>2, <1>5, <2>3, <3>1, FailLemma
<1>7. ~StaleUsed(L, p)
  <2> SUFFICES ASSUME StaleUsed(L, p) PROVE FALSE
    OBVIOUS
  <2>1. G[3] = Gate(~StaleUsed(L, p), 16)
    BY DEF ProxyGates
  <2>2. (~StaleUsed(L, p)) \in BOOLEAN /\ (~StaleUsed(L, p)) = FALSE
    OBVIOUS
  <2>3. ~G[3].passed /\ G[3].weight = 16
    BY <2>1, <2>2, NoLemma, Zenon
  <2> QED
    <3>1. G[3].weight >= 14
      BY <2>3
    <3> HIDE DEF G
    <3> QED
      BY <1>2, <1>5, <2>3, <3>1, FailLemma
<1>8. p.traced => ~Collapses(p)
  <2> SUFFICES ASSUME p.traced, Collapses(p) PROVE FALSE
    BY DEF Collapses
  <2>1. G[6] = Gate(~Collapses(p), 14)
    BY DEF ProxyGates
  <2>2. (~Collapses(p)) \in BOOLEAN /\ (~Collapses(p)) = FALSE
    OBVIOUS
  <2>3. ~G[6].passed /\ G[6].weight = 14
    BY <2>1, <2>2, NoLemma, Zenon
  <2> QED
    <3>1. G[6].weight >= 14
      BY <2>3
    <3> HIDE DEF G
    <3> QED
      BY <1>2, <1>5, <2>3, <3>1, FailLemma
<1> HIDE DEF T, G, R
<1>9. ASSUME TraceRequired, ~p.traced PROVE FALSE
  <2>1. PICK k \in DOMAIN T : T[k] = Gate(FALSE, 16)
    BY <1>4, <1>9
  <2>2. ~T[k].passed /\ T[k].weight >= 14
    BY <2>1 DEF Gate
  <2> QED
    BY <1>2, <2>2, FailLemma
<1>10. ASSUME NEW n \in DOMAIN L, Audited(L[n], p), L[n].concern >= 7, L[n].id \notin p.carries PROVE FALSE
  <2>1. n \in DOMAIN T /\ T[n] = Gate(L[n].id \in p.carries, 2 * L[n].concern)
    BY <1>4, <1>10 DEF ValueGates
  <2>2. ~T[n].passed /\ T[n].weight = 2 * L[n].concern
    <3>1. (L[n].id \in p.carries) \in BOOLEAN /\ (L[n].id \in p.carries) = FALSE
      BY <1>10
    <3> QED
      BY <2>1, <3>1, NoLemma, Zenon
  <2>3. T[n].weight >= 14
    BY <1>3, <1>10, <2>2
  <2> QED
    BY <1>2, <2>1, <2>2, <2>3, FailLemma
<1>11. ASSUME NEW n \in DOMAIN L, p.traced, MustHandOver(L[n], p), L[n].id \notin Mentioned(p) PROVE FALSE
  <2>1. PICK k \in DOMAIN T : T[k] = HandoffGates(L, p)[n]
    BY <1>4, <1>11
  <2>2. T[k] = Gate(L[n].id \in Mentioned(p), 2 * L[n].concern)
    BY <1>11, <2>1 DEF HandoffGates
  <2>3. ~T[k].passed /\ T[k].weight = 2 * L[n].concern
    <3>1. (L[n].id \in Mentioned(p)) \in BOOLEAN /\ (L[n].id \in Mentioned(p)) = FALSE
      BY <1>11
    <3> QED
      BY <2>2, <3>1, NoLemma, Zenon
  <2>4. T[k].weight >= 14
    BY <1>3, <1>11, <2>3 DEF MustHandOver
  <2> QED
    BY <1>2, <2>3, <2>4, FailLemma
<1>12. ASSUME NEW n \in DOMAIN L, L[n].concern >= 9, NeedsReopen(L, L[n], p.surface) PROVE FALSE
  <2>1. L[n].freshness # 10
    BY <1>3, <1>12 DEF NeedsReopen
  <2>2. n \in DOMAIN R /\ R[n] = Gate(FALSE, 2 * L[n].concern)
    BY <1>12, <2>1 DEF R, ReopenGates
  <2>3. ~R[n].passed /\ R[n].weight = 2 * L[n].concern
    BY <2>2 DEF Gate
  <2>4. R[n].weight >= 18
    BY <1>3, <1>12, <2>3
  <2> QED
    BY <1>2, <2>2, <2>3, <2>4, FailLemma
<1>13. \A n \in DOMAIN L : L[n].forbidden => L[n].id \notin p.carries
  BY <1>6 DEF ForbiddenPresent
<1>14. \A n \in DOMAIN L : L[n].id \in p.claims => L[n].freshness >= 5
  BY <1>3, <1>7 DEF StaleUsed
<1>15. TraceRequired => p.traced
  BY <1>9
<1> QED
  BY <1>2, <1>8, <1>10, <1>11, <1>12, <1>13, <1>14, <1>15

(* In guarded mode nothing is executed that a gate should have stopped,    *)
(* judged by the ledger as every merge and reopen before has left it.      *)
THEOREM ExecutedAlwaysSound == Spec => ExecutedIsSound
<1> DEFINE Sound(p) ==
        /\ Valid(p)
        /\ p.traced => ~Collapses(p)
        /\ TraceRequired => p.traced
        /\ \A n \in DOMAIN ledger :
            LET v == ledger[n] IN
            /\ Audited(v, p) /\ v.concern >= 7 => v.id \in p.carries
            /\ p.traced /\ MustHandOver(v, p) => v.id \in Mentioned(p)
            /\ v.forbidden => v.id \notin p.carries
            /\ v.id \in p.claims => v.freshness >= 5
            /\ v.concern >= 9 => ~NeedsReopen(ledger, v, p.surface)
<1>1. ASSUME HInv, [Next]_vars, mode = "guarded", decision' = "allow", step' > step
      PROVE  Sound(proposal')
  <2>0. ledger \in Variables /\ step \in Nat
    BY <1>1, LoopAssumption DEF HInv, TypeOK, Variables
  <2>1. CASE Allow
    <3>1. PICK p \in Proposals : Decided(p, "allow")
      BY <2>1 DEF Allow
    <3>2. proposal' = p /\ Decide(ledger, p, history) = "allow" /\ p \in ActionProposal
      BY <1>1, <3>1, LoopAssumption DEF Decided
    <3>3. Sound(p)
      BY <2>0, <3>2, AllowLemma
    <3> QED
      BY <3>2, <3>3
  <2>2. ~Block /\ ~Reopen /\ ~Revise
    BY <1>1 DEF Block, Reopen, Revise, Decided
  <2>3. ~Raise /\ ~Exhaust /\ ~UNCHANGED vars
    BY <1>1, <2>0 DEF Raise, Exhaust, vars
  <2> QED
    BY <1>1, <2>1, <2>2, <2>3 DEF Next, Terminated
<1>2. HInv /\ [Next]_vars =>
        [mode = "guarded" /\ decision' = "allow" /\ step' > step => Sound(proposal')]_vars
  BY <1>1
<1>3. ExecutedIsSound <=> [][mode = "guarded" /\ decision' = "allow" /\ step' > step => Sound(proposal')]_vars
  BY DEF ExecutedIsSound
<1> HIDE DEF Sound
<1> QED
  BY <1>2, <1>3, AlwaysHInv, PTL DEF Spec
=============================================================================
