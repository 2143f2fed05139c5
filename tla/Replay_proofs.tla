---------------------------- MODULE Replay_proofs ----------------------------
(***************************************************************************)
(* Theorems about Replay, for any number of turns, adapters, actions and   *)
(* observations.                                                           *)
(*                                                                         *)
(* Why a replay is faithful is a matter of steps: the envelopes are served *)
(* in an order of their own, but a request holds the loop counter, so that *)
(* an envelope answers in the turn it was captured in or not at all.  The  *)
(* invariant RInv therefore relates both streams of the log to the turns   *)
(* of the captured run (Asked, InOrder), and says of a replay that has not *)
(* diverged that it has executed just the actions of the turns before its  *)
(* own (Followed).  That it never comes back after a mismatch is due to    *)
(* the window: the error is in the next request, and was in none before.   *)
(***************************************************************************)
EXTENDS Replay, FiniteSetTheorems, SequenceTheorems, TLAPS

(* The captured run.                                                       *)
Counted ==
    /\ Len(seen) = step /\ Len(llm) + failures = step
    /\ IsFiniteSet(used) /\ \A i \in DOMAIN llm : llm[i].adapter \in used
    /\ \A n \in DOMAIN seen : seen[n] # Mismatch

EditedBefore(s) ==
    \E j \in DOMAIN tools :
        tools[j].step < s /\ <<tools[j].action, tools[j].observation>> \in Modifying

AskedAt(i, s) ==
    /\ s \in 0..(step - 1)
    /\ llm[i].request = [step |-> s, recent |-> Recent(SubSeq(seen, 1, s)),
                         modified |-> EditedBefore(s)]
    /\ failures = 0 => s = i - 1
    /\ Cardinality(used) <= 1 => llm[i].index = i - 1
    /\ llm[i].response = Unreadable =>
            seen[s + 1] = NotParsed /\ \A j \in DOMAIN tools : tools[j].step # s
    /\ llm[i].response # Unreadable =>
            \E j \in DOMAIN tools : tools[j].step = s /\ tools[j].action = llm[i].response

Asked == \A i \in DOMAIN llm : AskedAt(i, llm[i].request.step)

InOrder ==
    \A j \in DOMAIN tools :
        /\ tools[j].step < step /\ tools[j].observation = seen[tools[j].step + 1]
        /\ \A k \in 1..(j - 1) : tools[k].step < tools[j].step
        /\ tools[j].observation = Verified => phase # "capture" /\ tools[j].step = step - 1

Ended ==
    phase # "capture" /\ step < MaxSteps =>
        \E j \in DOMAIN tools : tools[j].step = step - 1 /\ tools[j].observation = Verified

(* The replay.                                                             *)
Diverged == rstep > 0 /\ rseen[rstep] = Mismatch

Followed ==
    /\ Len(rseen) = rstep
    /\ phase = "capture" => rstep = 0 /\ executed = << >> /\ cursor = 0
    /\ Len(executed) <= Len(tools)
    /\ \A j \in DOMAIN executed : executed[j] = tools[j]
    /\ ~Diverged => \A j \in DOMAIN tools : j <= Len(executed) <=> tools[j].step < rstep

(* A quiet run, all of whose calls answered, through one adapter.          *)
Quiet == failures = 0 /\ Cardinality(used) <= 1

(* Where the requests can come out the same again.                         *)
SameWorkspace == Kept \/ Modifying = {}

Reproducing ==
    Quiet =>
        /\ cursor = rstep /\ rstep <= step
        /\ \A n \in DOMAIN rseen : rseen[n] = seen[n]
        /\ phase = "replay" => rstep < step \/ step = MaxSteps
        /\ phase = "over" => rstep = step

Captured == Counted /\ Asked /\ InOrder /\ Ended

RInv == TypeOK /\ Captured /\ Followed
-----------------------------------------------------------------------------

(* The recent observations are observations, no more than the window, and  *)
(* the last of them is the last there was.                                 *)
LEMMA RecentLemma ==
    ASSUME NEW S, NEW s \in Seq(S)
    PROVE  /\ Recent(s) \in BoundedSeq(S, Window)
           /\ Len(s) > 0 => Recent(s)[Len(Recent(s))] = s[Len(s)]
<1> DEFINE n == Len(s)
           m == IF n > Window THEN n - Window + 1 ELSE 1
<1>1. n \in Nat /\ Window \in Nat \ {0} /\ \A k \in 1..n : s[k] \in S
  BY ReplayAssumption
<1>2. m \in Nat /\ 1 <= m /\ n - m + 1 \in 0..Window /\ (n > 0 => n - m + 1 > 0)
  <2> HIDE DEF n
  <2>1. CASE n > Window
    BY <1>1, <2>1
  <2>2. CASE ~(n > Window)
    BY <1>1, <2>2
  <2> QED
    BY <2>1, <2>2
<1>3. Recent(s) = SubSeq(s, m, n)
  BY DEF Recent
<1>4. \A k \in m..n : s[k] \in S
  <2> HIDE DEF m, n
  <2> QED
    BY <1>1, <1>2
<1>5. /\ Recent(s) \in Seq(S) /\ Len(Recent(s)) = n - m + 1
      /\ \A k \in 1..(n - m + 1) : Recent(s)[k] = s[m + k - 1]
  <2> HIDE DEF m, n
  <2>1. m \in Int /\ n \in Int /\ (m <= n \/ n - m + 1 = 0)
    BY <1>1, <1>2
  <2>2. /\ SubSeq(s, m, n) \in Seq(S) /\ Len(SubSeq(s, m, n)) = IF m <= n THEN n - m + 1 ELSE 0
        /\ \A k \in 1..(n - m + 1) : SubSeq(s, m, n)[k] = s[m + k - 1]
    BY <1>4, <2>1, SubSeqProperties
  <2> QED
    BY <1>3, <2>1, <2>2
<1>6. Recent(s) \in BoundedSeq(S, Window)
  <2> HIDE DEF m
  <2> QED
    BY <1>2, <1>5 DEF BoundedSeq, SeqOf
<1>7. ASSUME n > 0 PROVE Recent(s)[Len(Recent(s))] = s[n]
  <2> HIDE DEF m
  <2>1. n - m + 1 \in 1..(n - m + 1) /\ m + (n - m + 1) - 1 = n
    BY <1>1, <1>2, <1>7
  <2> QED
    BY <1>5, <2>1
<1> QED
  BY <1>6, <1>7

(* The stable sort of envelopes_from_log has an envelope in every place:   *)
(* the numbers of those before it are different for any two of them.       *)
LEMMA EnvelopeLemma ==
    ASSUME TypeOK, NEW n \in 1..Len(llm)
    PROVE  \E i \in DOMAIN llm : Envelope(n) = llm[i]
<1> DEFINE D == 1..Len(llm)
           Pre(i) == {j \in D : Before(j, i)}
           rank == [i \in D |-> Cardinality(Pre(i))]
<1>1. Len(llm) \in Nat /\ DOMAIN llm = D /\ \A i \in D : llm[i].index \in Nat
  <2>1. llm \in Seq(Envelopes)
    BY DEF TypeOK
  <2>2. \A i \in D : llm[i] \in Envelopes
    BY <2>1
  <2> QED
    BY <2>1, <2>2, ReplayAssumption DEF Envelopes
<1>2. IsFiniteSet(D) /\ Cardinality(D) = Len(llm)
  BY <1>1, FS_Interval
<1>3. ASSUME NEW i \in D
      PROVE  IsFiniteSet(Pre(i)) /\ Cardinality(Pre(i)) \in 0..(Len(llm) - 1)
  <2>1. i \notin Pre(i) /\ Pre(i) \in SUBSET (D \ {i})
    BY <1>1 DEF Before
  <2>2. IsFiniteSet(D \ {i}) /\ Cardinality(D \ {i}) = Len(llm) - 1
    BY <1>2, FS_RemoveElement
  <2> HIDE DEF Pre, D
  <2>3. IsFiniteSet(Pre(i)) /\ Cardinality(Pre(i)) <= Len(llm) - 1
    BY <2>1, <2>2, FS_Subset
  <2> QED
    BY <1>1, <2>3, FS_CardinalityType
<1>4. ASSUME NEW i \in D, NEW j \in D, Before(i, j)
      PROVE  Cardinality(Pre(i)) < Cardinality(Pre(j))
  <2>1. i \notin Pre(i) /\ Pre(i) \union {i} \in SUBSET Pre(j)
    BY <1>1, <1>4 DEF Before
  <2>2. IsFiniteSet(Pre(i)) /\ Cardinality(Pre(i)) \in Nat /\ IsFiniteSet(Pre(j)) /\ Cardinality(Pre(j)) \in Nat
    <3> HIDE DEF Pre, D
    <3> QED
      BY <1>1, <1>3
  <2> HIDE DEF Pre
  <2>3. Cardinality(Pre(i) \union {i}) = Cardinality(Pre(i)) + 1
    BY <2>1, <2>2, FS_AddElement
  <2>4. Cardinality(Pre(i) \union {i}) <= Cardinality(Pre(j))
    BY <2>1, <2>2, FS_Subset
  <2> QED
    BY <2>2, <2>3, <2>4
<1>5. \A i, j \in D : i # j => Before(i, j) \/ Before(j, i)
  BY <1>1 DEF Before
<1>6. rank \in Injection(D, 0..(Len(llm) - 1))
  <2> HIDE DEF Pre, D
  <2>1. rank \in [D -> 0..(Len(llm) - 1)]
    BY <1>3
  <2>2. \A i, j \in D : rank[i] = rank[j] => i = j
    <3>1. \A i \in D : Cardinality(Pre(i)) \in Nat
      BY <1>3
    <3> QED
      BY <1>4, <1>5, <3>1
  <2> HIDE DEF rank
  <2> QED
    BY <2>1, <2>2 DEF Injection, IsInjective
<1>7. rank \in Surjection(D, 0..(Len(llm) - 1))
  <2>1. IsFiniteSet(0..(Len(llm) - 1)) /\ Cardinality(0..(Len(llm) - 1)) = Len(llm)
    <3>1. /\ IsFiniteSet(0..(Len(llm) - 1))
          /\ Cardinality(0..(Len(llm) - 1)) =
                IF 0 > Len(llm) - 1 THEN 0 ELSE (Len(llm) - 1) - 0 + 1
      <4>1. 0 \in Int /\ Len(llm) - 1 \in Int
        BY <1>1
      <4> QED
        BY <4>1, FS_Interval
    <3> QED
      BY <1>1, <3>1
  <2> HIDE DEF rank, D
  <2> QED
    BY <1>2, <1>6, <2>1, FS_Injection
<1>8. PICK i \in D : rank[i] = n - 1
  <2>1. n - 1 \in 0..(Len(llm) - 1)
    BY <1>1
  <2> HIDE DEF rank, D
  <2> QED
    BY <1>7, <2>1 DEF Surjection
<1> DEFINE Place(k) == Cardinality({j \in DOMAIN llm : Before(j, k)}) = n - 1
<1>9. i \in DOMAIN llm /\ Place(i)
  BY <1>1, <1>8
<1>10. Envelope(n) = llm[CHOOSE k \in DOMAIN llm : Place(k)]
  BY DEF Envelope
<1> HIDE DEF Place
<1> QED
  BY <1>9, <1>10

(* Of the envelopes of one adapter the sort keeps the order.               *)
LEMMA QuietEnvelope ==
    ASSUME TypeOK, NEW n \in 1..Len(llm), \A i \in DOMAIN llm : llm[i].index = i - 1
    PROVE  Envelope(n) = llm[n]
<1>1. Len(llm) \in Nat /\ DOMAIN llm = 1..Len(llm)
  BY DEF TypeOK
<1>2. ASSUME NEW i \in DOMAIN llm
      PROVE  Cardinality({j \in DOMAIN llm : Before(j, i)}) = i - 1
  <2>1. {j \in DOMAIN llm : Before(j, i)} = 1..(i - 1)
    BY <1>1 DEF Before
  <2> QED
    <3>1. 1 \in Int /\ i - 1 \in Int
      BY <1>1
    <3>2. Cardinality(1..(i - 1)) = IF 1 > i - 1 THEN 0 ELSE (i - 1) - 1 + 1
      BY <3>1, FS_Interval
    <3>3. Cardinality(1..(i - 1)) = i - 1
      BY <1>1, <3>2
    <3> QED
      BY <2>1, <3>3
<1> QED
  BY <1>1, <1>2 DEF Envelope
LEMMA PrefixLemma ==
    ASSUME NEW S, NEW s \in Seq(S), NEW n \in 0..Len(s)
    PROVE  /\ SubSeq(s, 1, n) \in Seq(S) /\ SubSeq(s, 1, n) \in [1..n -> S]
           /\ Len(SubSeq(s, 1, n)) = n /\ \A k \in 1..n : SubSeq(s, 1, n)[k] = s[k]
<1>1. n \in Nat /\ Len(s) \in Nat /\ \A k \in 1..n : s[k] \in S
  OBVIOUS
<1>2. 1 \in Int /\ n \in Int /\ n - 1 + 1 = n /\ (1 <= n \/ n = 0)
  BY <1>1
<1>3. /\ SubSeq(s, 1, n) \in Seq(S) /\ Len(SubSeq(s, 1, n)) = IF 1 <= n THEN n - 1 + 1 ELSE 0
      /\ \A k \in 1..(n - 1 + 1) : SubSeq(s, 1, n)[k] = s[1 + k - 1]
  BY <1>1, <1>2, SubSeqProperties
<1>4. SubSeq(s, 1, n) \in Seq(S) /\ Len(SubSeq(s, 1, n)) = n /\ \A k \in 1..n : SubSeq(s, 1, n)[k] = s[k]
  BY <1>1, <1>2, <1>3
<1>5. \A q \in Seq(S) : Len(q) = n => q \in [1..n -> S]
  OBVIOUS
<1> QED
  BY <1>4, <1>5

(* Two sequences that agree up to n have the same prefix of that length.   *)
LEMMA SamePrefix ==
    ASSUME NEW S, NEW s \in Seq(S), NEW t \in Seq(S), NEW n \in Nat,
           n <= Len(s), n <= Len(t), \A k \in 1..n : s[k] = t[k]
    PROVE  SubSeq(s, 1, n) = SubSeq(t, 1, n)
<1>1. n \in 0..Len(s) /\ n \in 0..Len(t)
  OBVIOUS
<1>2. /\ SubSeq(s, 1, n) \in [1..n -> S] /\ SubSeq(t, 1, n) \in [1..n -> S]
      /\ \A k \in 1..n : SubSeq(s, 1, n)[k] = s[k] /\ SubSeq(t, 1, n)[k] = t[k]
  BY <1>1, PrefixLemma
<1> QED
  BY <1>2

LEMMA AppendLemma ==
    ASSUME NEW S, NEW s \in Seq(S), NEW e \in S
    PROVE  /\ Append(s, e) \in Seq(S) /\ Len(Append(s, e)) = Len(s) + 1 /\ Len(s) \in Nat
           /\ DOMAIN s = 1..Len(s) /\ DOMAIN Append(s, e) = 1..(Len(s) + 1)
           /\ \A k \in 1..Len(s) : Append(s, e)[k] = s[k]
           /\ Append(s, e)[Len(s) + 1] = e
OBVIOUS

(* The values that stand for observations are different ones.              *)
LEMMA ObservationsLemma ==
    /\ {Verified, Refused, Failed, NotParsed, Mismatch} \subseteq Observations
    /\ Results \subseteq Observations
    /\ \A a \in Actions \union {Finish} : a \in Answers /\ a # Unreadable /\ Unreadable \in Answers
    /\ \A a \in Actions \union {Finish} : \A o \in Outcomes(a) :
            o # Mismatch /\ o # NotParsed /\ o # Failed /\ o \in Observations
    /\ NotParsed # Mismatch /\ Failed # Mismatch /\ Verified # Mismatch
    /\ NotParsed # Verified /\ Failed # Verified
BY ReplayAssumption DEF Observations, Answers, Outcomes, Verified, Refused, Failed, NotParsed,
    Mismatch, Finish, Unreadable
-----------------------------------------------------------------------------

(* A turn of the captured run: an observation, perhaps an envelope of each *)
(* kind, and the counter.                                                  *)
Turn(o) ==
    /\ phase = "capture" /\ step < MaxSteps
    /\ o \in Observations /\ o # Mismatch
    /\ seen' = Append(seen, o) /\ step' = step + 1
    /\ used \subseteq used' /\ failures' \in Nat /\ (failures' = 0 => failures = 0)
    /\ IsFiniteSet(used')
    /\ \/ tools' = tools
       \/ \E t \in Executed : t.step = step /\ tools' = Append(tools, t)
    /\ \/ llm' = llm
       \/ \E e \in Envelopes : llm' = Append(llm, e)

LEMMA TurnLemma ==
    ASSUME TypeOK, Captured, NEW o, Turn(o)
    PROVE  /\ seen' \in Seq(Observations) /\ Len(seen') = step' /\ step' \in 0..MaxSteps
           /\ \A n \in DOMAIN seen' : seen'[n] # Mismatch
           /\ \A i \in DOMAIN llm : llm'[i] = llm[i] /\ AskedAt(i, llm[i].request.step)'
<1>1. /\ step \in Nat /\ MaxSteps \in Nat /\ seen \in Seq(Observations) /\ Len(seen) = step
      /\ llm \in Seq(Envelopes) /\ tools \in Seq(Executed)
      /\ \A j \in DOMAIN tools : tools[j].step < step
  BY ReplayAssumption DEF TypeOK, Captured, Counted, InOrder
<1>2. /\ seen' \in Seq(Observations) /\ Len(seen') = step + 1 /\ DOMAIN seen' = 1..(step + 1)
      /\ \A k \in 1..step : seen'[k] = seen[k]
      /\ seen'[step + 1] = o
  BY <1>1, AppendLemma DEF Turn
<1>3. \A n \in DOMAIN seen' : seen'[n] # Mismatch
  <2>1. \A n \in 1..step : seen[n] # Mismatch
    BY <1>1 DEF Captured, Counted
  <2>2. \A n \in 1..(step + 1) : n \in 1..step \/ n = step + 1
    BY <1>1
  <2> QED
    BY <1>2, <2>1, <2>2 DEF Turn
<1>4. \A i \in DOMAIN llm : llm'[i] = llm[i]
  <2>1. CASE llm' = llm
    BY <2>1
  <2>2. ASSUME NEW e \in Envelopes, llm' = Append(llm, e)
        PROVE  \A i \in DOMAIN llm : llm'[i] = llm[i]
    BY <1>1, <2>2, AppendLemma
  <2> QED
    BY <2>1, <2>2 DEF Turn
<1>5. /\ \A j \in DOMAIN tools : j \in DOMAIN tools' /\ tools'[j] = tools[j]
      /\ \A j \in DOMAIN tools' : j \in DOMAIN tools \/ tools'[j].step = step
  <2>1. CASE tools' = tools
    BY <2>1
  <2>2. ASSUME NEW t \in Executed, t.step = step, tools' = Append(tools, t)
        PROVE  /\ \A j \in DOMAIN tools : j \in DOMAIN tools' /\ tools'[j] = tools[j]
               /\ \A j \in DOMAIN tools' : j \in DOMAIN tools \/ tools'[j].step = step
    <3>1. /\ DOMAIN tools = 1..Len(tools) /\ DOMAIN tools' = 1..(Len(tools) + 1) /\ Len(tools) \in Nat
          /\ \A k \in 1..Len(tools) : tools'[k] = tools[k]
          /\ tools'[Len(tools) + 1] = t
      BY <1>1, <2>2, AppendLemma
    <3>2. \A j \in 1..(Len(tools) + 1) : j \in 1..Len(tools) \/ j = Len(tools) + 1
      BY <3>1
    <3> QED
      BY <2>2, <3>1, <3>2
  <2> QED
    BY <2>1, <2>2 DEF Turn
<1>6. Cardinality(used') <= 1 => Cardinality(used) <= 1
  <2>1. IsFiniteSet(used') /\ used \in SUBSET used'
    BY DEF Turn
  <2>2. Cardinality(used) <= Cardinality(used') /\ Cardinality(used) \in Nat /\ Cardinality(used') \in Nat
    <3>1. IsFiniteSet(used)
      BY DEF Captured, Counted
    <3> QED
      BY <2>1, <3>1, FS_Subset, FS_CardinalityType
  <2> QED
    BY <2>2
<1>7. ASSUME NEW i \in DOMAIN llm, NEW s, s = llm[i].request.step
      PROVE  AskedAt(i, s)'
  <2>1. AskedAt(i, s) /\ s \in 0..(step - 1) /\ s \in Nat /\ s < step
    BY <1>1, <1>7 DEF Captured, Asked, AskedAt
  <2>2. SubSeq(seen', 1, s) = SubSeq(seen, 1, s)
    <3>1. \A k \in 1..s : k \in 1..step
      BY <1>1, <2>1
    <3> QED
      BY <1>1, <1>2, <2>1, <3>1, SamePrefix
  <2>3. EditedBefore(s)' <=> EditedBefore(s)
    <3>1. \A j \in DOMAIN tools' : tools'[j].step < s => j \in DOMAIN tools
      BY <1>1, <1>5, <2>1
    <3> QED
      BY <1>5, <3>1 DEF EditedBefore
  <2>4. /\ s \in 0..(step' - 1)
        /\ llm'[i].request = [step |-> s, recent |-> Recent(SubSeq(seen', 1, s)),
                              modified |-> EditedBefore(s)']
    <3>1. llm[i].request = [step |-> s, recent |-> Recent(SubSeq(seen, 1, s)),
                            modified |-> EditedBefore(s)]
      BY <2>1 DEF AskedAt
    <3>2. EditedBefore(s)' = EditedBefore(s)
      BY <2>3 DEF EditedBefore
    <3>3. step' = step + 1
      BY DEF Turn
    <3>4. llm'[i].request = llm[i].request
      BY <1>4
    <3>5. s \in 0..(step' - 1)
      BY <1>1, <2>1, <3>3
    <3> QED
      BY <2>2, <3>1, <3>2, <3>4, <3>5
  <2>5. (failures' = 0 => s = i - 1) /\ (Cardinality(used') <= 1 => llm'[i].index = i - 1)
    BY <1>4, <1>6, <2>1 DEF AskedAt, Turn
  <2>6. llm'[i].response = Unreadable =>
            seen'[s + 1] = NotParsed /\ \A j \in DOMAIN tools' : tools'[j].step # s
    <3>1. s + 1 \in 1..step /\ s # step
      BY <1>1, <2>1
    <3> QED
      BY <1>2, <1>4, <1>5, <2>1, <3>1 DEF AskedAt
  <2>7. llm'[i].response # Unreadable =>
            \E j \in DOMAIN tools' : tools'[j].step = s /\ tools'[j].action = llm'[i].response
    BY <1>4, <1>5, <2>1 DEF AskedAt
  <2> QED
    BY <2>4, <2>5, <2>6, <2>7 DEF AskedAt, EditedBefore
<1>8. step' \in 0..MaxSteps /\ Len(seen') = step'
  BY <1>1, <1>2 DEF Turn
<1> QED
  BY <1>2, <1>3, <1>4, <1>7, <1>8

(* An adapter's index counts its own calls: all of them, if no other       *)
(* adapter has been called.                                                *)
LEMMA IndexLemma ==
    ASSUME TypeOK, Captured, NEW a \in Adapters
    PROVE  /\ Index(a) \in 0..Len(llm) /\ Len(llm) \in Nat
           /\ IsFiniteSet(used \union {a})
           /\ Cardinality(used \union {a}) <= 1 => Index(a) = Len(llm)
<1> DEFINE S == {i \in DOMAIN llm : llm[i].adapter = a}
<1>1. Len(llm) \in Nat /\ DOMAIN llm = 1..Len(llm) /\ IsFiniteSet(1..Len(llm)) /\ Cardinality(1..Len(llm)) = Len(llm)
  <2>1. Len(llm) \in Nat /\ DOMAIN llm = 1..Len(llm)
    BY DEF TypeOK
  <2>2. 1 \in Int /\ Len(llm) \in Int
    BY <2>1
  <2>3. IsFiniteSet(1..Len(llm)) /\ Cardinality(1..Len(llm)) = IF 1 > Len(llm) THEN 0 ELSE Len(llm) - 1 + 1
    BY <2>2, FS_Interval
  <2>4. Cardinality(1..Len(llm)) = Len(llm)
    BY <2>1, <2>3
  <2> QED
    BY <2>1, <2>3, <2>4
<1>2. Index(a) = Cardinality(S) /\ S \in SUBSET (1..Len(llm))
  BY <1>1 DEF Index
<1>3. Index(a) \in 0..Len(llm)
  <2> HIDE DEF S
  <2>1. Cardinality(S) <= Len(llm) /\ Cardinality(S) \in Nat
    BY <1>1, <1>2, FS_Subset, FS_CardinalityType
  <2> QED
    BY <1>1, <1>2, <2>1
<1>4. IsFiniteSet(used \union {a})
  BY FS_AddElement DEF Captured, Counted
<1>5. ASSUME Cardinality(used \union {a}) <= 1
      PROVE  Index(a) = Len(llm)
  <2>1. used \subseteq {a}
    <3> SUFFICES ASSUME NEW b \in used, b # a PROVE FALSE
      OBVIOUS
    <3>1. IsFiniteSet({b, a}) /\ Cardinality({b, a}) = 2
      <4>1. IsFiniteSet({b}) /\ Cardinality({b}) = 1 /\ a \notin {b}
        BY FS_Singleton
      <4>2. IsFiniteSet({b} \cup {a}) /\ Cardinality({b} \cup {a}) = 2
        BY <4>1, FS_AddElement
      <4>3. {b} \cup {a} = {b, a}
        OBVIOUS
      <4> QED
        BY <4>2, <4>3
    <3>2. {b, a} \in SUBSET (used \union {a})
      OBVIOUS
    <3>3. Cardinality({b, a}) <= Cardinality(used \union {a}) /\ Cardinality(used \union {a}) \in Nat
      BY <1>4, <3>2, FS_Subset, FS_CardinalityType
    <3> QED
      BY <1>5, <3>1, <3>3
  <2>2. S = 1..Len(llm)
    BY <1>1, <2>1 DEF Captured, Counted
  <2> QED
    BY <1>1, <1>2, <2>2
<1> QED
  BY <1>1, <1>3, <1>4, <1>5

(* A turn in which the model answered leaves the new envelope behind those *)
(* of the earlier turns, with what was asked.                              *)
LEMMA CaptureLemma ==
    ASSUME TypeOK, Captured, phase = "capture", step < MaxSteps, failures' = failures,
           NEW a \in Adapters, NEW answer \in Answers, Capture(a, answer),
           NEW o \in Observations, o # Mismatch, seen' = Append(seen, o),
           \/ answer = Unreadable /\ o = NotParsed /\ tools' = tools
           \/ answer # Unreadable
              /\ tools' = Append(tools, [step |-> step, action |-> answer, observation |-> o])
    PROVE  /\ seen' \in Seq(Observations) /\ step' \in 0..MaxSteps /\ used' \subseteq Adapters
           /\ llm' \in Seq(Envelopes) /\ tools' \in Seq(Executed) /\ failures' \in 0..step'
           /\ Counted' /\ Asked'
<1> DEFINE e == [adapter |-> a, index |-> Index(a),
                 request |-> Request(step, seen, Modified(tools)), response |-> answer]
<1>0. PICK n, s : n = Len(llm) + 1 /\ s = step
  OBVIOUS
<1>1. /\ step \in Nat /\ step \in 0..MaxSteps /\ MaxSteps \in Nat /\ seen \in Seq(Observations) /\ Len(seen) = step
      /\ llm \in Seq(Envelopes) /\ tools \in Seq(Executed) /\ failures \in Nat /\ failures <= step
      /\ Len(llm) + failures = step /\ Len(llm) \in Nat
      /\ \A j \in DOMAIN tools : tools[j].step < step
  BY ReplayAssumption DEF TypeOK, Captured, Counted, InOrder
<1>2. /\ llm' = Append(llm, e) /\ used' = used \union {a} /\ step' = step + 1
  BY DEF Capture
<1>3. e \in Envelopes
  <2>1. Recent(seen) \in BoundedSeq(Observations, Window)
    BY <1>1, RecentLemma
  <2>2. Request(step, seen, Modified(tools)) \in Requests
    BY <1>1, <2>1 DEF Request, Requests, Modified
  <2>3. Index(a) \in 0..MaxSteps
    <3>1. Index(a) \in 0..Len(llm)
      BY IndexLemma
    <3> QED
      BY <1>1, <3>1
  <2> QED
    BY <2>2, <2>3 DEF Envelopes
<1> HIDE DEF e
<1>4. Turn(o)
  <2>1. IsFiniteSet(used')
    BY <1>2, IndexLemma
  <2>2. [step |-> step, action |-> answer, observation |-> o] \in Executed
    BY <1>1 DEF Executed
  <2> QED
    BY <1>1, <1>2, <1>3, <2>1, <2>2 DEF Turn
<1>5. /\ llm' \in Seq(Envelopes) /\ DOMAIN llm' = 1..n /\ Len(llm') = n /\ llm'[n] = e /\ n \in DOMAIN llm'
      /\ \A i \in DOMAIN llm' : i \in DOMAIN llm \/ i = n
  <2>1. /\ llm' \in Seq(Envelopes) /\ DOMAIN llm' = 1..n /\ Len(llm') = n /\ llm'[n] = e
        /\ DOMAIN llm = 1..Len(llm)
    BY <1>0, <1>1, <1>2, <1>3, AppendLemma
  <2>2. n \in 1..n /\ \A i \in 1..n : i \in 1..Len(llm) \/ i = n
    BY <1>0, <1>1
  <2> QED
    BY <2>1, <2>2
<1>6. tools' \in Seq(Executed)
  <2>1. [step |-> step, action |-> answer, observation |-> o] \in Executed
    BY <1>1 DEF Executed
  <2>2. Append(tools, [step |-> step, action |-> answer, observation |-> o]) \in Seq(Executed)
    BY <1>1, <2>1, AppendLemma
  <2> QED
    BY <1>1, <2>2
<1>7. Counted'
  <2>1. \A i \in DOMAIN llm : llm'[i] = llm[i]
    BY <1>4, TurnLemma
  <2>2. \A i \in DOMAIN llm' : llm'[i].adapter \in used'
    BY <1>2, <1>5, <2>1 DEF e, Captured, Counted
  <2>3. Len(llm') + failures' = step'
    <3>1. /\ Len(llm') = Len(llm) + 1 /\ step' = step + 1
          /\ Len(llm) + failures = step /\ Len(llm) \in Nat /\ failures \in Nat
      BY <1>0, <1>1, <1>2, <1>5
    <3> QED
      BY <3>1
  <2> QED
    BY <1>2, <1>4, <2>2, <2>3, TurnLemma, IndexLemma DEF Counted
<1>8. AskedAt(n, s)'
  <2>1. seen' \in Seq(Observations) /\ Len(seen') = s + 1 /\ seen'[s + 1] = o
        /\ \A k \in 1..s : seen'[k] = seen[k]
    <3>1. /\ seen' \in Seq(Observations) /\ Len(seen') = Len(seen) + 1 /\ seen'[Len(seen) + 1] = o
          /\ \A k \in 1..Len(seen) : seen'[k] = seen[k]
      BY <1>1, AppendLemma
    <3> QED
      BY <1>0, <1>1, <3>1
  <2>2. SubSeq(seen', 1, s) = seen
    <3>1. SubSeq(seen', 1, s) = SubSeq(seen, 1, s)
      BY <1>0, <1>1, <2>1, SamePrefix
    <3>2. SubSeq(seen, 1, s) = seen
      BY <1>0, <1>1, SubSeqFull
    <3> QED
      BY <3>1, <3>2
  <2>3. /\ \A j \in DOMAIN tools : j \in DOMAIN tools' /\ tools'[j] = tools[j]
        /\ \A j \in DOMAIN tools' : j \in DOMAIN tools \/ (answer # Unreadable /\ tools'[j].step = s)
        /\ answer # Unreadable =>
             \E j \in DOMAIN tools' : tools'[j].step = s /\ tools'[j].action = answer
    <3>1. CASE answer = Unreadable /\ tools' = tools
      BY <3>1
    <3>2. CASE answer # Unreadable /\ tools' = Append(tools, [step |-> step, action |-> answer, observation |-> o])
      <4> DEFINE t == [step |-> step, action |-> answer, observation |-> o]
      <4>1. t \in Executed /\ t.step = s /\ t.action = answer
        BY <1>0, <1>1 DEF Executed
      <4> HIDE DEF t
      <4>2. tools' = Append(tools, t)
        BY <3>2 DEF t
      <4>3. /\ DOMAIN tools = 1..Len(tools) /\ DOMAIN tools' = 1..(Len(tools) + 1) /\ Len(tools) \in Nat
            /\ \A k \in 1..Len(tools) : tools'[k] = tools[k]
            /\ tools'[Len(tools) + 1] = t
        BY <1>1, <4>1, <4>2, AppendLemma
      <4>4. \A j \in 1..(Len(tools) + 1) : j \in 1..Len(tools) \/ j = Len(tools) + 1
        BY <4>3
      <4>5. Len(tools) + 1 \in DOMAIN tools' /\ tools'[Len(tools) + 1].step = s
            /\ tools'[Len(tools) + 1].action = answer
        BY <4>1, <4>3
      <4>6. \A j \in DOMAIN tools : j \in DOMAIN tools' /\ tools'[j] = tools[j]
        BY <4>3, <4>4
      <4>7. \A j \in DOMAIN tools' : j \in DOMAIN tools \/ tools'[j].step = s
        BY <4>3, <4>4, <4>5
      <4> QED
        BY <3>2, <4>5, <4>6, <4>7
    <3> QED
      BY <3>1, <3>2
  <2>4. EditedBefore(s)' = Modified(tools)
    <3>1. \A j \in DOMAIN tools' : tools'[j].step < s <=> j \in DOMAIN tools
      BY <1>0, <1>1, <2>3
    <3>2. (\E j \in DOMAIN tools' : tools'[j].step < s /\ <<tools'[j].action, tools'[j].observation>> \in Modifying)
          = (\E j \in DOMAIN tools : <<tools[j].action, tools[j].observation>> \in Modifying)
      BY <2>3, <3>1
    <3> QED
      BY <3>2 DEF EditedBefore, Modified
  <2>5. llm'[n].request = [step |-> s, recent |-> Recent(SubSeq(seen', 1, s)), modified |-> EditedBefore(s)']
    <3>1. e.request = [step |-> step, recent |-> Recent(seen), modified |-> Modified(tools)]
      BY DEF e, Request
    <3>2. llm'[n].request = e.request
      BY <1>5
    <3> QED
      BY <1>0, <2>2, <2>4, <3>1, <3>2
  <2>6. s \in 0..(step' - 1) /\ (failures' = 0 => s = n - 1)
    BY <1>0, <1>1, <1>2
  <2>7. Cardinality(used') <= 1 => llm'[n].index = n - 1
    <3>1. e.index = Index(a)
      BY DEF e
    <3>2. Cardinality(used') <= 1 => Index(a) = Len(llm)
      BY <1>2, IndexLemma
    <3> QED
      BY <1>0, <1>1, <1>5, <3>1, <3>2
  <2>8. llm'[n].response = answer
    BY <1>5 DEF e
  <2>9. answer = Unreadable => seen'[s + 1] = NotParsed /\ \A j \in DOMAIN tools' : tools'[j].step # s
    BY <1>0, <1>1, <2>1, <2>3
  <2> QED
    BY <2>3, <2>5, <2>6, <2>7, <2>8, <2>9 DEF AskedAt, EditedBefore
<1>9. Asked'
  <2>1. llm'[n].request.step = s
    BY <1>0, <1>5 DEF e, Request
  <2>2. \A i \in DOMAIN llm : llm'[i] = llm[i] /\ AskedAt(i, llm[i].request.step)'
    BY <1>4, TurnLemma
  <2>3. AskedAt(n, llm[n].request.step)'
    BY <1>8, <2>1
  <2>4. \A i \in DOMAIN llm' : AskedAt(i, llm[i].request.step)'
    BY <1>5, <2>2, <2>3
  <2> QED
    BY <2>4 DEF Asked
<1> QED
  BY <1>0, <1>1, <1>2, <1>4, <1>5, <1>6, <1>7, <1>9, TurnLemma DEF TypeOK

(* An executed action comes after those of the earlier turns.              *)
LEMMA InOrderLemma ==
    ASSUME TypeOK, Captured, phase = "capture", NEW o \in Observations, seen' = Append(seen, o),
           step' = step + 1,
           \/ tools' = tools
           \/ \E t \in Executed : /\ t.step = step /\ t.observation = o
                                  /\ o = Verified => phase' # "capture"
                                  /\ tools' = Append(tools, t)
    PROVE  InOrder'
<1>1. /\ step \in Nat /\ seen \in Seq(Observations) /\ Len(seen) = step /\ tools \in Seq(Executed)
      /\ \A j \in DOMAIN tools : tools[j].step \in Nat /\ tools[j].step < step
      /\ \A j \in DOMAIN tools : tools[j].observation # Verified
  <2>1. \A j \in DOMAIN tools : tools[j] \in Executed
    BY DEF TypeOK
  <2> QED
    BY <2>1 DEF TypeOK, Captured, Counted, InOrder, Executed
<1>2. seen'[step + 1] = o /\ \A k \in 1..step : seen'[k] = seen[k]
  <2>1. seen'[Len(seen) + 1] = o /\ \A k \in 1..Len(seen) : seen'[k] = seen[k]
    BY <1>1, AppendLemma
  <2> QED
    BY <1>1, <2>1
<1>3. \A j \in DOMAIN tools : /\ tools[j].observation = seen'[tools[j].step + 1]
                              /\ \A k \in 1..(j - 1) : tools[k].step < tools[j].step
  <2>1. \A j \in DOMAIN tools : tools[j].step + 1 \in 1..step
    BY <1>1
  <2> QED
    BY <1>2, <2>1 DEF Captured, InOrder
<1>4. CASE tools' = tools
  BY <1>1, <1>3, <1>4 DEF InOrder
<1>5. ASSUME NEW t \in Executed, t.step = step, t.observation = o, tools' = Append(tools, t),
             o = Verified => phase' # "capture"
      PROVE  InOrder'
  <2>1. /\ DOMAIN tools = 1..Len(tools) /\ DOMAIN tools' = 1..(Len(tools) + 1) /\ Len(tools) \in Nat
        /\ \A k \in 1..Len(tools) : tools'[k] = tools[k]
        /\ tools'[Len(tools) + 1] = t
    BY <1>1, <1>5, AppendLemma
  <2>2. ASSUME NEW j \in 1..Len(tools)
        PROVE  /\ tools'[j].step < step' /\ tools'[j].observation = seen'[tools'[j].step + 1]
               /\ \A k \in 1..(j - 1) : tools'[k].step < tools'[j].step
               /\ tools'[j].observation # Verified
    <3>1. \A k \in 1..(j - 1) : k \in 1..Len(tools)
      BY <2>1
    <3>2. tools'[j] = tools[j] /\ \A k \in 1..(j - 1) : tools'[k] = tools[k]
      BY <2>1, <3>1
    <3>3. tools[j].step < step /\ tools[j].observation # Verified /\ tools[j].step \in Nat
      BY <1>1, <2>1
    <3>4. /\ tools[j].observation = seen'[tools[j].step + 1]
          /\ \A k \in 1..(j - 1) : tools[k].step < tools[j].step
      BY <1>3, <2>1
    <3> QED
      BY <1>1, <3>2, <3>3, <3>4
  <2>3. ASSUME NEW j, j = Len(tools) + 1
        PROVE  /\ tools'[j].step < step' /\ tools'[j].observation = seen'[tools'[j].step + 1]
               /\ \A k \in 1..(j - 1) : tools'[k].step < tools'[j].step
               /\ tools'[j].observation = Verified => phase' # "capture" /\ tools'[j].step = step' - 1
    <3>1. tools'[j] = t /\ \A k \in 1..(j - 1) : k \in 1..Len(tools)
      BY <2>1, <2>3
    <3>2. \A k \in 1..(j - 1) : tools'[k].step < step
      BY <1>1, <2>1, <3>1
    <3> QED
      BY <1>1, <1>2, <1>5, <3>1, <3>2
  <2>4. \A j \in 1..(Len(tools) + 1) : j \in 1..Len(tools) \/ j = Len(tools) + 1
    BY <2>1
  <2> QED
    BY <2>1, <2>2, <2>3, <2>4 DEF InOrder
<1> QED
  BY <1>4, <1>5

(* The replay has not begun.                                               *)
LEMMA NotBegun ==
    ASSUME TypeOK, Followed, phase = "capture", UNCHANGED replayed, phase' \in {"capture", "replay"},
           step' \in Nat, phase' = "replay" => step' > 0 \/ step' = MaxSteps,
           tools' \in Seq(Executed), llm' \in Seq(Envelopes)
    PROVE  /\ Followed' /\ Reproducing'
           /\ rstep' \in 0..MaxSteps /\ rseen' \in Seq(Observations) /\ cursor' \in 0..Len(llm')
           /\ executed' \in Seq(Executed) /\ Len(executed') <= cursor'
<1>1. rstep' = 0 /\ executed' = << >> /\ cursor' = 0 /\ Len(rseen') = 0 /\ rseen' \in Seq(Observations)
      /\ DOMAIN rseen' = 1..Len(rseen')
  BY DEF TypeOK, Followed, replayed
<1>2. \A j \in DOMAIN tools' : j \in Nat /\ j > 0 /\ tools'[j].step \in Nat
  <2>1. \A j \in DOMAIN tools' : tools'[j] \in Executed /\ j \in 1..Len(tools')
    OBVIOUS
  <2> QED
    BY <2>1 DEF Executed
<1>3. Len(tools') \in Nat /\ Len(llm') \in Nat /\ MaxSteps \in Nat
  BY ReplayAssumption
<1>4. Followed'
  BY <1>1, <1>2, <1>3 DEF Followed
<1>5. Reproducing'
  BY <1>1 DEF Reproducing
<1> QED
  BY <1>1, <1>3, <1>4, <1>5

LEMMA CaptureSteps ==
    ASSUME RInv, CallRaises \/ AnswerUnreadable \/ Act \/ CaptureEnds
    PROVE  RInv' /\ Reproducing'
<1>1. TypeOK /\ Captured /\ Followed /\ phase = "capture" /\ UNCHANGED replayed
      /\ step \in Nat /\ MaxSteps \in Nat /\ step <= MaxSteps
      /\ tools \in Seq(Executed) /\ llm \in Seq(Envelopes)
  BY ReplayAssumption DEF RInv, TypeOK, CallRaises, AnswerUnreadable, Act, CaptureEnds
<1>2. CASE CallRaises
  <2>1. Failed \in Observations /\ Failed # Mismatch
    BY ObservationsLemma
  <2>2. Turn(Failed)
    BY <1>1, <1>2, <2>1 DEF CallRaises, Turn, TypeOK, Captured, Counted
  <2>3. /\ seen' \in Seq(Observations) /\ Len(seen') = step' /\ step' \in 0..MaxSteps
        /\ \A n \in DOMAIN seen' : seen'[n] # Mismatch
        /\ \A i \in DOMAIN llm : llm'[i] = llm[i] /\ AskedAt(i, llm[i].request.step)'
    BY <1>1, <2>2, TurnLemma
  <2>4. Asked'
    BY <1>2, <2>3 DEF CallRaises, Asked
  <2>5. InOrder'
    BY <1>1, <1>2, <2>1, InOrderLemma DEF CallRaises
  <2>6. Counted'
    <3>1. Len(llm) \in Nat /\ failures \in Nat /\ Len(llm) + failures = step
      BY <1>1 DEF Captured, Counted, TypeOK
    <3>2. Len(llm') + failures' = step'
      BY <1>1, <1>2, <3>1 DEF CallRaises
    <3> QED
      BY <1>1, <1>2, <2>3, <3>2 DEF CallRaises, Captured, Counted
  <2>7. Ended' /\ phase' = "capture" /\ UNCHANGED <<tools, llm>>
    BY <1>2 DEF CallRaises, Ended
  <2>8. Followed' /\ Reproducing' /\ TypeOK'
    BY <1>1, <1>2, <2>3, <2>7, NotBegun DEF TypeOK, CallRaises
  <2> QED
    BY <2>4, <2>5, <2>6, <2>7, <2>8 DEF RInv, Captured
<1>3. CASE AnswerUnreadable
  <2>1. NotParsed \in Observations /\ NotParsed # Mismatch /\ NotParsed # Verified /\ Unreadable \in Answers
    BY ObservationsLemma
  <2>2. PICK a \in Adapters : Capture(a, Unreadable)
    BY <1>3 DEF AnswerUnreadable
  <2>3. /\ seen' \in Seq(Observations) /\ step' \in 0..MaxSteps /\ used' \subseteq Adapters
        /\ llm' \in Seq(Envelopes) /\ tools' \in Seq(Executed) /\ failures' \in 0..step'
        /\ Counted' /\ Asked'
    BY <1>1, <1>3, <2>1, <2>2, CaptureLemma DEF AnswerUnreadable
  <2>4. phase' = "capture" /\ step' = step + 1
    BY <1>1, <1>3, <2>2 DEF AnswerUnreadable, Capture
  <2>5. InOrder'
    BY <1>1, <1>3, <2>1, <2>4, InOrderLemma DEF AnswerUnreadable
  <2>6. Followed' /\ Reproducing' /\ TypeOK'
    BY <1>1, <1>3, <2>3, <2>4, NotBegun DEF TypeOK, AnswerUnreadable
  <2> QED
    BY <2>3, <2>4, <2>5, <2>6 DEF RInv, Captured, Ended
<1>4. CASE Act
  <2>1. PICK a \in Adapters, action \in Actions \union {Finish}, o \in Observations :
            /\ o \in Outcomes(action)
            /\ Capture(a, action)
            /\ tools' = Append(tools, [step |-> step, action |-> action, observation |-> o])
            /\ seen' = Append(seen, o)
            /\ phase' = IF o = Verified THEN "replay" ELSE phase
    BY <1>4 DEF Act
  <2>2. action \in Answers /\ action # Unreadable /\ o # Mismatch
    BY <2>1, ObservationsLemma
  <2>3. /\ seen' \in Seq(Observations) /\ step' \in 0..MaxSteps /\ used' \subseteq Adapters
        /\ llm' \in Seq(Envelopes) /\ tools' \in Seq(Executed) /\ failures' \in 0..step'
        /\ Counted' /\ Asked'
    BY <1>1, <1>4, <2>1, <2>2, CaptureLemma DEF Act
  <2>4. step' = step + 1
    BY <2>1 DEF Capture
  <2> DEFINE t == [step |-> step, action |-> action, observation |-> o]
  <2>5. t \in Executed /\ t.step = step /\ t.observation = o
    BY <1>1, <2>2 DEF Executed
  <2>6. tools' = Append(tools, t)
    BY <2>1
  <2> HIDE DEF t
  <2>7. InOrder'
    BY <1>1, <2>1, <2>4, <2>5, <2>6, InOrderLemma
  <2>8. Ended'
    <3>1. tools'[Len(tools) + 1] = t /\ Len(tools) + 1 \in DOMAIN tools'
      <4>1. tools'[Len(tools) + 1] = t /\ DOMAIN tools' = 1..(Len(tools) + 1) /\ Len(tools) \in Nat
        BY <1>1, <2>5, <2>6, AppendLemma
      <4> QED
        BY <4>1
    <3> QED
      BY <1>1, <2>1, <2>4, <2>5, <3>1 DEF Ended
  <2>9. phase' \in {"capture", "replay"} /\ step' > 0 /\ step' \in Nat
    BY <1>1, <2>1, <2>4
  <2>10. Followed' /\ Reproducing' /\ TypeOK'
    BY <1>1, <2>3, <2>9, NotBegun DEF TypeOK
  <2> QED
    BY <2>3, <2>7, <2>8, <2>10 DEF RInv, Captured
<1>5. CASE CaptureEnds
  <2>1. step = MaxSteps /\ phase' = "replay" /\ UNCHANGED captured
    BY <1>5 DEF CaptureEnds
  <2>2. Captured'
    BY <1>1, <2>1 DEF captured, Captured, Counted, Asked, AskedAt, EditedBefore, InOrder, Ended
  <2>3. Followed' /\ Reproducing' /\ TypeOK'
    BY <1>1, <2>1, NotBegun DEF TypeOK, captured
  <2> QED
    BY <2>2, <2>3 DEF RInv
<1> QED
  BY <1>2, <1>3, <1>4, <1>5
-----------------------------------------------------------------------------

LEMMA StateLemma ==
    ASSUME RInv
    PROVE  /\ step \in Nat /\ rstep \in Nat /\ cursor \in Nat /\ MaxSteps \in Nat /\ rstep <= MaxSteps
           /\ seen \in Seq(Observations) /\ rseen \in Seq(Observations)
           /\ Len(seen) = step /\ Len(rseen) = rstep
           /\ DOMAIN seen = 1..step /\ DOMAIN rseen = 1..rstep
           /\ tools \in Seq(Executed) /\ executed \in Seq(Executed)
           /\ Len(tools) \in Nat /\ DOMAIN tools = 1..Len(tools)
           /\ Len(executed) \in Nat /\ DOMAIN executed = 1..Len(executed) /\ Len(executed) <= Len(tools)
           /\ Len(llm) \in Nat /\ DOMAIN llm = 1..Len(llm) /\ cursor <= Len(llm)
           /\ \A j \in DOMAIN tools : tools[j].step \in Nat /\ tools[j] \in Executed
<1>1. \A j \in DOMAIN tools : tools[j] \in Executed
  BY DEF RInv, TypeOK
<1>2. \A t \in Executed : t.step \in Nat
  BY ReplayAssumption DEF Executed
<1> QED
  BY <1>1, <1>2, ReplayAssumption DEF RInv, TypeOK, Captured, Counted, Followed

(* An envelope that answers was captured in this very turn, and no turn of *)
(* the replay so far has been a mismatch.                                  *)
LEMMA MatchLemma ==
    ASSUME RInv, Matches
    PROVE  ~Diverged /\ \E i \in DOMAIN llm : Envelope(cursor + 1) = llm[i] /\ AskedAt(i, rstep)
<1>1. PICK i \in DOMAIN llm : Envelope(cursor + 1) = llm[i]
  <2>1. cursor + 1 \in 1..Len(llm)
    BY StateLemma DEF Matches
  <2> QED
    BY <2>1, EnvelopeLemma DEF RInv
<1>2. llm[i].request.step = rstep /\ llm[i].request.recent = Recent(rseen)
  BY <1>1 DEF Matches, Request
<1>3. AskedAt(i, rstep)
  <2>1. AskedAt(i, llm[i].request.step)
    BY DEF RInv, Captured, Asked
  <2> QED
    BY <1>2, <2>1
<1>4. Recent(SubSeq(seen, 1, rstep)) = Recent(rseen) /\ rstep \in 0..(step - 1)
  BY <1>2, <1>3 DEF AskedAt
<1>5. ~Diverged
  <2> SUFFICES ASSUME rstep > 0 PROVE rseen[rstep] # Mismatch
    BY DEF Diverged
  <2>1. rstep \in 0..Len(seen) /\ rstep \in 1..step
    BY <1>4, StateLemma
  <2> DEFINE s == SubSeq(seen, 1, rstep)
  <2>2. s \in Seq(Observations) /\ Len(s) = rstep /\ s[rstep] = seen[rstep]
    BY <2>1, StateLemma, PrefixLemma
  <2> HIDE DEF s
  <2>3. Recent(s)[Len(Recent(s))] = s[Len(s)]
    BY <2>2, RecentLemma
  <2>4. Recent(rseen)[Len(Recent(rseen))] = rseen[Len(rseen)]
    BY StateLemma, RecentLemma
  <2>5. Recent(s) = Recent(rseen)
    BY <1>4 DEF s
  <2>6. rseen[rstep] = seen[rstep]
    BY <2>2, <2>3, <2>4, <2>5, StateLemma
  <2>7. seen[rstep] # Mismatch
    BY <2>1, StateLemma DEF RInv, Captured, Counted
  <2> QED
    BY <2>6, <2>7
<1> QED
  BY <1>1, <1>3, <1>5

(* Its action, if it is one, is that of the next tool envelope.            *)
LEMMA ServedLemma ==
    ASSUME RInv, Matches, Envelope(cursor + 1).response # Unreadable
    PROVE  /\ ToolMatches(Envelope(cursor + 1).response)
           /\ tools[Len(executed) + 1].step = rstep
           /\ Len(executed) + 1 \in DOMAIN tools
<1>1. PICK i \in DOMAIN llm : Envelope(cursor + 1) = llm[i] /\ AskedAt(i, rstep)
  BY MatchLemma
<1>2. PICK j \in DOMAIN tools : tools[j].step = rstep /\ tools[j].action = llm[i].response
  BY <1>1 DEF AskedAt
<1>3. \A k \in DOMAIN tools : k <= Len(executed) <=> tools[k].step < rstep
  BY MatchLemma DEF RInv, Followed
<1>4. ~(j <= Len(executed)) /\ Len(executed) + 1 \in DOMAIN tools
  BY <1>2, <1>3, StateLemma
<1>5. j = Len(executed) + 1
  <2> SUFFICES ASSUME j # Len(executed) + 1 PROVE FALSE
    OBVIOUS
  <2>1. Len(executed) + 1 \in 1..(j - 1)
    BY <1>4, StateLemma
  <2>2. tools[Len(executed) + 1].step < tools[j].step
    BY <2>1 DEF RInv, Captured, InOrder
  <2>3. ~(tools[Len(executed) + 1].step < rstep)
    <3>1. ~(Len(executed) + 1 <= Len(executed))
      BY StateLemma
    <3> QED
      BY <1>3, <1>4, <3>1
  <2> QED
    BY <1>2, <2>2, <2>3
<1> QED
  BY <1>1, <1>2, <1>4, <1>5, StateLemma DEF ToolMatches

(* What the captured run left stays as it is.                              *)
LEMMA CapturedStays ==
    ASSUME Captured, UNCHANGED captured, phase # "capture", phase' # "capture"
    PROVE  Captured'
BY DEF captured, Captured, Counted, Asked, AskedAt, EditedBefore, InOrder, Ended

LEMMA ReplaySteps ==
    ASSUME RInv, ReplayUnreadable \/ ReplayAct \/ Diverge \/ ReplayEnds \/ UNCHANGED vars
    PROVE  RInv'
<1>1. CASE ReplayUnreadable
  <2>1. /\ Matches /\ phase = "replay" /\ rstep < MaxSteps /\ cursor < Len(llm)
        /\ rstep' = rstep + 1 /\ cursor' = cursor + 1 /\ rseen' = Append(rseen, NotParsed)
        /\ UNCHANGED <<phase, captured, executed>>
    BY <1>1 DEF ReplayUnreadable, Matches, Serve
  <2>2. NotParsed \in Observations /\ NotParsed # Mismatch
    BY ObservationsLemma
  <2>3. rseen' \in Seq(Observations) /\ Len(rseen') = rstep' /\ rseen'[rstep'] = NotParsed
    <3>1. rseen' \in Seq(Observations) /\ Len(rseen') = Len(rseen) + 1 /\ rseen'[Len(rseen) + 1] = NotParsed
      BY <2>1, <2>2, StateLemma, AppendLemma
    <3> QED
      BY <2>1, <3>1, StateLemma
  <2>4. TypeOK'
    BY <2>1, <2>3, StateLemma DEF RInv, TypeOK, captured
  <2>5. Captured'
    BY <2>1, CapturedStays DEF RInv
  <2>6. \A j \in DOMAIN tools : tools[j].step # rstep
    <3>1. PICK i \in DOMAIN llm : Envelope(cursor + 1) = llm[i] /\ AskedAt(i, rstep)
      BY <2>1, MatchLemma
    <3> QED
      BY <1>1, <3>1 DEF AskedAt, ReplayUnreadable
  <2>7. \A j \in DOMAIN tools : j <= Len(executed) <=> tools[j].step < rstep'
    BY <2>1, <2>6, StateLemma, MatchLemma, SMTT(30) DEF RInv, Followed
  <2>8. Followed'
    BY <2>1, <2>3, <2>7, StateLemma DEF RInv, Followed, captured
  <2> QED
    BY <2>4, <2>5, <2>8 DEF RInv
<1>2. CASE ReplayAct
  <2> DEFINE action == Envelope(cursor + 1).response
             m == Len(executed) + 1
             o == tools[m].observation
             t == [step |-> rstep, action |-> action, observation |-> o]
  <2>1. /\ Matches /\ phase = "replay" /\ rstep < MaxSteps /\ cursor < Len(llm)
        /\ rstep' = rstep + 1 /\ cursor' = cursor + 1 /\ rseen' = Append(rseen, o)
        /\ action # Unreadable /\ ToolMatches(action) /\ executed' = Append(executed, t)
        /\ phase' \in {"replay", "over"}
        /\ UNCHANGED captured
    BY <1>2 DEF ReplayAct, Matches, Serve
  <2>2. m \in DOMAIN tools /\ tools[m].step = rstep /\ tools[m].action = action
    BY <2>1, ServedLemma DEF ToolMatches
  <2>3. t = tools[m] /\ o \in Observations /\ t \in Executed
    <3>1. tools[m] \in Executed
      BY <2>2, StateLemma
    <3>2. \A x \in Executed : /\ x = [step |-> x.step, action |-> x.action, observation |-> x.observation]
                              /\ x.observation \in Observations
      BY DEF Executed
    <3> QED
      BY <2>2, <3>1, <3>2
  <2>4. o # Mismatch
    <3>1. tools[m].step < step /\ o = seen[rstep + 1]
      BY <2>2 DEF RInv, Captured, InOrder
    <3>2. rstep + 1 \in DOMAIN seen
      BY <2>2, <3>1, StateLemma
    <3> QED
      BY <3>1, <3>2 DEF RInv, Captured, Counted
  <2> HIDE DEF action, o, t
  <2>5. rseen' \in Seq(Observations) /\ Len(rseen') = rstep' /\ rseen'[rstep'] = o
    <3>1. rseen' \in Seq(Observations) /\ Len(rseen') = Len(rseen) + 1 /\ rseen'[Len(rseen) + 1] = o
      BY <2>1, <2>3, StateLemma, AppendLemma
    <3> QED
      BY <2>1, <3>1, StateLemma
  <2>6. /\ executed' \in Seq(Executed) /\ Len(executed') = m /\ DOMAIN executed' = 1..m
        /\ executed'[m] = t /\ \A j \in 1..Len(executed) : executed'[j] = executed[j]
    BY <2>1, <2>3, StateLemma, AppendLemma
  <2>7. TypeOK'
    <3>1. Len(executed') <= cursor' /\ cursor' \in 0..Len(llm)
      BY <2>1, <2>6, StateLemma DEF RInv, TypeOK
    <3> QED
      BY <2>1, <2>5, <2>6, <3>1, StateLemma DEF RInv, TypeOK, captured
  <2>8. Captured'
    BY <2>1, CapturedStays DEF RInv
  <2>9. \A j \in DOMAIN tools : j <= m <=> tools[j].step < rstep'
    <3>1. \A j \in DOMAIN tools : j <= Len(executed) <=> tools[j].step < rstep
      BY <2>1, MatchLemma DEF RInv, Followed
    <3>2. \A j \in DOMAIN tools : m < j => rstep < tools[j].step
      <4>1. \A j \in DOMAIN tools : m < j => m \in 1..(j - 1)
        BY StateLemma
      <4> QED
        BY <2>2, <4>1 DEF RInv, Captured, InOrder
    <3> QED
      BY <2>1, <2>2, <3>1, <3>2, StateLemma
  <2>10. \A j \in DOMAIN executed' : executed'[j] = tools[j]
    <3>1. \A j \in 1..m : j \in 1..Len(executed) \/ j = m
      BY StateLemma
    <3>2. \A j \in 1..Len(executed) : executed[j] = tools[j]
      BY StateLemma DEF RInv, Followed
    <3> QED
      BY <2>3, <2>6, <3>1, <3>2
  <2>11. Followed'
    BY <2>1, <2>2, <2>5, <2>6, <2>9, <2>10, StateLemma DEF Followed, captured
  <2> QED
    BY <2>7, <2>8, <2>11 DEF RInv
<1>3. CASE Diverge
  <2>1. /\ phase = "replay" /\ rstep < MaxSteps /\ rstep' = rstep + 1
        /\ rseen' = Append(rseen, Mismatch) /\ UNCHANGED <<phase, captured, cursor, executed>>
    BY <1>3 DEF Diverge
  <2>2. Mismatch \in Observations
    BY ObservationsLemma
  <2>3. rseen' \in Seq(Observations) /\ Len(rseen') = rstep' /\ rseen'[rstep'] = Mismatch
    <3>1. rseen' \in Seq(Observations) /\ Len(rseen') = Len(rseen) + 1 /\ rseen'[Len(rseen) + 1] = Mismatch
      BY <2>1, <2>2, StateLemma, AppendLemma
    <3> QED
      BY <2>1, <3>1, StateLemma
  <2>4. Diverged' /\ rstep' \in 0..MaxSteps
    BY <2>1, <2>3, StateLemma DEF Diverged
  <2>5. Captured'
    BY <2>1, CapturedStays DEF RInv
  <2> QED
    BY <2>1, <2>3, <2>4, <2>5 DEF RInv, TypeOK, Followed, captured
<1>4. CASE ReplayEnds
  <2>1. phase = "replay" /\ phase' = "over" /\ UNCHANGED <<captured, replayed>>
    BY <1>4 DEF ReplayEnds
  <2>2. Captured'
    BY <2>1, CapturedStays DEF RInv
  <2> QED
    BY <2>1, <2>2 DEF RInv, TypeOK, Followed, Diverged, captured, replayed
<1>5. CASE UNCHANGED vars
  BY <1>5 DEF vars, RInv, TypeOK, Captured, Counted, Asked, AskedAt, EditedBefore, InOrder, Ended,
      Followed, Diverged
<1> QED
  BY <1>1, <1>2, <1>3, <1>4, <1>5
-----------------------------------------------------------------------------

(* A quiet run is captured turn by turn, and asked the same again.         *)
LEMMA QuietMatch ==
    ASSUME RInv, Reproducing, Quiet, SameWorkspace, phase = "replay", rstep < MaxSteps
    PROVE  /\ Matches /\ rstep < step /\ step <= MaxSteps
           /\ Envelope(cursor + 1) = llm[rstep + 1] /\ AskedAt(rstep + 1, rstep)
<1>1. cursor = rstep /\ rstep < step /\ step <= MaxSteps /\ \A n \in DOMAIN rseen : rseen[n] = seen[n]
  BY ReplayAssumption, StateLemma DEF Reproducing, RInv, TypeOK
<1>2. Len(llm) = step
  BY StateLemma DEF Quiet, RInv, Captured, Counted
<1>3. rstep + 1 \in DOMAIN llm
  BY <1>1, <1>2, StateLemma
<1>4. \A i \in DOMAIN llm : llm[i].index = i - 1 /\ llm[i].request.step = i - 1
  BY DEF Quiet, RInv, Captured, Asked, AskedAt
<1>5. Envelope(cursor + 1) = llm[rstep + 1]
  <2>1. cursor + 1 \in 1..Len(llm)
    BY <1>1, <1>3, StateLemma
  <2> QED
    BY <1>1, <1>4, <2>1, QuietEnvelope DEF RInv
<1>6. AskedAt(rstep + 1, rstep)
  <2>1. AskedAt(rstep + 1, llm[rstep + 1].request.step)
    BY <1>3 DEF RInv, Captured, Asked
  <2>2. llm[rstep + 1].request.step = rstep
    BY <1>3, <1>4, StateLemma
  <2> QED
    BY <2>1, <2>2
<1>7. SubSeq(seen, 1, rstep) = rseen
  <2>1. SubSeq(seen, 1, rstep) = SubSeq(rseen, 1, rstep)
    BY <1>1, StateLemma, SamePrefix
  <2>2. SubSeq(rseen, 1, Len(rseen)) = rseen
    BY StateLemma, SubSeqFull
  <2> QED
    BY <2>1, <2>2, StateLemma
<1>8. EditedBefore(rstep) = (Kept /\ Modified(executed))
  <2>1. CASE Modifying = {}
    BY <2>1 DEF EditedBefore, Modified
  <2>2. CASE Kept
    <3>1. ~Diverged
      <4>1. rstep > 0 => rstep \in DOMAIN rseen /\ rstep \in DOMAIN seen
        BY <1>1, StateLemma
      <4> QED
        BY <1>1, <4>1 DEF Diverged, RInv, Captured, Counted
    <3>2. \A j \in DOMAIN tools : j <= Len(executed) <=> tools[j].step < rstep
      BY <3>1 DEF RInv, Followed
    <3>3. \A j \in DOMAIN executed : executed[j] = tools[j]
      BY DEF RInv, Followed
    <3>4. \A j \in DOMAIN tools : tools[j].step < rstep <=> j \in DOMAIN executed
      BY <3>2, StateLemma
    <3>5. DOMAIN executed \subseteq DOMAIN tools
      BY StateLemma
    <3> QED
      BY <2>2, <3>3, <3>4, <3>5 DEF EditedBefore, Modified
  <2> QED
    BY <2>1, <2>2 DEF SameWorkspace
<1>9. Envelope(cursor + 1).request = Request(rstep, rseen, Kept /\ Modified(executed))
  <2>1. llm[rstep + 1].request = [step |-> rstep, recent |-> Recent(SubSeq(seen, 1, rstep)),
                                  modified |-> EditedBefore(rstep)]
    BY <1>6 DEF AskedAt
  <2> QED
    BY <1>5, <1>7, <1>8, <2>1 DEF Request
<1>10. Matches
  BY <1>1, <1>2, <1>9, StateLemma DEF Matches
<1> QED
  BY <1>1, <1>5, <1>6, <1>10

(* A quiet turn of the replay: the same observation in the same turn, and  *)
(* it ends the replay just when it ended the captured run.                 *)
LEMMA QuietTurn ==
    ASSUME RInv, Reproducing, Quiet, rstep < step, rstep' = rstep + 1, cursor' = cursor + 1,
           rseen' = Append(rseen, seen[rstep + 1]), UNCHANGED captured,
           phase' \in {"replay", "over"},
           phase' = "replay" => rstep + 1 < step \/ step = MaxSteps,
           phase' = "over" => rstep + 1 = step
    PROVE  Reproducing'
<1>1. cursor' = rstep' /\ rstep' <= step' /\ step' = step /\ seen' = seen
  BY StateLemma DEF Reproducing, captured
<1>2. \A n \in DOMAIN rseen' : rseen'[n] = seen'[n]
  <2>1. rstep + 1 \in DOMAIN seen /\ seen[rstep + 1] \in Observations
    BY StateLemma
  <2>2. /\ DOMAIN rseen' = 1..(Len(rseen) + 1) /\ rseen'[Len(rseen) + 1] = seen[rstep + 1]
        /\ \A k \in 1..Len(rseen) : rseen'[k] = rseen[k]
    BY <2>1, StateLemma, AppendLemma
  <2>3. \A n \in 1..(rstep + 1) : n \in 1..rstep \/ n = rstep + 1
    BY StateLemma
  <2>4. \A n \in 1..rstep : rseen[n] = seen[n]
    BY StateLemma DEF Reproducing
  <2> QED
    BY <1>1, <2>2, <2>3, <2>4, StateLemma
<1> QED
  BY <1>1, <1>2 DEF Reproducing, captured

LEMMA QuietSteps ==
    ASSUME RInv, Reproducing, SameWorkspace,
           ReplayUnreadable \/ ReplayAct \/ Diverge \/ ReplayEnds \/ UNCHANGED vars
    PROVE  Reproducing'
<1>1. CASE ~Quiet /\ UNCHANGED captured
  BY <1>1 DEF Reproducing, Quiet, captured
<1>2. CASE Quiet /\ ReplayUnreadable
  <2>1. /\ phase = "replay" /\ phase' = phase /\ rstep < MaxSteps /\ Envelope(cursor + 1).response = Unreadable
        /\ rstep' = rstep + 1 /\ cursor' = cursor + 1 /\ rseen' = Append(rseen, NotParsed) /\ UNCHANGED captured
    BY <1>2 DEF ReplayUnreadable, Matches, Serve
  <2>2. /\ rstep < step /\ step <= MaxSteps /\ Envelope(cursor + 1) = llm[rstep + 1] /\ AskedAt(rstep + 1, rstep)
    BY <1>2, <2>1, QuietMatch
  <2>3. seen[rstep + 1] = NotParsed /\ \A j \in DOMAIN tools : tools[j].step # rstep
    BY <2>1, <2>2 DEF AskedAt
  <2>4. rstep + 1 < step \/ step = MaxSteps
    <3> SUFFICES ASSUME rstep + 1 = step, step < MaxSteps PROVE FALSE
      BY <2>2, StateLemma
    <3>1. PICK j \in DOMAIN tools : tools[j].step = step - 1
      BY <2>1 DEF RInv, Captured, Ended
    <3> QED
      BY <2>3, <3>1, StateLemma
  <2> QED
    BY <1>2, <2>1, <2>2, <2>3, <2>4, QuietTurn
<1>3. CASE Quiet /\ ReplayAct
  <2> DEFINE m == Len(executed) + 1
             o == tools[m].observation
  <2>1. /\ Matches /\ phase = "replay" /\ rstep < MaxSteps /\ Envelope(cursor + 1).response # Unreadable
        /\ rstep' = rstep + 1 /\ cursor' = cursor + 1 /\ rseen' = Append(rseen, o) /\ UNCHANGED captured
        /\ phase' = IF o = Verified THEN "over" ELSE phase
    BY <1>3 DEF ReplayAct, Matches, Serve
  <2>2. rstep < step /\ step <= MaxSteps
    BY <1>3, <2>1, QuietMatch
  <2>3. m \in DOMAIN tools /\ tools[m].step = rstep
    BY <2>1, ServedLemma
  <2>4. o = seen[rstep + 1] /\ (o = Verified => rstep = step - 1)
    BY <2>3 DEF RInv, Captured, InOrder
  <2>5. o # Verified => rstep + 1 < step \/ step = MaxSteps
    <3> SUFFICES ASSUME rstep + 1 = step, step < MaxSteps PROVE o = Verified
      BY <2>2, StateLemma
    <3>1. PICK j \in DOMAIN tools : tools[j].step = step - 1 /\ tools[j].observation = Verified
      BY <2>1 DEF RInv, Captured, Ended
    <3>2. tools[j].step = tools[m].step /\ tools[m].step \in Nat
      BY <2>3, <3>1, StateLemma
    <3>3. ~(m < j) /\ ~(j < m)
      <4>1. (m < j => m \in 1..(j - 1)) /\ (j < m => j \in 1..(m - 1))
        BY <2>3, StateLemma
      <4>2. (m < j => tools[m].step < tools[j].step) /\ (j < m => tools[j].step < tools[m].step)
        BY <2>3, <4>1 DEF RInv, Captured, InOrder
      <4> QED
        BY <3>2, <4>2
    <3>4. j = m
      BY <2>3, <3>3, StateLemma
    <3> QED
      BY <3>1, <3>4
  <2> HIDE DEF o, m
  <2> QED
    BY <1>3, <2>1, <2>2, <2>4, <2>5, StateLemma, QuietTurn
<1>4. CASE Quiet /\ Diverge
  BY <1>4, QuietMatch DEF Diverge
<1>5. CASE Quiet /\ ReplayEnds
  BY <1>5, StateLemma DEF ReplayEnds, Reproducing, captured, replayed, RInv, TypeOK
<1>6. CASE UNCHANGED vars
  BY <1>6 DEF Reproducing, Quiet, vars
<1> QED
  BY <1>1, <1>2, <1>3, <1>4, <1>5, <1>6
    DEF ReplayUnreadable, ReplayAct, Diverge, ReplayEnds, vars, captured
-----------------------------------------------------------------------------

LEMMA InitInv == Init => RInv /\ Reproducing
<1> SUFFICES ASSUME Init PROVE RInv /\ Reproducing
  OBVIOUS
<1>1. TypeOK /\ Followed
  BY ReplayAssumption DEF Init, TypeOK, Followed
<1>2. Captured
  BY FS_EmptySet DEF Init, Captured, Counted, Asked, InOrder, Ended
<1>3. Reproducing
  BY DEF Init, Reproducing
<1> QED
  BY <1>1, <1>2, <1>3 DEF RInv

LEMMA NextInv ==
    ASSUME RInv, [Next]_vars
    PROVE  RInv' /\ (SameWorkspace /\ Reproducing => Reproducing')
<1>1. CASE CallRaises \/ AnswerUnreadable \/ Act \/ CaptureEnds
  BY <1>1, CaptureSteps
<1>2. CASE ReplayUnreadable \/ ReplayAct \/ Diverge \/ ReplayEnds \/ UNCHANGED vars
  BY <1>2, ReplaySteps, QuietSteps
<1> QED
  BY <1>1, <1>2 DEF Next, Done

(* The invariant of captures and replays holds at every step.              *)
THEOREM AlwaysRInv == Spec => []RInv
<1>1. RInv /\ [Next]_vars => RInv'
  BY NextInv
<1> QED
  BY <1>1, InitInv, PTL DEF Spec

(* A replay executes a prefix of what was executed, the same actions in    *)
(* the same turns with the same outcomes, and an action that is served     *)
(* finds its tool envelope: with any number of adapters in one log, any    *)
(* failed calls, and with or without a workspace.                          *)
THEOREM ReplayFollows == Spec => [](ReplayIsPrefix /\ StreamsAgree)
<1>1. RInv => ReplayIsPrefix /\ StreamsAgree
  <2> SUFFICES ASSUME RInv PROVE ReplayIsPrefix /\ StreamsAgree
    OBVIOUS
  <2>1. SubSeq(executed, 1, Len(executed)) = SubSeq(tools, 1, Len(executed))
    <3>1. \A k \in 1..Len(executed) : executed[k] = tools[k]
      BY StateLemma DEF RInv, Followed
    <3> QED
      BY <3>1, StateLemma, SamePrefix
  <2> QED
    BY <2>1, StateLemma, ServedLemma DEF ReplayIsPrefix, IsPrefix, StreamsAgree
<1> QED
  BY <1>1, AlwaysRInv, PTL

(* A replay in a workspace like the captured run's, or of a run that       *)
(* cannot edit, is faithful: what a quiet run did comes out whole.         *)
THEOREM ReplayAlwaysFaithful == ASSUME SameWorkspace PROVE Spec => []ReplayIsFaithful
<1>1. RInv /\ Reproducing /\ [Next]_vars => (RInv /\ Reproducing)'
  BY NextInv
<1>2. RInv /\ Reproducing => TypeOK /\ QuietRunReproduced
  <2> SUFFICES ASSUME RInv, Reproducing, phase = "over", Quiet
               PROVE  Reproduced
    BY DEF RInv, QuietRunReproduced, Quiet
  <2>1. /\ rstep = step /\ cursor = step /\ \A n \in DOMAIN rseen : rseen[n] = seen[n]
    BY DEF Reproducing
  <2>2. cursor = Len(llm)
    BY <2>1, StateLemma DEF Quiet, RInv, Captured, Counted
  <2>3. rseen = seen
    BY <2>1, StateLemma
  <2>4. ~Diverged
    BY <2>1, <2>3, StateLemma DEF Diverged, RInv, Captured, Counted
  <2>5. \A j \in DOMAIN tools : j <= Len(executed)
    BY <2>1, <2>4 DEF RInv, Followed, Captured, InOrder
  <2>6. Len(executed) = Len(tools)
    <3>1. Len(tools) > 0 => Len(tools) \in DOMAIN tools
      BY StateLemma
    <3>2. Len(tools) > 0 => Len(tools) <= Len(executed)
      BY <2>5, <3>1
    <3>3. Len(tools) \in Nat /\ Len(executed) \in Nat /\ Len(executed) <= Len(tools)
      BY StateLemma
    <3> QED
      BY <3>2, <3>3
  <2>7. executed = tools
    <3>1. \A j \in DOMAIN executed : executed[j] = tools[j]
      BY DEF RInv, Followed
    <3> QED
      BY <2>6, <3>1, StateLemma
  <2> QED
    BY <2>2, <2>3, <2>7 DEF Reproduced
<1> QED
  BY <1>1, <1>2, InitInv, AlwaysRInv, ReplayFollows, PTL DEF Spec, ReplayIsFaithful
=============================================================================
