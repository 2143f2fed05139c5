------------------------- MODULE GaugeProbe_proofs --------------------------
(***************************************************************************)
(* Proofs about the event log of the ledger, the gauge probe that reads    *)
(* it, the search over the knobs of the harness, and the probes of the     *)
(* contamination slice.                                                    *)
(*                                                                         *)
(* The state a log comes to is a fold over its events.  What the first     *)
(* part proves is how the fold answers to one event more, to a prefix and  *)
(* to a rewriting, and with it that every way to ask a log gives the same  *)
(* answer; the second, that the verdict of the probe says what the         *)
(* commitment owes; the third, by the invariant SInv, that the search      *)
(* promotes the best point; the fourth, by the invariant SliceInv, that    *)
(* the contamination probes tell the two policies apart.                   *)
(***************************************************************************)
EXTENDS Contamination, Autoresearch, Naturals_proofs

(* The ledgers a log may come to, and the events, those of a ledger put    *)
(* back into a log included.                                               *)
Cell == [Fields -> Values \cup {None, 0, 1}]
Ledgers == UNION {[D -> Cell] : D \in SUBSET Ids}
Parts == UNION {[D -> Values \cup {None, 0, 1}] : D \in SUBSET Fields}
AnyEvent == [type : {"declare", "revise", "add_surface", "note"},
             id : Ids \cup {None}, payloadId : Ids \cup {None}, payload : Parts]

Folded(e) == e.type \notin {"note", "add_surface"} /\ EventId(e) # None

LEMMA LedgersLemma ==
    ASSUME NEW p
    PROVE  p \in Ledgers <=> /\ p = [i \in DOMAIN p |-> p[i]] /\ DOMAIN p \subseteq Ids
                             /\ \A i \in DOMAIN p : p[i] \in Cell
<1>1. ASSUME p \in Ledgers
      PROVE  /\ p = [i \in DOMAIN p |-> p[i]] /\ DOMAIN p \subseteq Ids
             /\ \A i \in DOMAIN p : p[i] \in Cell
  <2>1. PICK D \in SUBSET Ids : p \in [D -> Cell]
    BY <1>1 DEF Ledgers
  <2> QED
    BY <2>1
<1>2. ASSUME p = [i \in DOMAIN p |-> p[i]], DOMAIN p \subseteq Ids,
             \A i \in DOMAIN p : p[i] \in Cell
      PROVE  p \in Ledgers
  <2>1. p \in [DOMAIN p -> Cell]
    BY <1>2
  <2> QED
    BY <1>2, <2>1 DEF Ledgers
<1> QED
  BY <1>1, <1>2

LEMMA EventLemma ==
    ASSUME NEW e \in AnyEvent
    PROVE  /\ e.type \in {"declare", "revise", "add_surface", "note"}
           /\ EventId(e) \in Ids \cup {None}
           /\ DOMAIN e.payload \subseteq Fields
           /\ \A f \in DOMAIN e.payload : e.payload[f] \in Values \cup {None, 0, 1}
<1>1. e.payload \in Parts
  BY DEF AnyEvent
<1>2. PICK D \in SUBSET Fields : e.payload \in [D -> Values \cup {None, 0, 1}]
  BY <1>1 DEF Parts
<1> QED
  BY <1>2 DEF AnyEvent, EventId

(* Whatever may be appended is an event.                                   *)
LEMMA EventIsAny == Event \subseteq AnyEvent
<1> SUFFICES ASSUME NEW e \in Event PROVE e \in AnyEvent
  OBVIOUS
<1>1. e.payload \in Payloads
  BY DEF Event
<1>2. e.payload \in Parts
  <2>1. CASE e.payload = <<>>
    <3>1. <<>> \in [{} -> Values \cup {None, 0, 1}]
      OBVIOUS
    <3> QED
      BY <2>1, <3>1 DEF Parts
  <2>2. CASE e.payload \in [{"value"} -> Values \cup {None}]
    <3>1. e.payload \in [{"value"} -> Values \cup {None, 0, 1}]
      BY <2>2
    <3> QED
      BY <3>1 DEF Parts, Fields, Compared
  <2>3. CASE e.payload \in [{"proxy_risks"} -> {0, 1}]
    <3>1. e.payload \in [{"proxy_risks"} -> Values \cup {None, 0, 1}]
      BY <2>3
    <3> QED
      BY <3>1 DEF Parts, Fields, Compared
  <2>4. CASE e.payload \in [value : Values \cup {None}, proxy_risks : {0}]
    <3>1. e.payload \in [{"value", "proxy_risks"} -> Values \cup {None, 0, 1}]
      BY <2>4
    <3> QED
      BY <3>1 DEF Parts, Fields, Compared
  <2> QED
    BY <1>1, <2>1, <2>2, <2>3, <2>4 DEF Payloads
<1>3. e = [type |-> e.type, id |-> e.id, payloadId |-> e.payloadId, payload |-> e.payload]
      /\ e.type \in {"declare", "revise", "add_surface", "note"}
      /\ e.id \in Ids \cup {None} /\ e.payloadId \in Ids \cup {None}
  BY DEF Event
<1> QED
  BY <1>2, <1>3 DEF AnyEvent

(* What one event makes of a ledger.                                       *)
LEMMA FoldLemma ==
    ASSUME NEW e \in AnyEvent, NEW p \in Ledgers
    PROVE  /\ Fold(e, p) \in Ledgers
           /\ ~Folded(e) => Fold(e, p) = p
           /\ Folded(e) =>
                /\ DOMAIN Fold(e, p) = DOMAIN p \cup {EventId(e)}
                /\ \A j \in DOMAIN p : j # EventId(e) => Fold(e, p)[j] = p[j]
                /\ \A f \in Fields :
                    Fold(e, p)[EventId(e)][f] =
                        IF f \in DOMAIN e.payload THEN e.payload[f]
                        ELSE IF EventId(e) \in DOMAIN p THEN p[EventId(e)][f] ELSE Default[f]
<1>1. CASE ~Folded(e)
  BY <1>1 DEF Fold, Folded
<1>2. CASE Folded(e)
  <2> DEFINE i == EventId(e)
             old == IF i \in DOMAIN p THEN p[i] ELSE Default
             cell == Over(e.payload, old)
             q == Over([id \in {i} |-> cell], p)
  <2>1. Fold(e, p) = q
    BY <1>2 DEF Fold, Folded, Declared
  <2>2. i \in Ids
    BY <1>2, EventLemma DEF Folded
  <2>3. old \in Cell
    <3>1. Default \in Cell
      BY DEF Default, Cell, Fields, Compared
    <3> QED
      BY <3>1, LedgersLemma
  <2>4. cell = [f \in Fields |-> IF f \in DOMAIN e.payload THEN e.payload[f] ELSE old[f]]
    <3>1. DOMAIN old = Fields
      BY <2>3 DEF Cell
    <3>2. DOMAIN e.payload \cup DOMAIN old = Fields
      BY <3>1, EventLemma
    <3> HIDE DEF old
    <3> QED
      BY <3>2 DEF Over
  <2>5. cell \in Cell
    <3>1. \A f \in Fields : (IF f \in DOMAIN e.payload THEN e.payload[f] ELSE old[f])
                                \in Values \cup {None, 0, 1}
      BY <2>3, EventLemma DEF Cell
    <3> HIDE DEF cell, old
    <3> QED
      BY <2>4, <3>1 DEF Cell
  <2> HIDE DEF cell
  <2>6. q = [x \in DOMAIN p \cup {i} |-> IF x = i THEN cell ELSE p[x]]
    <3> HIDE DEF i
    <3> QED
      BY DEF Over
  <2>7. q \in Ledgers
    <3>1. /\ DOMAIN q \subseteq Ids /\ q = [x \in DOMAIN q |-> q[x]]
          /\ \A x \in DOMAIN q : q[x] \in Cell
      <4>1. DOMAIN p \subseteq Ids /\ \A x \in DOMAIN p : p[x] \in Cell
        BY LedgersLemma
      <4> HIDE DEF q
      <4> QED
        BY <2>2, <2>5, <2>6, <4>1
    <3> HIDE DEF q
    <3> QED
      BY <3>1, LedgersLemma
  <2>8. /\ DOMAIN q = DOMAIN p \cup {i}
        /\ \A j \in DOMAIN p : j # i => q[j] = p[j]
        /\ q[i] = cell
    <3> HIDE DEF q
    <3> QED
      BY <2>6
  <2>9. \A f \in Fields :
            q[i][f] = IF f \in DOMAIN e.payload THEN e.payload[f]
                      ELSE IF i \in DOMAIN p THEN p[i][f] ELSE Default[f]
    <3> HIDE DEF q
    <3> QED
      BY <2>4, <2>8
  <2> HIDE DEF q, i
  <2> QED
    BY <1>2, <2>1, <2>7, <2>8, <2>9 DEF i
<1> QED
  BY <1>1, <1>2

(* The projections of a log follow its events.                             *)
LEMMA ProjectionsLemma ==
    ASSUME NEW evs \in Seq(AnyEvent)
    PROVE  /\ Projections(evs) \in [0..Len(evs) -> Ledgers]
           /\ Projections(evs)[0] = <<>>
           /\ \A n \in 1..Len(evs) :
                Projections(evs)[n] = Fold(evs[n], Projections(evs)[n - 1])
<1> DEFINE N == Len(evs)
           step == [x \in (1..N) \X Ledgers |-> Fold(evs[x[1]], x[2])]
           Is(f) == f = [n \in 0..N |-> IF n = 0 THEN <<>> ELSE Fold(evs[n], f[n - 1])]
<1>1. N \in Nat /\ \A n \in 1..N : evs[n] \in AnyEvent
  OBVIOUS
<1>2. <<>> \in Ledgers
  <2>1. <<>> \in [{} -> Cell]
    OBVIOUS
  <2> QED
    BY <2>1 DEF Ledgers
<1>3. step \in [(1..N) \X Ledgers -> Ledgers]
  BY <1>1, FoldLemma
<1>4. PICK g : Computes(g, Ledgers, <<>>, step, N)
  <2> HIDE DEF step, N
  <2> QED
    BY <1>1, <1>2, <1>3, Recursion
<1>5. g \in [0..N -> Ledgers] /\ g[0] = <<>>
  BY <1>4 DEF Computes
<1>6. \A n \in 1..N : g[n] = Fold(evs[n], g[n - 1])
  <2> SUFFICES ASSUME NEW n \in 1..N PROVE g[n] = Fold(evs[n], g[n - 1])
    OBVIOUS
  <2>1. n - 1 \in 0..N
    BY <1>1
  <2>2. <<n, g[n - 1]>> \in (1..N) \X Ledgers
    BY <1>5, <2>1
  <2>3. step[<<n, g[n - 1]>>] = Fold(evs[n], g[n - 1])
    BY <2>2
  <2>4. g[n] = step[<<n, g[n - 1]>>]
    BY <1>4 DEF Computes
  <2> QED
    BY <2>3, <2>4
<1>7. Is(g)
  <2> HIDE DEF N
  <2>1. \A n \in 0..N : n # 0 => n \in 1..N
    BY <1>1
  <2> QED
    BY <1>5, <1>6, <2>1
<1>8. Projections(evs) = CHOOSE f : Is(f)
  BY DEF Projections
<1>9. Is(Projections(evs))
  <2> HIDE DEF Is
  <2> QED
    BY <1>7, <1>8
<1>10. ASSUME NEW h, Is(h) PROVE h = g
  <2> DEFINE S == {n \in 0..N : h[n] = g[n]}
  <2>1. 0 \in S
    BY <1>1, <1>5, <1>10
  <2>2. ASSUME NEW n \in 1..N, n - 1 \in S PROVE n \in S
    BY <1>1, <1>6, <1>10, <2>2
  <2>3. \A n \in 0..N : n \in S
    <3> HIDE DEF S, N
    <3> QED
      BY <1>1, <2>1, <2>2, InductUpTo
  <2> QED
    BY <1>5, <1>10, <2>3
<1> QED
  BY <1>5, <1>6, <1>9, <1>10, SMTT(30)
-----------------------------------------------------------------------------
(***************************************************************************)
(* What follows for the state of a log: of one, of a part of it, and of    *)
(* two that began alike.                                                   *)
(***************************************************************************)

(* Logs that begin alike have the same projections as far as they do.      *)
LEMMA PrefixLemma ==
    ASSUME NEW s \in Seq(AnyEvent), NEW t \in Seq(AnyEvent), NEW N \in Nat,
           N <= Len(s), N <= Len(t), \A n \in 1..N : s[n] = t[n]
    PROVE  \A n \in 0..N : Projections(s)[n] = Projections(t)[n]
<1> DEFINE S == {n \in 0..N : Projections(s)[n] = Projections(t)[n]}
<1>1. 0 \in S
  BY ProjectionsLemma
<1>2. ASSUME NEW n \in 1..N, n - 1 \in S PROVE n \in S
  <2>1. n \in 1..Len(s) /\ n \in 1..Len(t) /\ s[n] = t[n]
    OBVIOUS
  <2> QED
    BY <1>2, <2>1, ProjectionsLemma
<1>3. \A n \in 0..N : n \in S
  <2> HIDE DEF S
  <2> QED
    BY <1>1, <1>2, InductUpTo
<1> QED
  BY <1>3

LEMMA SubSeqLemma ==
    ASSUME NEW s \in Seq(AnyEvent), NEW n \in 0..Len(s)
    PROVE  /\ SubSeq(s, 1, n) \in Seq(AnyEvent) /\ Len(SubSeq(s, 1, n)) = n
           /\ \A k \in 1..n : SubSeq(s, 1, n)[k] = s[k]
           /\ Project(SubSeq(s, 1, n)) = Projections(s)[n]
<1>1. /\ SubSeq(s, 1, n) \in Seq(AnyEvent) /\ Len(SubSeq(s, 1, n)) = n
      /\ \A k \in 1..n : SubSeq(s, 1, n)[k] = s[k]
  OBVIOUS
<1>2. n \in Nat /\ n <= Len(s) /\ n \in 0..n
  OBVIOUS
<1> DEFINE t == SubSeq(s, 1, n)
<1>3. Projections(t)[n] = Projections(s)[n]
  <2>1. t \in Seq(AnyEvent) /\ Len(t) = n /\ \A k \in 1..n : t[k] = s[k]
    BY <1>1
  <2> HIDE DEF t
  <2> QED
    BY <1>2, <2>1, PrefixLemma
<1> QED
  BY <1>1, <1>3 DEF Project

(* The events that set a field of a variable.                              *)
Sets(e, id, field) ==
    e.type \in {"declare", "revise"} /\ EventId(e) = id /\ field \in DOMAIN e.payload

Setting(evs, n, id, field) == {k \in 1..n : Sets(evs[k], id, field)}

Newest(S, m) == m \in S /\ \A k \in S : k <= m

LEMMA MaxIs ==
    ASSUME NEW S, S \subseteq Int, NEW m, Newest(S, m)
    PROVE  Max(S) = m
<1>1. \A x \in S : (\A y \in S : x >= y) => x = m
  BY DEF Newest
<1>2. m \in S /\ \A y \in S : m >= y
  BY DEF Newest
<1> QED
  BY <1>1, <1>2 DEF Max

(* A field is what an event makes of it that sets it, and what it was      *)
(* otherwise.                                                              *)
LEMMA FieldStep ==
    ASSUME NEW e \in AnyEvent, NEW p \in Ledgers, NEW id \in Ids, NEW field \in Fields
    PROVE  LET q == Fold(e, p) IN
           /\ id \in DOMAIN p => id \in DOMAIN q
           /\ id \in DOMAIN q \ DOMAIN p => EventId(e) = id /\ e.type \in {"declare", "revise"}
           /\ Sets(e, id, field) => id \in DOMAIN q /\ q[id][field] = e.payload[field]
           /\ ~Sets(e, id, field) =>
                /\ id \in DOMAIN p => q[id][field] = p[id][field]
                /\ id \in DOMAIN q \ DOMAIN p => q[id][field] = Default[field]
<1> DEFINE q == Fold(e, p)
<1>1. id # None /\ e.type \in {"declare", "revise", "add_surface", "note"}
  BY NoneAssumption, EventLemma
<1>4. /\ ~Folded(e) => q = p
      /\ Folded(e) =>
            /\ DOMAIN q = DOMAIN p \cup {EventId(e)}
            /\ \A j \in DOMAIN p : j # EventId(e) => q[j] = p[j]
            /\ q[EventId(e)][field] =
                    IF field \in DOMAIN e.payload THEN e.payload[field]
                    ELSE IF EventId(e) \in DOMAIN p THEN p[EventId(e)][field]
                    ELSE Default[field]
  BY FoldLemma
<1> HIDE DEF q
<1>2. CASE ~(Folded(e) /\ EventId(e) = id)
  <2>1. ~Sets(e, id, field)
    BY <1>1, <1>2 DEF Sets, Folded
  <2>2. CASE ~Folded(e)
    BY <1>4, <2>1, <2>2 DEF q
  <2>3. CASE Folded(e) /\ EventId(e) # id
    <3>1. /\ id \in DOMAIN q <=> id \in DOMAIN p
          /\ id \in DOMAIN p => q[id] = p[id]
      BY <1>4, <2>3
    <3> QED
      BY <2>1, <3>1 DEF q
  <2> QED
    BY <1>2, <2>2, <2>3
<1>3. CASE Folded(e) /\ EventId(e) = id
  <2>1. e.type \in {"declare", "revise"}
    BY <1>1, <1>3 DEF Folded
  <2>2. Sets(e, id, field) <=> field \in DOMAIN e.payload
    BY <1>3, <2>1 DEF Sets
  <2>3. /\ DOMAIN q = DOMAIN p \cup {id}
        /\ q[id][field] = IF field \in DOMAIN e.payload THEN e.payload[field]
                          ELSE IF id \in DOMAIN p THEN p[id][field] ELSE Default[field]
    BY <1>3, <1>4
  <2>4. /\ id \in DOMAIN q
        /\ Sets(e, id, field) => q[id][field] = e.payload[field]
        /\ ~Sets(e, id, field) =>
                /\ id \in DOMAIN p => q[id][field] = p[id][field]
                /\ id \notin DOMAIN p => q[id][field] = Default[field]
    BY <2>2, <2>3
  <2> QED
    BY <1>3, <2>1, <2>4 DEF q
<1> QED
  BY <1>2, <1>3

(* A field is what the last event that set it made of it.                  *)
LEMMA FieldLemma ==
    ASSUME NEW s \in Seq(AnyEvent), NEW id \in Ids, NEW field \in Fields
    PROVE  \A n \in 0..Len(s) :
              /\ id \notin DOMAIN Projections(s)[n] => Setting(s, n, id, field) = {}
              /\ id \in DOMAIN Projections(s)[n] /\ Setting(s, n, id, field) = {}
                    => Projections(s)[n][id][field] = Default[field]
              /\ Setting(s, n, id, field) # {} =>
                    \E m : /\ Newest(Setting(s, n, id, field), m)
                           /\ Projections(s)[n][id][field] = s[m].payload[field]
<1> DEFINE P(n) == Projections(s)[n]
           Set(n) == Setting(s, n, id, field)
           Explained(n) ==
              /\ id \notin DOMAIN P(n) => Set(n) = {}
              /\ id \in DOMAIN P(n) /\ Set(n) = {} => P(n)[id][field] = Default[field]
              /\ Set(n) # {} => \E m : Newest(Set(n), m) /\ P(n)[id][field] = s[m].payload[field]
           S == {n \in 0..Len(s) : Explained(n)}
<1>1. 0 \in S
  <2>1. Set(0) = {} /\ DOMAIN P(0) = {}
    BY ProjectionsLemma DEF Setting
  <2> QED
    BY <2>1
<1>2. ASSUME NEW n \in 1..Len(s), n - 1 \in S PROVE n \in S
  <2> DEFINE e == s[n]
             p == P(n - 1)
             q == P(n)
             old == Set(n - 1)
             set == Set(n)
  <2>1. e \in AnyEvent /\ p \in Ledgers /\ q = Fold(e, p)
    <3>1. n - 1 \in 0..Len(s)
      OBVIOUS
    <3> QED
      BY <3>1, ProjectionsLemma
  <2>2. /\ id \notin DOMAIN p => old = {}
        /\ id \in DOMAIN p /\ old = {} => p[id][field] = Default[field]
        /\ old # {} => \E m : Newest(old, m) /\ p[id][field] = s[m].payload[field]
    BY <1>2
  <2>3. set = IF Sets(e, id, field) THEN old \cup {n} ELSE old
    <3>1. 1..n = (1..(n - 1)) \cup {n}
      OBVIOUS
    <3> QED
      BY <3>1 DEF Setting
  <2>4. \A k \in old : k \in Nat /\ k < n
    BY DEF Setting
  <2>5. /\ id \notin DOMAIN q => set = {}
        /\ id \in DOMAIN q /\ set = {} => q[id][field] = Default[field]
        /\ set # {} => \E m : Newest(set, m) /\ q[id][field] = s[m].payload[field]
    <3> HIDE DEF P, S, Explained, Set, p, q, set, old
    <3>1. CASE Sets(e, id, field)
      <4>1. Newest(set, n)
        BY <2>3, <2>4, <3>1 DEF Newest
      <4>2. id \in DOMAIN q /\ q[id][field] = e.payload[field]
        BY <2>1, <3>1, FieldStep
      <4> QED
        BY <4>1, <4>2 DEF Newest
    <3>2. CASE ~Sets(e, id, field)
      <4>1. set = old
        BY <2>3, <3>2
      <4>2. /\ id \in DOMAIN p => id \in DOMAIN q /\ q[id][field] = p[id][field]
            /\ id \in DOMAIN q /\ id \notin DOMAIN p => q[id][field] = Default[field]
        BY <2>1, <3>2, FieldStep
      <4> QED
        BY <2>2, <4>1, <4>2
    <3> QED
      BY <3>1, <3>2
  <2> HIDE DEF p, q, set, old
  <2>6. Explained(n)
    BY <2>5 DEF q, set
  <2> QED
    BY <2>6
<1>3. \A n \in 0..Len(s) : n \in S
  <2> HIDE DEF S
  <2> QED
    BY <1>1, <1>2, InductUpTo, SMTT(30)
<1> QED
  BY <1>3

(* The lineage of a variable follows the events.                           *)
LEMMA LineagesLemma ==
    ASSUME NEW s \in Seq(AnyEvent), NEW id
    PROVE  /\ Lineages(s, id) \in [0..Len(s) -> Seq(AnyEvent)]
           /\ Lineages(s, id)[0] = <<>>
           /\ \A n \in 1..Len(s) :
                Lineages(s, id)[n] = IF s[n].id = id THEN Append(Lineages(s, id)[n - 1], s[n])
                                     ELSE Lineages(s, id)[n - 1]
<1> DEFINE N == Len(s)
           V == Seq(AnyEvent)
           step == [x \in (1..N) \X V |-> IF s[x[1]].id = id THEN Append(x[2], s[x[1]]) ELSE x[2]]
           Is(f) == f = [n \in 0..N |-> IF n = 0 THEN <<>>
                                        ELSE IF s[n].id = id THEN Append(f[n - 1], s[n])
                                        ELSE f[n - 1]]
<1>1. N \in Nat /\ \A n \in 1..N : s[n] \in AnyEvent
  OBVIOUS
<1>2. <<>> \in V
  OBVIOUS
<1>3. step \in [(1..N) \X V -> V]
  BY <1>1
<1>4. PICK g : Computes(g, V, <<>>, step, N)
  <2> HIDE DEF step, N, V
  <2> QED
    BY <1>1, <1>2, <1>3, Recursion
<1>5. g \in [0..N -> V] /\ g[0] = <<>>
  BY <1>4 DEF Computes
<1>6. \A n \in 1..N : g[n] = IF s[n].id = id THEN Append(g[n - 1], s[n]) ELSE g[n - 1]
  <2> SUFFICES ASSUME NEW n \in 1..N
               PROVE  g[n] = IF s[n].id = id THEN Append(g[n - 1], s[n]) ELSE g[n - 1]
    OBVIOUS
  <2>1. <<n, g[n - 1]>> \in (1..N) \X V
    BY <1>1, <1>5
  <2>2. step[<<n, g[n - 1]>>] = IF s[n].id = id THEN Append(g[n - 1], s[n]) ELSE g[n - 1]
    BY <2>1
  <2>3. g[n] = step[<<n, g[n - 1]>>]
    BY <1>4 DEF Computes
  <2> QED
    BY <2>2, <2>3
<1>7. Is(g)
  <2> HIDE DEF N, V
  <2>1. \A n \in 0..N : n # 0 => n \in 1..N
    BY <1>1
  <2> QED
    BY <1>5, <1>6, <2>1
<1>8. Lineages(s, id) = CHOOSE f : Is(f)
  BY DEF Lineages
<1>9. Is(Lineages(s, id))
  <2> HIDE DEF Is
  <2> QED
    BY <1>7, <1>8
<1>10. ASSUME NEW h, Is(h) PROVE h = g
  <2> DEFINE S == {n \in 0..N : h[n] = g[n]}
  <2>1. 0 \in S
    BY <1>1, <1>5, <1>10
  <2>2. ASSUME NEW n \in 1..N, n - 1 \in S PROVE n \in S
    <3>1. n \in 0..N /\ n - 1 \in 0..N /\ n # 0
      BY <1>1
    <3>2. h[n - 1] = g[n - 1]
      BY <2>2
    <3>3. h[n] = IF s[n].id = id THEN Append(h[n - 1], s[n]) ELSE h[n - 1]
      BY <1>10, <3>1
    <3>4. h[n] = g[n]
      BY <1>6, <3>2, <3>3
    <3> QED
      BY <3>1, <3>4
  <2>3. \A n \in 0..N : n \in S
    <3> HIDE DEF S, N
    <3> QED
      BY <1>1, <2>1, <2>2, InductUpTo
  <2> QED
    BY <1>5, <1>10, <2>3
<1>11. Lineages(s, id) = g
  <2> HIDE DEF Is
  <2> QED
    BY <1>9, <1>10
<1> QED
  BY <1>5, <1>6, <1>11

(* The places of a lineage that set a field.                               *)
Setters(l, field) == {k \in 1..Len(l) : l[k].type \in {"declare", "revise"}
                                     /\ field \in DOMAIN l[k].payload}

(* Where every event that set a field named the variable, the last of them *)
(* is the last of the lineage that set it.                                 *)
LEMMA LineageLemma ==
    ASSUME NEW s \in Seq(AnyEvent), NEW id \in Ids, NEW field \in Fields
    PROVE  \A n \in 0..Len(s) :
              LET set == Setting(s, n, id, field)
                  l == Lineages(s, id)[n]
              IN (\A k \in set : s[k].id = id) /\ set # {} =>
                    \E m, t : /\ Newest(set, m) /\ Newest(Setters(l, field), t)
                              /\ l[t].payload[field] = s[m].payload[field]
<1> DEFINE L(n) == Lineages(s, id)[n]
           Set(n) == Setting(s, n, id, field)
           Agree(n) == (\A k \in Set(n) : s[k].id = id) /\ Set(n) # {} =>
                         \E m, t : /\ Newest(Set(n), m) /\ Newest(Setters(L(n), field), t)
                                   /\ L(n)[t].payload[field] = s[m].payload[field]
           S == {n \in 0..Len(s) : Agree(n)}
<1>1. 0 \in S
  BY DEF Setting
<1>2. ASSUME NEW n \in 1..Len(s), n - 1 \in S PROVE n \in S
  <2> DEFINE e == s[n]
             l == L(n - 1)
             r == L(n)
             old == Set(n - 1)
             set == Set(n)
  <2>1. /\ e \in AnyEvent /\ l \in Seq(AnyEvent)
        /\ r = IF e.id = id THEN Append(l, e) ELSE l
    <3>1. n - 1 \in 0..Len(s)
      OBVIOUS
    <3> QED
      BY <3>1, LineagesLemma
  <2>2. (\A k \in old : s[k].id = id) /\ old # {} =>
            \E m, t : /\ Newest(old, m) /\ Newest(Setters(l, field), t)
                      /\ l[t].payload[field] = s[m].payload[field]
    BY <1>2
  <2>3. set = IF Sets(e, id, field) THEN old \cup {n} ELSE old
    <3>1. 1..n = (1..(n - 1)) \cup {n}
      OBVIOUS
    <3> QED
      BY <3>1 DEF Setting
  <2>4. \A k \in old : k \in Nat /\ k < n
    BY DEF Setting
  <2>5. id # None
    BY NoneAssumption
  <2>6. ASSUME \A k \in set : s[k].id = id, set # {}
        PROVE  \E m, t : /\ Newest(set, m) /\ Newest(Setters(r, field), t)
                         /\ r[t].payload[field] = s[m].payload[field]
    <3> HIDE DEF L, S, Agree, Set, l, r, set, old
    <3>1. CASE Sets(e, id, field)
      <4>1. Newest(set, n)
        BY <2>3, <2>4, <3>1 DEF Newest
      <4>2. e.id = id
        BY <2>6, <4>1 DEF Newest
      <4>3. r = Append(l, e) /\ Len(r) = Len(l) + 1 /\ r[Len(r)] = e /\ Len(l) \in Nat
        BY <2>1, <4>2
      <4>4. Newest(Setters(r, field), Len(r))
        BY <3>1, <4>3 DEF Newest, Setters, Sets
      <4> QED
        BY <4>1, <4>3, <4>4
    <3>2. CASE ~Sets(e, id, field)
      <4>1. set = old
        BY <2>3, <3>2
      <4>2. PICK m, t : /\ Newest(old, m) /\ Newest(Setters(l, field), t)
                        /\ l[t].payload[field] = s[m].payload[field]
        BY <2>2, <2>6, <4>1
      <4>3. t \in 1..Len(l)
        BY <4>2 DEF Newest, Setters
      <4>4. CASE e.id = id
        <5>1. /\ r = Append(l, e) /\ Len(r) = Len(l) + 1 /\ r[Len(r)] = e /\ Len(l) \in Nat
              /\ \A k \in 1..Len(l) : r[k] = l[k]
          BY <2>1, <4>4
        <5>2. ~(e.type \in {"declare", "revise"} /\ field \in DOMAIN e.payload)
          BY <2>5, <3>2, <4>4 DEF Sets, EventId
        <5>3. Setters(r, field) = Setters(l, field)
          <6>1. \A k \in 1..Len(r) : k = Len(r) \/ k \in 1..Len(l)
            BY <5>1
          <6>2. \A k \in 1..Len(l) : k \in 1..Len(r)
            BY <5>1
          <6> QED
            BY <5>1, <5>2, <6>1, <6>2 DEF Setters
        <5>4. r[t] = l[t]
          BY <4>3, <5>1
        <5> QED
          BY <4>1, <4>2, <5>3, <5>4
      <4>5. CASE e.id # id
        BY <2>1, <4>1, <4>2, <4>5
      <4> QED
        BY <4>4, <4>5
    <3> QED
      BY <3>1, <3>2
  <2> HIDE DEF r, set
  <2>7. Agree(n)
    BY <2>6 DEF r, set
  <2> HIDE DEF Agree
  <2> QED
    BY <2>7
<1>3. \A n \in 0..Len(s) : n \in S
  <2> HIDE DEF S
  <2> QED
    BY <1>1, <1>2, InductUpTo, SMTT(30)
<1> QED
  BY <1>3

(* A variable no later event names is what it was.                         *)
LEMMA UntouchedLemma ==
    ASSUME NEW s \in Seq(AnyEvent), NEW F \in 0..Len(s), NEW id \in Ids,
           \A k \in (F + 1)..Len(s) : EventId(s[k]) # id
    PROVE  \A n \in F..Len(s) :
              /\ id \in DOMAIN Projections(s)[n] <=> id \in DOMAIN Projections(s)[F]
              /\ id \in DOMAIN Projections(s)[F] =>
                    Projections(s)[n][id]["value"] = Projections(s)[F][id]["value"]
<1> DEFINE P(n) == Projections(s)[n]
           Same(n) == /\ id \in DOMAIN P(n) <=> id \in DOMAIN P(F)
                      /\ id \in DOMAIN P(F) => P(n)[id]["value"] = P(F)[id]["value"]
           S == {n \in 0..Len(s) : n >= F => Same(n)}
<1>1. 0 \in S
  OBVIOUS
<1>2. ASSUME NEW n \in 1..Len(s), n - 1 \in S PROVE n \in S
  <2>1. SUFFICES ASSUME n > F PROVE Same(n)
    OBVIOUS
  <2>2. Same(n - 1) /\ EventId(s[n]) # id
    BY <1>2, <2>1
  <2>3. s[n] \in AnyEvent /\ P(n - 1) \in Ledgers /\ P(n) = Fold(s[n], P(n - 1))
    <3>1. n - 1 \in 0..Len(s)
      OBVIOUS
    <3> QED
      BY <3>1, ProjectionsLemma
  <2>4. ~Sets(s[n], id, "value")
    BY <2>2 DEF Sets
  <2>5. "value" \in Fields
    BY DEF Fields, Compared
  <2> HIDE DEF P
  <2>6. /\ id \in DOMAIN P(n) <=> id \in DOMAIN P(n - 1)
        /\ id \in DOMAIN P(n - 1) => P(n)[id]["value"] = P(n - 1)[id]["value"]
    BY <2>2, <2>3, <2>4, <2>5, FieldStep
  <2> QED
    BY <2>2, <2>6
<1>3. \A n \in 0..Len(s) : n \in S
  <2> DEFINE N == Len(s)
  <2>1. N \in Nat
    OBVIOUS
  <2>2. \A n \in 1..N : n - 1 \in S => n \in S
    BY <1>2
  <2> HIDE DEF S, N
  <2>3. \A n \in 0..N : n \in S
    BY <1>1, <2>1, <2>2, InductUpTo
  <2> QED
    BY <2>3 DEF N
<1> QED
  BY <1>3

(* A declaration has proxy risks that diff could only miss.                *)
Plain(s) ==
    \A k \in 1..Len(s) :
        s[k].type = "declare" => /\ DOMAIN s[k].payload = Fields
                                 /\ s[k].payload["proxy_risks"] = 0

(* A field that diff does not compare is what it was, unless an event set  *)
(* it in a revision or in a variable that had been there.                  *)
LEMMA UncomparedLemma ==
    ASSUME NEW s \in Seq(AnyEvent), Plain(s), NEW F \in 0..Len(s), NEW id \in Ids,
           \A k \in (F + 1)..Len(s) :
                (s[k].type = "revise" \/ EventId(s[k]) \in DOMAIN Projections(s)[F])
                    => "proxy_risks" \notin DOMAIN s[k].payload
    PROVE  \A n \in F..Len(s) :
              id \in DOMAIN Projections(s)[n] =>
                Projections(s)[n][id]["proxy_risks"] =
                    IF id \in DOMAIN Projections(s)[F]
                    THEN Projections(s)[F][id]["proxy_risks"] ELSE 0
<1> DEFINE P(n) == Projections(s)[n]
           Was == IF id \in DOMAIN P(F) THEN P(F)[id]["proxy_risks"] ELSE 0
           Same(n) == /\ id \in DOMAIN P(F) => id \in DOMAIN P(n)
                      /\ id \in DOMAIN P(n) => P(n)[id]["proxy_risks"] = Was
           S == {n \in 0..Len(s) : n >= F => Same(n)}
<1>1. 0 \in S
  OBVIOUS
<1>2. ASSUME NEW n \in 1..Len(s), n - 1 \in S PROVE n \in S
  <2>1. SUFFICES ASSUME n >= F PROVE Same(n)
    OBVIOUS
  <2>2. CASE n = F
    BY <2>2
  <2>3. CASE n > F
    <3>1. Same(n - 1) /\ n \in (F + 1)..Len(s)
      BY <1>2, <2>3
    <3>2. s[n] \in AnyEvent /\ P(n - 1) \in Ledgers /\ P(n) = Fold(s[n], P(n - 1))
      <4>1. n \in 1..Len(s) /\ n - 1 \in 0..Len(s) /\ s \in Seq(AnyEvent)
        OBVIOUS
      <4>2. P(n - 1) \in Ledgers /\ P(n) = Fold(s[n], P(n - 1))
        BY <4>1, ProjectionsLemma
      <4> QED
        BY <4>1, <4>2
    <3>3. "proxy_risks" \in Fields
      BY DEF Fields
    <3>4. CASE Sets(s[n], id, "proxy_risks")
      <4>1. s[n].type = "declare" /\ id \notin DOMAIN P(F)
        BY <3>1, <3>4 DEF Sets
      <4>2. s[n].payload["proxy_risks"] = 0
        BY <4>1 DEF Plain
      <4> HIDE DEF P
      <4>3. P(n)[id]["proxy_risks"] = 0
        BY <3>2, <3>3, <3>4, <4>2, FieldStep
      <4> QED
        BY <4>1, <4>3
    <3>5. CASE ~Sets(s[n], id, "proxy_risks")
      <4> HIDE DEF P
      <4>1. /\ id \in DOMAIN P(n - 1) =>
                    id \in DOMAIN P(n) /\ P(n)[id]["proxy_risks"] = P(n - 1)[id]["proxy_risks"]
            /\ id \in DOMAIN P(n) /\ id \notin DOMAIN P(n - 1) =>
                    P(n)[id]["proxy_risks"] = Default["proxy_risks"]
        BY <3>2, <3>3, <3>5, FieldStep
      <4>2. Default["proxy_risks"] = 0
        BY DEF Default
      <4> QED
        BY <3>1, <4>1, <4>2
    <3> QED
      BY <3>4, <3>5
  <2> QED
    BY <2>1, <2>2, <2>3
<1>3. \A n \in 0..Len(s) : n \in S
  <2> DEFINE N == Len(s)
  <2>1. N \in Nat
    OBVIOUS
  <2>2. \A n \in 1..N : n - 1 \in S => n \in S
    BY <1>2
  <2> HIDE DEF S, N
  <2>3. \A n \in 0..N : n \in S
    BY <1>1, <2>1, <2>2, InductUpTo
  <2> QED
    BY <2>3 DEF N
<1> QED
  BY <1>3

(* A ledger has finitely many variables.                                   *)
LEMMA FiniteLemma ==
    ASSUME NEW s \in Seq(AnyEvent)
    PROVE  \A n \in 0..Len(s) : IsFiniteSet(DOMAIN Projections(s)[n])
<1> DEFINE P(n) == Projections(s)[n]
           S == {n \in 0..Len(s) : IsFiniteSet(DOMAIN P(n))}
<1>1. 0 \in S
  <2>1. DOMAIN P(0) = {}
    BY ProjectionsLemma
  <2>2. IsFiniteSet({})
    BY FS_EmptySet
  <2>3. IsFiniteSet(DOMAIN P(0))
    BY <2>1, <2>2
  <2> HIDE DEF P
  <2> QED
    BY <2>3
<1>2. ASSUME NEW n \in 1..Len(s), n - 1 \in S PROVE n \in S
  <2>1. s[n] \in AnyEvent /\ P(n - 1) \in Ledgers /\ P(n) = Fold(s[n], P(n - 1))
    <3>1. n - 1 \in 0..Len(s)
      OBVIOUS
    <3> QED
      BY <3>1, ProjectionsLemma
  <2>2. IsFiniteSet(DOMAIN P(n - 1))
    BY <1>2
  <2> HIDE DEF P
  <2>3. \/ DOMAIN P(n) = DOMAIN P(n - 1)
        \/ DOMAIN P(n) = DOMAIN P(n - 1) \cup {EventId(s[n])}
    BY <2>1, FoldLemma
  <2>4. IsFiniteSet(DOMAIN P(n - 1) \cup {EventId(s[n])})
    <3> DEFINE D == DOMAIN P(n - 1)
    <3>1. IsFiniteSet(D)
      BY <2>2
    <3> HIDE DEF D
    <3>2. IsFiniteSet(D \cup {EventId(s[n])})
      BY <3>1, FS_AddElement
    <3> QED
      BY <3>2 DEF D
  <2>5. IsFiniteSet(DOMAIN P(n))
    BY <2>2, <2>3, <2>4
  <2> QED
    BY <2>5
<1>3. \A n \in 0..Len(s) : n \in S
  <2> DEFINE N == Len(s)
  <2>1. N \in Nat
    OBVIOUS
  <2>2. \A n \in 1..N : n - 1 \in S => n \in S
    BY <1>2
  <2> HIDE DEF S, N
  <2>3. \A n \in 0..N : n \in S
    BY <1>1, <2>1, <2>2, InductUpTo
  <2> QED
    BY <2>3 DEF N
<1> QED
  BY <1>3

(* A ledger put into a log, one declaration for each variable, is what the *)
(* log comes to.                                                           *)
LEMMA RoundTripLemma ==
    ASSUME NEW p \in Ledgers, IsFiniteSet(DOMAIN p)
    PROVE  Project(EventsFromLedger(p)) = p
<1> DEFINE D == DOMAIN p
           ids == SetToSeq(D)
           N == Cardinality(D)
           E == EventsFromLedger(p)
           P(n) == Projections(E)[n]
<1>1. /\ N \in Nat /\ ids \in [1..N -> D]
      /\ \A x \in D : \E i \in 1..N : ids[i] = x
  BY SetToSeqLemma
<1>2. E = [i \in 1..N |-> [type |-> "declare", id |-> ids[i], payloadId |-> ids[i],
                           payload |-> p[ids[i]]]]
  BY DEF EventsFromLedger, Declared
<1>3. D \subseteq Ids /\ p = [i \in D |-> p[i]] /\ \A i \in D : p[i] \in Cell
  BY LedgersLemma
<1> HIDE DEF ids, N, E, D
<1>4. ASSUME NEW n \in 1..N
      PROVE  /\ ids[n] \in D /\ ids[n] \in Ids /\ ids[n] # None
             /\ E[n] \in AnyEvent /\ Folded(E[n]) /\ EventId(E[n]) = ids[n]
             /\ DOMAIN E[n].payload = Fields /\ E[n].payload = p[ids[n]]
  <2>1. ids[n] \in D /\ ids[n] \in Ids /\ ids[n] # None
    BY <1>1, <1>3, NoneAssumption
  <2>2. /\ E[n] = [type |-> "declare", id |-> ids[n], payloadId |-> ids[n],
                   payload |-> p[ids[n]]]
    BY <1>2
  <2>3. p[ids[n]] \in [Fields -> Values \cup {None, 0, 1}]
    BY <1>3, <2>1 DEF Cell
  <2>4. p[ids[n]] \in Parts
    BY <2>3 DEF Parts
  <2>5. E[n] \in AnyEvent
    BY <2>1, <2>2, <2>4 DEF AnyEvent
  <2>6. Folded(E[n]) /\ EventId(E[n]) = ids[n]
    BY <2>1, <2>2 DEF Folded, EventId
  <2> QED
    BY <2>1, <2>2, <2>3, <2>5, <2>6
<1>5. E \in Seq(AnyEvent) /\ Len(E) = N
  <2>1. E \in [1..N -> AnyEvent]
    BY <1>2, <1>4
  <2> QED
    BY <1>1, <2>1
<1> DEFINE Done(n) == /\ DOMAIN P(n) = {ids[k] : k \in 1..n}
                      /\ \A x \in DOMAIN P(n) : P(n)[x] = p[x]
           S == {n \in 0..N : Done(n)}
<1>6. 0 \in S
  <2>1. DOMAIN P(0) = {}
    BY <1>5, ProjectionsLemma
  <2>2. {ids[k] : k \in 1..0} = {}
    OBVIOUS
  <2> QED
    BY <1>1, <2>1, <2>2
<1>7. ASSUME NEW n \in 1..N, n - 1 \in S PROVE n \in S
  <2>1. Done(n - 1)
    BY <1>7
  <2>2. P(n - 1) \in Ledgers /\ P(n) \in Ledgers /\ P(n) = Fold(E[n], P(n - 1))
    <3>1. n \in 1..Len(E) /\ n - 1 \in 0..Len(E) /\ n \in 0..Len(E)
      BY <1>1, <1>5
    <3> QED
      BY <1>5, <3>1, ProjectionsLemma
  <2>3. E[n] \in AnyEvent /\ Folded(E[n]) /\ EventId(E[n]) = ids[n]
        /\ DOMAIN E[n].payload = Fields /\ E[n].payload = p[ids[n]] /\ ids[n] \in D
    BY <1>4
  <2> HIDE DEF P
  <2>4. /\ DOMAIN P(n) = DOMAIN P(n - 1) \cup {ids[n]}
        /\ \A x \in DOMAIN P(n - 1) : x # ids[n] => P(n)[x] = P(n - 1)[x]
        /\ \A f \in Fields : P(n)[ids[n]][f] = p[ids[n]][f]
    <3> DEFINE e == E[n]
               before == P(n - 1)
               id == ids[n]
               cell == p[id]
    <3>1. e \in AnyEvent /\ Folded(e) /\ EventId(e) = id /\ before \in Ledgers
          /\ DOMAIN e.payload = Fields /\ e.payload = cell /\ P(n) = Fold(e, before)
      BY <2>2, <2>3
    <3> HIDE DEF e, before, id, cell
    <3>2. /\ DOMAIN Fold(e, before) = DOMAIN before \cup {EventId(e)}
          /\ \A x \in DOMAIN before :
                x # EventId(e) => Fold(e, before)[x] = before[x]
          /\ \A f \in Fields :
                Fold(e, before)[EventId(e)][f] =
                    IF f \in DOMAIN e.payload THEN e.payload[f]
                    ELSE IF EventId(e) \in DOMAIN before THEN before[EventId(e)][f]
                    ELSE Default[f]
      BY <3>1, FoldLemma
    <3>3. \A f \in Fields : Fold(e, before)[id][f] = cell[f]
      BY <3>1, <3>2
    <3>4. /\ DOMAIN P(n) = DOMAIN before \cup {id}
          /\ \A x \in DOMAIN before : x # id => P(n)[x] = before[x]
          /\ \A f \in Fields : P(n)[id][f] = cell[f]
      BY <3>1, <3>2, <3>3
    <3> QED
      BY <3>4 DEF before, id, cell
  <2>5. P(n)[ids[n]] = p[ids[n]]
    <3>1. P(n)[ids[n]] \in Cell /\ p[ids[n]] \in Cell
      BY <1>3, <2>2, <2>3, <2>4, LedgersLemma
    <3> QED
      BY <2>4, <3>1 DEF Cell
  <2>6. DOMAIN P(n) = {ids[k] : k \in 1..n}
    <3>1. 1..n = (1..(n - 1)) \cup {n}
      BY <1>1
    <3> QED
      BY <2>1, <2>4, <3>1
  <2>7. \A x \in DOMAIN P(n) : P(n)[x] = p[x]
    BY <2>1, <2>4, <2>5
  <2> HIDE DEF Done
  <2>8. Done(n)
    BY <2>6, <2>7 DEF Done
  <2> QED
    BY <2>8
<1>8. Done(N)
  <2> HIDE DEF S
  <2>1. \A n \in 0..N : n \in S
    BY <1>1, <1>6, <1>7, InductUpTo
  <2> QED
    BY <1>1, <2>1 DEF S
<1>9. P(N) \in Ledgers
  <2>1. N \in 0..Len(E)
    BY <1>1, <1>5
  <2> QED
    BY <1>5, <2>1, ProjectionsLemma
<1>10. P(N) = [x \in DOMAIN P(N) |-> P(N)[x]]
  <2> HIDE DEF P
  <2> QED
    BY <1>9, LedgersLemma
<1>11. DOMAIN P(N) = D
  BY <1>1, <1>8
<1>12. P(N) = p
  <2> HIDE DEF P
  <2> QED
    BY <1>3, <1>8, <1>10, <1>11 DEF Done
<1> QED
  BY <1>5, <1>12 DEF Project, E

-----------------------------------------------------------------------------

(* The events of a log were appended one by one, and a branch began as the *)
(* log did.                                                                *)
Grown(s) == \A k \in 1..Len(s) : s[k] \in Appendable(SubSeq(s, 1, k - 1))

Forked ==
    /\ fork = -1 => branch = <<>>
    /\ fork # -1 => /\ fork <= Len(log) /\ fork <= Len(branch)
                    /\ \A k \in 1..fork : branch[k] = log[k]

LInv == LogTypeOK /\ Grown(log) /\ Grown(branch) /\ Forked

LEMMA SeqIsAny == ASSUME NEW s \in Seq(Event) PROVE s \in Seq(AnyEvent)
BY EventIsAny

LEMMA GrownAppend ==
    ASSUME NEW s \in Seq(Event), Grown(s), NEW e \in Appendable(s)
    PROVE  Append(s, e) \in Seq(Event) /\ Grown(Append(s, e))
<1> DEFINE t == Append(s, e)
<1>1. e \in Event
  BY DEF Appendable
<1>2. /\ t \in Seq(Event) /\ Len(t) = Len(s) + 1 /\ t[Len(t)] = e
      /\ \A k \in 1..Len(s) : t[k] = s[k]
  BY <1>1
<1>3. \A k \in 0..Len(s) : SubSeq(t, 1, k) = SubSeq(s, 1, k)
  BY <1>1
<1>4. SubSeq(s, 1, Len(s)) = s
  OBVIOUS
<1> HIDE DEF t
<1>5. ASSUME NEW k \in 1..Len(t) PROVE t[k] \in Appendable(SubSeq(t, 1, k - 1))
  <2>1. CASE k \in 1..Len(s)
    <3>1. k - 1 \in 0..Len(s)
      BY <2>1
    <3> QED
      BY <1>2, <1>3, <2>1, <3>1 DEF Grown
  <2>2. CASE k = Len(s) + 1
    <3>1. k - 1 = Len(s) /\ Len(s) \in 0..Len(s)
      BY <2>2
    <3>2. SubSeq(t, 1, k - 1) = s
      BY <1>3, <1>4, <3>1
    <3> QED
      BY <1>2, <2>2, <3>2
  <2> QED
    BY <1>2, <2>1, <2>2
<1> QED
  BY <1>2, <1>5 DEF Grown, t

LEMMA GrownSubSeq ==
    ASSUME NEW s \in Seq(Event), Grown(s), NEW n \in 0..Len(s)
    PROVE  /\ SubSeq(s, 1, n) \in Seq(Event) /\ Grown(SubSeq(s, 1, n))
           /\ Len(SubSeq(s, 1, n)) = n
           /\ \A k \in 1..n : SubSeq(s, 1, n)[k] = s[k]
<1> DEFINE t == SubSeq(s, 1, n)
<1>1. t \in Seq(Event) /\ Len(t) = n /\ \A k \in 1..n : t[k] = s[k]
  OBVIOUS
<1>2. \A k \in 1..n : SubSeq(t, 1, k - 1) = SubSeq(s, 1, k - 1)
  OBVIOUS
<1> HIDE DEF t
<1>3. ASSUME NEW k \in 1..n PROVE t[k] \in Appendable(SubSeq(t, 1, k - 1))
  <2>1. k \in 1..Len(s)
    OBVIOUS
  <2>2. s[k] \in Appendable(SubSeq(s, 1, k - 1))
    BY <2>1 DEF Grown
  <2>3. SubSeq(t, 1, k - 1) = SubSeq(s, 1, k - 1) /\ t[k] = s[k]
    BY <1>1, <1>2
  <2> QED
    BY <2>2, <2>3
<1>4. Grown(t)
  BY <1>1, <1>3 DEF Grown
<1> QED
  BY <1>1, <1>4 DEF t

LEMMA LogInitInv == LogInit => LInv
<1> SUFFICES ASSUME LogInit PROVE LInv
  OBVIOUS
<1>1. log = <<>> /\ branch = <<>> /\ fork = -1 /\ <<>> \in Seq(Event) /\ Len(<<>>) = 0
  BY DEF LogInit
<1> QED
  BY <1>1, LogAssumption DEF LInv, LogTypeOK, Grown, Forked

LEMMA LogNextInv == LInv /\ [LogNext]_logVars => LInv'
<1> SUFFICES ASSUME LInv, [LogNext]_logVars PROVE LInv'
  OBVIOUS
<1>1. /\ log \in Seq(Event) /\ branch \in Seq(Event) /\ Grown(log) /\ Grown(branch)
      /\ fork \in -1..MaxEvents /\ Len(log) <= MaxEvents
      /\ Len(log) \in Nat /\ Len(branch) \in Nat /\ MaxEvents \in Nat
  BY LogAssumption DEF LInv, LogTypeOK
<1>2. ASSUME NEW e \in Event, AppendEvent(e) PROVE LInv'
  <2>1. /\ e \in Appendable(log) /\ log' = Append(log, e) /\ Len(log) < MaxEvents
        /\ UNCHANGED <<fork, branch>>
    BY <1>2 DEF AppendEvent
  <2>2. log' \in Seq(Event) /\ Grown(log')
    BY <1>1, <2>1, GrownAppend
  <2>3. Len(log') = Len(log) + 1 /\ \A k \in 1..Len(log) : log'[k] = log[k]
    BY <1>1, <2>1
  <2>4. Forked'
    BY <1>1, <2>1, <2>3 DEF LInv, Forked
  <2>5. Grown(branch)' /\ LogTypeOK'
    BY <1>1, <2>1, <2>2, <2>3 DEF LogTypeOK, Grown
  <2> QED
    BY <2>2, <2>4, <2>5 DEF LInv, Grown
<1>3. ASSUME NEW seq \in 0..Len(log), ForkAt(seq) PROVE LInv'
  <2>1. fork' = seq /\ branch' = SubSeq(log, 1, seq) /\ log' = log
    BY <1>3 DEF ForkAt
  <2>2. /\ branch' \in Seq(Event) /\ Grown(branch')
        /\ Len(branch') = seq /\ \A k \in 1..seq : branch'[k] = log[k]
    BY <1>1, <2>1, GrownSubSeq
  <2>3. Forked'
    BY <1>1, <2>1, <2>2 DEF Forked
  <2>4. Grown(log)' /\ LogTypeOK'
    BY <1>1, <2>1, <2>2 DEF LogTypeOK, Grown
  <2> QED
    BY <2>2, <2>3, <2>4 DEF LInv, Grown
<1>4. ASSUME NEW e \in Event, AppendToBranch(e) PROVE LInv'
  <2>1. /\ e \in Appendable(branch) /\ branch' = Append(branch, e) /\ fork # -1
        /\ UNCHANGED <<log, fork>>
    BY <1>4 DEF AppendToBranch
  <2>2. branch' \in Seq(Event) /\ Grown(branch')
    BY <1>1, <2>1, GrownAppend
  <2>3. Len(branch') = Len(branch) + 1 /\ \A k \in 1..Len(branch) : branch'[k] = branch[k]
    BY <1>1, <2>1
  <2>4. Forked'
    BY <1>1, <2>1, <2>3 DEF LInv, Forked
  <2>5. Grown(log)' /\ LogTypeOK'
    BY <1>1, <2>1, <2>2 DEF LogTypeOK, Grown
  <2> QED
    BY <2>2, <2>4, <2>5 DEF LInv, Grown
<1>5. CASE UNCHANGED logVars
  BY <1>5 DEF LInv, LogTypeOK, Grown, Forked, logVars
<1> QED
  BY <1>2, <1>3, <1>4, <1>5 DEF LogNext

(* A log is grown event by event, and its branch began as a part of it.    *)
THEOREM AlwaysLInv == LogSpec => []LInv
BY LogInitInv, LogNextInv, PTL DEF LogSpec

-----------------------------------------------------------------------------

(* What a log declares has every field, and no proxy risks yet.            *)
LEMMA GrownPlain == ASSUME NEW s \in Seq(Event), Grown(s) PROVE Plain(s)
<1> SUFFICES ASSUME NEW k \in 1..Len(s), s[k].type = "declare"
             PROVE  DOMAIN s[k].payload = Fields /\ s[k].payload["proxy_risks"] = 0
  BY DEF Plain
<1>1. s[k] \in Event /\ DOMAIN s[k].payload = Fields
  BY DEF Grown, Appendable
<1>2. s[k].payload \in Payloads
  BY <1>1 DEF Event
<1>3. "value" \in DOMAIN s[k].payload /\ "proxy_risks" \in DOMAIN s[k].payload
  BY <1>1 DEF Fields, Compared
<1>4. s[k].payload \in [value : Values \cup {None}, proxy_risks : {0}]
  BY <1>2, <1>3 DEF Payloads
<1> QED
  BY <1>1, <1>4

(* What lineage says of a log.                                             *)
LEMMA LineageAlways == LInv => LineageExplains
<1> SUFFICES ASSUME LInv, NEW id \in Declared(Project(log)), NEW field \in Fields
             PROVE  LET setting == {n \in 1..Len(log) :
                            /\ log[n].type \in {"declare", "revise"}
                            /\ EventId(log[n]) = id /\ field \in DOMAIN log[n].payload}
                        lineage == {n \in 1..Len(Lineage(log, id)) :
                            /\ Lineage(log, id)[n].type \in {"declare", "revise"}
                            /\ field \in DOMAIN Lineage(log, id)[n].payload}
                    IN IF setting = {} THEN Project(log)[id][field] = Default[field]
                       ELSE /\ Project(log)[id][field] = log[Max(setting)].payload[field]
                            /\ (\A n \in setting : log[n].id = id) =>
                                Project(log)[id][field]
                                    = Lineage(log, id)[Max(lineage)].payload[field]
  BY DEF LineageExplains
<1> DEFINE N == Len(log)
           set == Setting(log, N, id, field)
           l == Lineages(log, id)[N]
<1>1. log \in Seq(AnyEvent) /\ N \in 0..N
  BY SeqIsAny DEF LInv, LogTypeOK
<1>2. Projections(log)[N] \in Ledgers /\ id \in DOMAIN Projections(log)[N]
  BY <1>1, ProjectionsLemma DEF Declared, Project
<1>3. id \in Ids
  BY <1>2, LedgersLemma
<1>4. set = {n \in 1..Len(log) :
                /\ log[n].type \in {"declare", "revise"}
                /\ EventId(log[n]) = id /\ field \in DOMAIN log[n].payload}
  BY DEF Setting, Sets
<1>5. Setters(l, field) = {n \in 1..Len(Lineage(log, id)) :
                            /\ Lineage(log, id)[n].type \in {"declare", "revise"}
                            /\ field \in DOMAIN Lineage(log, id)[n].payload}
  BY DEF Setters, Lineage
<1>6. CASE set = {}
  <2>1. Project(log)[id][field] = Default[field]
    BY <1>1, <1>2, <1>3, <1>6, FieldLemma DEF Project
  <2> HIDE DEF set
  <2> QED
    BY <1>4, <1>6, <2>1
<1>7. CASE set # {}
  <2>1. PICK m : Newest(set, m) /\ Projections(log)[N][id][field] = log[m].payload[field]
    BY <1>1, <1>3, <1>7, FieldLemma
  <2>2. set \subseteq Int
    BY DEF Setting
  <2>3. Max(set) = m
    <3> HIDE DEF set
    <3> QED
      BY <2>1, <2>2, MaxIs
  <2>4. Project(log)[id][field] = log[Max(set)].payload[field]
    BY <2>1, <2>3 DEF Project
  <2>5. ASSUME \A n \in set : log[n].id = id
        PROVE  Project(log)[id][field] = Lineage(log, id)[Max(Setters(l, field))].payload[field]
    <3>1. PICK k, t : /\ Newest(set, k) /\ Newest(Setters(l, field), t)
                      /\ l[t].payload[field] = log[k].payload[field]
      BY <1>1, <1>3, <1>7, <2>5, LineageLemma
    <3>2. k = m
      <4> HIDE DEF set
      <4> QED
        BY <2>1, <2>2, <3>1 DEF Newest
    <3>3. Setters(l, field) \subseteq Int
      BY DEF Setters
    <3>4. Max(Setters(l, field)) = t
      <4> HIDE DEF l
      <4> QED
        BY <3>1, <3>3, MaxIs
    <3> QED
      BY <2>1, <3>1, <3>2, <3>4 DEF Project, Lineage
  <2> HIDE DEF set, l
  <2> QED
    BY <1>4, <1>5, <1>7, <2>4, <2>5
<1> QED
  BY <1>6, <1>7

(* At the fork both logs have one projection, of the log as it was.        *)
LEMMA ForkLemma ==
    ASSUME LInv, fork # -1
    PROVE  /\ log \in Seq(AnyEvent) /\ branch \in Seq(AnyEvent)
           /\ Plain(log) /\ Plain(branch)
           /\ fork \in 0..Len(log) /\ fork \in 0..Len(branch)
           /\ Projections(log)[fork] = Projections(branch)[fork]
           /\ Projections(log)[fork] = Project(SubSeq(log, 1, fork))
           /\ Projections(log)[fork] \in Ledgers
<1>1. log \in Seq(AnyEvent) /\ branch \in Seq(AnyEvent) /\ Plain(log) /\ Plain(branch)
  BY SeqIsAny, GrownPlain DEF LInv, LogTypeOK
<1>2. /\ fork \in Nat /\ fork <= Len(log) /\ fork <= Len(branch)
      /\ \A k \in 1..fork : branch[k] = log[k]
  BY LogAssumption DEF LInv, LogTypeOK, Forked
<1>3. fork \in 0..Len(log) /\ fork \in 0..Len(branch) /\ fork \in 0..fork
  BY <1>1, <1>2
<1>4. Projections(log)[fork] = Projections(branch)[fork]
  BY <1>1, <1>2, <1>3, PrefixLemma
<1> QED
  BY <1>1, <1>3, <1>4, SubSeqLemma, ProjectionsLemma

(* What projections of one log differ in, and of two.                      *)
LEMMA DiffLemma ==
    ASSUME NEW p \in Ledgers, NEW q \in Ledgers
    PROVE  /\ \A d \in Diff(p, q) :
                /\ d[1] \in Ids
                /\ \/ ~(d[1] \in DOMAIN p <=> d[1] \in DOMAIN q)
                   \/ /\ d[1] \in DOMAIN p /\ d[1] \in DOMAIN q
                      /\ p[d[1]]["value"] # q[d[1]]["value"]
           /\ Diff(p, q) = {} /\ p # q =>
                \E id \in Ids : /\ id \in DOMAIN p /\ id \in DOMAIN q
                                /\ p[id]["proxy_risks"] # q[id]["proxy_risks"]
<1>1. DOMAIN p \subseteq Ids /\ DOMAIN q \subseteq Ids
  BY LedgersLemma
<1>2. ASSUME NEW d \in Diff(p, q)
      PROVE  /\ d[1] \in Ids
             /\ \/ ~(d[1] \in DOMAIN p <=> d[1] \in DOMAIN q)
                \/ /\ d[1] \in DOMAIN p /\ d[1] \in DOMAIN q
                   /\ p[d[1]]["value"] # q[d[1]]["value"]
  <2>1. CASE d \in Changed(p, q)
    BY <1>1, <2>1 DEF Changed, Compared, Declared
  <2>2. CASE d \in Unshared(p, q) \X {"declared"}
    BY <1>1, <2>2 DEF Unshared, Declared
  <2> QED
    BY <2>1, <2>2 DEF Diff
<1>3. ASSUME Diff(p, q) = {}, p # q
      PROVE  \E id \in Ids : /\ id \in DOMAIN p /\ id \in DOMAIN q
                             /\ p[id]["proxy_risks"] # q[id]["proxy_risks"]
  <2>1. DOMAIN p = DOMAIN q
    <3>1. \A x \in Unshared(p, q) : <<x, "declared">> \in Diff(p, q)
      BY DEF Diff
    <3>2. Unshared(p, q) = {}
      BY <1>3, <3>1
    <3> QED
      BY <3>2 DEF Unshared, Declared
  <2>2. \A id \in DOMAIN p : p[id]["value"] = q[id]["value"]
    <3>1. \A id \in DOMAIN p : p[id]["value"] # q[id]["value"] =>
                                    <<id, "value">> \in Changed(p, q)
      BY <2>1 DEF Changed, Compared, Declared
    <3> QED
      BY <1>3, <3>1 DEF Diff
  <2>3. /\ p = [i \in DOMAIN p |-> p[i]] /\ q = [i \in DOMAIN q |-> q[i]]
        /\ \A i \in DOMAIN p : p[i] \in Cell /\ q[i] \in Cell
    BY <2>1, LedgersLemma
  <2>4. PICK id \in DOMAIN p : p[id] # q[id]
    BY <1>3, <2>1, <2>3
  <2>5. p[id]["proxy_risks"] # q[id]["proxy_risks"]
    BY <2>2, <2>3, <2>4 DEF Cell, Fields, Compared
  <2> QED
    BY <1>1, <2>1, <2>4, <2>5
<1> QED
  BY <1>2, <1>3

LEMMA TouchedAlways == LInv => DiffNamesOnlyTouched
<1> SUFFICES ASSUME LInv, fork # -1, NEW d \in Diff(Project(log), Project(branch)),
                    ~ \E n \in fork + 1..Len(log) : EventId(log[n]) = d[1],
                    ~ \E n \in fork + 1..Len(branch) : EventId(branch[n]) = d[1]
             PROVE  FALSE
  BY DEF DiffNamesOnlyTouched
<1> DEFINE p == Projections(log)[fork]
           a == Projections(log)[Len(log)]
           b == Projections(branch)[Len(branch)]
           id == d[1]
<1>1. /\ log \in Seq(AnyEvent) /\ branch \in Seq(AnyEvent)
      /\ fork \in 0..Len(log) /\ fork \in 0..Len(branch)
      /\ p = Projections(branch)[fork]
  BY ForkLemma
<1>2. Len(log) \in fork..Len(log) /\ Len(branch) \in fork..Len(branch)
      /\ Len(log) \in 0..Len(log) /\ Len(branch) \in 0..Len(branch)
  BY <1>1
<1>3. a \in Ledgers /\ b \in Ledgers
  BY <1>1, <1>2, ProjectionsLemma
<1>4. /\ id \in Ids
      /\ \/ ~(id \in DOMAIN a <=> id \in DOMAIN b)
         \/ id \in DOMAIN a /\ id \in DOMAIN b /\ a[id]["value"] # b[id]["value"]
  BY <1>3, DiffLemma DEF Project
<1>5. /\ id \in DOMAIN a <=> id \in DOMAIN p
      /\ id \in DOMAIN p => a[id]["value"] = p[id]["value"]
  BY <1>1, <1>2, <1>4, UntouchedLemma
<1>6. /\ id \in DOMAIN b <=> id \in DOMAIN p
      /\ id \in DOMAIN p => b[id]["value"] = p[id]["value"]
  BY <1>1, <1>2, <1>4, UntouchedLemma
<1> QED
  BY <1>4, <1>5, <1>6

LEMMA MissesAlways == LInv => DiffMissesOnlyUncompared
<1> SUFFICES ASSUME LInv, fork # -1, Diff(Project(log), Project(branch)) = {},
                    Project(log) # Project(branch),
                    ~ \E evs \in {log, branch} : \E n \in fork + 1..Len(evs) :
                        /\ \/ evs[n].type = "revise"
                           \/ EventId(evs[n]) \in Declared(Project(SubSeq(log, 1, fork)))
                        /\ "proxy_risks" \in DOMAIN evs[n].payload
             PROVE  FALSE
  BY DEF DiffMissesOnlyUncompared
<1> DEFINE p == Projections(log)[fork]
           a == Projections(log)[Len(log)]
           b == Projections(branch)[Len(branch)]
<1>1. /\ log \in Seq(AnyEvent) /\ branch \in Seq(AnyEvent) /\ Plain(log) /\ Plain(branch)
      /\ fork \in 0..Len(log) /\ fork \in 0..Len(branch)
      /\ p = Projections(branch)[fork] /\ p = Project(SubSeq(log, 1, fork))
  BY ForkLemma
<1>2. Len(log) \in fork..Len(log) /\ Len(branch) \in fork..Len(branch)
      /\ Len(log) \in 0..Len(log) /\ Len(branch) \in 0..Len(branch)
  BY <1>1
<1>3. a \in Ledgers /\ b \in Ledgers
  BY <1>1, <1>2, ProjectionsLemma
<1>4. PICK id \in Ids : /\ id \in DOMAIN a /\ id \in DOMAIN b
                        /\ a[id]["proxy_risks"] # b[id]["proxy_risks"]
  BY <1>3, DiffLemma DEF Project
<1>5. \A k \in (fork + 1)..Len(log) :
            (log[k].type = "revise" \/ EventId(log[k]) \in DOMAIN p)
                => "proxy_risks" \notin DOMAIN log[k].payload
  BY <1>1 DEF Declared
<1>6. \A k \in (fork + 1)..Len(branch) :
            (branch[k].type = "revise" \/ EventId(branch[k]) \in DOMAIN p)
                => "proxy_risks" \notin DOMAIN branch[k].payload
  BY <1>1 DEF Declared
<1>7. a[id]["proxy_risks"] = IF id \in DOMAIN p THEN p[id]["proxy_risks"] ELSE 0
  BY <1>1, <1>2, <1>4, <1>5, UncomparedLemma
<1>8. b[id]["proxy_risks"] = IF id \in DOMAIN p THEN p[id]["proxy_risks"] ELSE 0
  <2> DEFINE c == Projections(branch)[fork]
  <2>1. \A k \in (fork + 1)..Len(branch) :
            (branch[k].type = "revise" \/ EventId(branch[k]) \in DOMAIN c)
                => "proxy_risks" \notin DOMAIN branch[k].payload
    BY <1>1, <1>6
  <2>2. b[id]["proxy_risks"] = IF id \in DOMAIN c THEN c[id]["proxy_risks"] ELSE 0
    <3>1. \A n \in fork..Len(branch) :
            id \in DOMAIN Projections(branch)[n] =>
                Projections(branch)[n][id]["proxy_risks"] =
                    IF id \in DOMAIN c THEN c[id]["proxy_risks"] ELSE 0
      <4> HIDE <1>2, <1>3, <1>4, <1>5, <1>6
      <4> QED
        BY <1>1, <2>1, UncomparedLemma
    <3> QED
      BY <1>2, <1>4, <3>1
  <2> QED
    BY <1>1, <2>2
<1> QED
  BY <1>4, <1>7, <1>8

LEMMA RoundTripAlways == LInv => LedgerRoundTrip
<1> SUFFICES ASSUME LInv PROVE LedgerRoundTrip
  OBVIOUS
<1>1. log \in Seq(AnyEvent) /\ Len(log) \in 0..Len(log)
  BY SeqIsAny DEF LInv, LogTypeOK
<1>2. Project(log) \in Ledgers /\ IsFiniteSet(DOMAIN Project(log))
  BY <1>1, ProjectionsLemma, FiniteLemma DEF Project
<1> QED
  BY <1>2, RoundTripLemma DEF LedgerRoundTrip

(* For any ids and values, any length of the log and of its branch: what   *)
(* projection, lineage and difference say of one another is true.          *)
THEOREM QueriesAlwaysAgree == LogSpec => []QueriesAgree
<1>1. LInv => QueriesAgree
  BY LineageAlways, TouchedAlways, MissesAlways, RoundTripAlways DEF QueriesAgree, LInv
<1> QED
  BY <1>1, AlwaysLInv, PTL

-----------------------------------------------------------------------------
(***************************************************************************)
(* The gauge probe.                                                        *)
(***************************************************************************)

(* A variable is declared before anything else is said of it, with a value *)
(* or with None.                                                           *)
LEMMA ValuesLemma ==
    ASSUME NEW s \in Seq(Event), Grown(s)
    PROVE  \A id \in DOMAIN Project(s) : Project(s)[id].value \in Values \cup {None}
<1> DEFINE P(n) == Projections(s)[n]
           Valued(n) == \A id \in DOMAIN P(n) : P(n)[id]["value"] \in Values \cup {None}
           S == {n \in 0..Len(s) : Valued(n)}
<1>1. s \in Seq(AnyEvent) /\ Len(s) \in Nat
  BY SeqIsAny
<1>2. 0 \in S
  <2>1. DOMAIN P(0) = {}
    BY <1>1, ProjectionsLemma
  <2> QED
    BY <1>1, <2>1
<1>3. ASSUME NEW n \in 1..Len(s), n - 1 \in S PROVE n \in S
  <2> DEFINE e == s[n]
  <2>1. Valued(n - 1)
    BY <1>3
  <2>2. n - 1 \in 0..Len(s) /\ n \in 0..Len(s)
    BY <1>1
  <2>3. /\ e \in AnyEvent /\ P(n - 1) \in Ledgers /\ P(n) \in Ledgers
        /\ P(n) = Fold(e, P(n - 1))
    BY <1>1, <2>2, ProjectionsLemma, SMTT(30)
  <2>4. e \in Event /\ e \in Appendable(SubSeq(s, 1, n - 1))
    BY DEF Grown
  <2>5. Project(SubSeq(s, 1, n - 1)) = P(n - 1)
    BY <1>1, <2>2, SubSeqLemma
  <2>6. e.type = "declare" => "value" \in DOMAIN e.payload
    BY <2>4 DEF Appendable, Fields, Compared
  <2>7. e.type = "revise" => EventId(e) \in DOMAIN P(n - 1)
    BY <2>4, <2>5 DEF Appendable, Declared
  <2>8. "value" \in DOMAIN e.payload => e.payload["value"] \in Values \cup {None}
    <3>1. e.payload \in Payloads
      BY <2>4 DEF Event
    <3> QED
      BY <3>1 DEF Payloads
  <2> HIDE DEF P, e
  <2>9. ASSUME NEW id \in DOMAIN P(n) PROVE P(n)[id]["value"] \in Values \cup {None}
    <3>1. id \in Ids /\ "value" \in Fields
      BY <2>3, LedgersLemma DEF Fields, Compared
    <3>2. CASE Sets(e, id, "value")
      <4>1. P(n)[id]["value"] = e.payload["value"]
        BY <2>3, <3>1, <3>2, FieldStep
      <4> QED
        BY <2>8, <3>2, <4>1 DEF Sets
    <3>3. CASE ~Sets(e, id, "value")
      <4>1. id \in DOMAIN P(n - 1)
        <5>1. SUFFICES ASSUME id \notin DOMAIN P(n - 1) PROVE FALSE
          OBVIOUS
        <5>2. EventId(e) = id /\ e.type \in {"declare", "revise"}
          BY <2>3, <2>9, <3>1, <5>1, FieldStep
        <5> QED
          BY <2>6, <2>7, <3>3, <5>1, <5>2 DEF Sets
      <4>2. P(n)[id]["value"] = P(n - 1)[id]["value"]
        BY <2>3, <3>1, <3>3, <4>1, FieldStep
      <4> QED
        BY <2>1, <4>1, <4>2
    <3> QED
      BY <3>2, <3>3
  <2> HIDE DEF Valued
  <2>10. Valued(n)
    BY <2>9 DEF Valued
  <2> QED
    BY <2>2, <2>10
<1>4. \A n \in 0..Len(s) : n \in S
  <2> DEFINE N == Len(s)
  <2>1. \A n \in 1..N : n - 1 \in S => n \in S
    BY <1>3
  <2> HIDE DEF S, N
  <2>2. \A n \in 0..N : n \in S
    BY <1>1, <1>2, <2>1, InductUpTo DEF N
  <2> QED
    BY <2>2 DEF N
<1>5. Valued(Len(s))
  BY <1>1, <1>4
<1> QED
  BY <1>5 DEF Project

(* No value is a text that shows values; and what an agent adds of its own *)
(* is in no variable's place.                                              *)
Distinguishable ==
    /\ "own" \notin Ids
    /\ \A v \in Values, D \in SUBSET (Ids \cup {"metadata", "own"}) :
            v \notin [D -> Values \cup {None}]

Valued(vars) ==
    DOMAIN vars \subseteq Ids /\ \A id \in DOMAIN vars : vars[id].value \in Values \cup {None}

(* What the change of a variable changes.                                  *)
Moves(b, id, c) == IF b[id] = None THEN c = id ELSE b[id] \in Leaves(b[c])

(* A carrier is changed exactly if the value is one of its leaves.         *)
LEMMA SwapLemma ==
    ASSUME NEW x \in Values \cup {None}, NEW old \in Values, NEW new, new # old
    PROVE  Swap(x, old, new) # x <=> old \in Leaves(x)
<1>1. CASE x \in Composites
  <2>1. x = [place \in DOMAIN x |-> x[place]] /\ Leaves(x) = {x[place] : place \in DOMAIN x}
    BY <1>1, GaugeAssumption DEF Leaves, Range
  <2>2. Swap(x, old, new) = [place \in DOMAIN x |-> IF x[place] = old THEN new ELSE x[place]]
    BY <1>1 DEF Swap
  <2>3. ASSUME old \in Leaves(x) PROVE Swap(x, old, new) # x
    <3>1. PICK place \in DOMAIN x : x[place] = old
      BY <2>1, <2>3
    <3>2. Swap(x, old, new)[place] = new
      BY <2>2, <3>1
    <3> QED
      BY <3>1, <3>2
  <2>4. ASSUME old \notin Leaves(x) PROVE Swap(x, old, new) = x
    <3>1. \A place \in DOMAIN x : x[place] # old
      BY <2>1, <2>4
    <3>2. Swap(x, old, new) = [place \in DOMAIN x |-> x[place]]
      BY <2>2, <3>1
    <3> QED
      BY <2>1, <3>2
  <2> QED
    BY <2>3, <2>4
<1>2. CASE x \notin Composites
  BY <1>2 DEF Leaves, Swap
<1> QED
  BY <1>1, <1>2

(* What the probe changes, and what it changes it to.                      *)
LEMMA BundleLemma ==
    ASSUME NEW vars, Valued(vars), NEW id \in Declared(vars), NEW meta \in Values,
           NEW proxy \in AltValues(vars, id)
    PROVE  LET b == Bundle(vars, [metadata |-> meta]) IN
           /\ b \in [DOMAIN vars \cup {"metadata"} -> Values \cup {None}]
           /\ \A i \in DOMAIN vars : b[i] = vars[i].value
           /\ proxy # b[id]
           /\ b[id] # None => \A c \in DOMAIN b :
                Sweep(b, id, proxy)[c] = Swap(b[c], b[id], proxy)
           /\ \A c \in DOMAIN b : Sweep(b, id, proxy)[c] # b[c] <=> Moves(b, id, c)
<1> DEFINE b == Bundle(vars, [metadata |-> meta])
           s == Sweep(b, id, proxy)
           C == DOMAIN vars \cup {"metadata"}
<1>1. b = [c \in C |-> IF c \in DOMAIN vars THEN vars[c].value ELSE meta]
  BY DEF Bundle, Over, Declared
<1>2. b \in [C -> Values \cup {None}] /\ \A i \in DOMAIN vars : b[i] = vars[i].value
  BY <1>1 DEF Valued
<1> HIDE DEF b
<1>3. id \in DOMAIN vars /\ id \in C /\ b[id] \in Values \cup {None} /\ b[id] = vars[id].value
  BY <1>2 DEF Declared
<1>4. proxy # b[id]
  BY <1>3, GaugeAssumption DEF AltValues
<1>5. CASE b[id] = None
  <2>1. s = [b EXCEPT ![id] = proxy]
    BY <1>5 DEF Sweep
  <2>2. \A c \in DOMAIN b : s[c] # b[c] <=> Moves(b, id, c)
    BY <1>2, <1>3, <1>4, <1>5, <2>1 DEF Moves
  <2> QED
    BY <1>2, <1>4, <1>5, <2>2 DEF b
<1>6. CASE b[id] # None
  <2>1. s = [c \in DOMAIN b |-> Swap(b[c], b[id], proxy)]
    BY <1>6 DEF Sweep
  <2>2. ASSUME NEW c \in DOMAIN b PROVE s[c] # b[c] <=> Moves(b, id, c)
    <3>1. b[c] \in Values \cup {None} /\ b[id] \in Values
      BY <1>2, <1>3, <1>6
    <3>2. s[c] = Swap(b[c], b[id], proxy)
      BY <2>1
    <3> QED
      BY <1>4, <1>6, <3>1, <3>2, SwapLemma DEF Moves
  <2>3. \A c \in DOMAIN b : s[c] = Swap(b[c], b[id], proxy)
    BY <2>1
  <2> QED
    BY <1>2, <1>4, <2>2, <2>3 DEF b
<1> QED
  BY <1>5, <1>6

LEMMA EarnedAlways ==
    ASSUME Distinguishable, Valued(Project(log))
    PROVE  VerdictIsEarned
<1> DEFINE vars == Project(log)
<1> SUFFICES ASSUME NEW id \in Declared(vars), NEW meta \in Values,
                    NEW own \in Values \cup {None}, NEW encoded \in BOOLEAN,
                    NEW reads \in SUBSET (Declared(vars) \cup {"metadata"}),
                    NEW proxy \in AltValues(vars, id)
             PROVE  LET bundle == Bundle(vars, [metadata |-> meta])
                        carried == IF bundle[id] = None THEN id \in reads
                                   ELSE \E c \in reads : bundle[id] \in Leaves(bundle[c])
                        shown == bundle[id] # None /\ ~encoded /\ bundle[id] \in Leaves(own)
                        commit == [b \in Probed(bundle, id, proxy) |->
                                        AgentCommit(reads, own, encoded, b)]
                    IN Verdict(bundle, id, proxy, commit) =
                        IF carried THEN "gauge_fixed"
                        ELSE IF shown THEN "invariant_but_value_present"
                        ELSE "invariant_and_absent"
  BY DEF VerdictIsEarned
<1> DEFINE b == Bundle(vars, [metadata |-> meta])
           s == Sweep(b, id, proxy)
           carried == IF b[id] = None THEN id \in reads
                      ELSE \E c \in reads : b[id] \in Leaves(b[c])
           own_shows == b[id] # None /\ ~encoded /\ b[id] \in Leaves(own)
           commit == [x \in Probed(b, id, proxy) |-> AgentCommit(reads, own, encoded, x)]
           Shown(x) == [c \in reads \cup {"own"} |-> IF c \in reads THEN x[c] ELSE own]
<1>1. /\ b \in [DOMAIN vars \cup {"metadata"} -> Values \cup {None}]
      /\ \A c \in DOMAIN b : s[c] # b[c] <=> Moves(b, id, c)
  BY BundleLemma
<1>2. reads \subseteq DOMAIN b /\ b[id] \in Values \cup {None}
  BY <1>1 DEF Declared
<1>3. commit[b] = AgentCommit(reads, own, encoded, b)
      /\ commit[s] = AgentCommit(reads, own, encoded, s)
  BY DEF Probed
<1> HIDE DEF commit, s, b, vars
<1>4. \A x : AgentCommit(reads, own, encoded, x)
                = IF encoded THEN [signature |-> Shown(x)] ELSE Shown(x)
  BY DEF AgentCommit, Over
<1>5. Shown(s) = Shown(b) <=> ~carried
  <2>1. carried <=> \E c \in reads : Moves(b, id, c)
    BY DEF Moves
  <2>2. ASSUME NEW c \in reads, s[c] # b[c] PROVE Shown(s) # Shown(b)
    <3>1. Shown(s)[c] = s[c] /\ Shown(b)[c] = b[c]
      OBVIOUS
    <3> QED
      BY <2>2, <3>1
  <2>3. ASSUME \A c \in reads : s[c] = b[c] PROVE Shown(s) = Shown(b)
    BY <2>3
  <2> QED
    BY <1>1, <1>2, <2>1, <2>2, <2>3
<1>6. commit[s] # commit[b] <=> carried
  <2> HIDE DEF Shown, carried
  <2>1. CASE encoded
    <3>1. /\ commit[s] = [signature |-> Shown(s)]
          /\ commit[b] = [signature |-> Shown(b)]
      <4>1. /\ AgentCommit(reads, own, encoded, s) = [signature |-> Shown(s)]
            /\ AgentCommit(reads, own, encoded, b) = [signature |-> Shown(b)]
        BY <1>4, <2>1
      <4> QED
        BY <1>3, <4>1
    <3>2. \A x, y : [signature |-> x] = [signature |-> y] <=> x = y
      <4> TAKE x, y
      <4>1. [signature |-> x].signature = x /\ [signature |-> y].signature = y
        OBVIOUS
      <4> QED
        BY <4>1
    <3> QED
      BY <1>5, <3>1, <3>2, Zenon
  <2>2. CASE ~encoded
    BY <1>3, <1>4, <1>5, <2>2
  <2> QED
    BY <2>1, <2>2
<1>7. ~carried => (ValuePresent(b, id, commit) <=> own_shows)
  <2> SUFFICES ASSUME ~carried, b[id] # None
               PROVE  (\E x \in Range(commit[b]) : b[id] \in Leaves(x))
                            <=> ~encoded /\ b[id] \in Leaves(own)
    BY DEF ValuePresent
  <2>1. CASE encoded
    <3>1. commit[b] = [signature |-> Shown(b)]
      BY <1>3, <1>4, <2>1
    <3>2. Range(commit[b]) = {Shown(b)}
      <4> HIDE DEF Shown
      <4> QED
        BY <3>1 DEF Range
    <3>3. Shown(b) \in [reads \cup {"own"} -> Values \cup {None}]
      BY <1>1, <1>2
    <3>4. reads \cup {"own"} \in SUBSET (Ids \cup {"metadata", "own"})
      BY DEF Valued, Declared, vars
    <3>5. Shown(b) \notin Values
      <4> HIDE DEF Shown
      <4> QED
        BY <3>3, <3>4 DEF Distinguishable
    <3>6. Leaves(Shown(b)) = {Shown(b)} /\ b[id] # Shown(b)
      <4> HIDE DEF Shown
      <4> QED
        BY <1>2, <2>1, <3>5, GaugeAssumption DEF Leaves
    <3> HIDE DEF Shown
    <3> QED
      BY <2>1, <3>2, <3>6
  <2>2. CASE ~encoded
    <3>1. commit[b] = Shown(b)
      BY <1>3, <1>4, <2>2
    <3>2. "own" \notin reads
      BY DEF Distinguishable, Valued, Declared, vars
    <3>3. Range(Shown(b)) = {b[c] : c \in reads} \cup {own}
      BY <3>2 DEF Range
    <3>4. \A c \in reads : b[id] \notin Leaves(b[c])
      OBVIOUS
    <3> HIDE DEF Shown, carried
    <3> QED
      BY <2>2, <3>1, <3>3, <3>4
  <2> QED
    BY <2>1, <2>2
<1> HIDE DEF carried, own_shows
<1>8. Verdict(b, id, proxy, commit) =
        IF carried THEN "gauge_fixed"
        ELSE IF own_shows THEN "invariant_but_value_present"
        ELSE "invariant_and_absent"
  BY <1>6, <1>7 DEF Verdict, CommitmentChanged, s
<1> QED
  BY <1>8 DEF b, commit, carried, own_shows, vars

LEMMA TrackingAlways ==
    ASSUME Valued(Project(log))
    PROVE  TrackingIsPresence
<1> DEFINE vars == Project(log)
<1> SUFFICES ASSUME NEW id \in Declared(vars), vars[id].value # None, NEW meta \in Values,
                    NEW leaf \in (Values \ Composites) \cup {Sentinel, None},
                    NEW proxy \in AltValues(vars, id)
             PROVE  LET bundle == Bundle(vars, [metadata |-> meta])
                        commit == [b \in Probed(bundle, id, proxy) |->
                                        TrackingCommit(vars, leaf, b)]
                    IN Verdict(bundle, id, proxy, commit) =
                        IF leaf = bundle[id] THEN "gauge_fixed" ELSE "invariant_and_absent"
  BY DEF TrackingIsPresence
<1> DEFINE b == Bundle(vars, [metadata |-> meta])
           s == Sweep(b, id, proxy)
           commit == [x \in Probed(b, id, proxy) |-> TrackingCommit(vars, leaf, x)]
           held == \E i \in Declared(vars) : vars[i].value = leaf
           holder == CHOOSE i \in Declared(vars) : vars[i].value = leaf
           Leaf(x) == IF held THEN x[holder] ELSE leaf
<1>1. /\ b \in [DOMAIN vars \cup {"metadata"} -> Values \cup {None}]
      /\ \A i \in DOMAIN vars : b[i] = vars[i].value
      /\ proxy # b[id]
      /\ b[id] # None => \A c \in DOMAIN b : s[c] = Swap(b[c], b[id], proxy)
  <2> HIDE DEF vars
  <2>1. Valued(vars)
    BY DEF vars
  <2> QED
    BY <2>1, BundleLemma, SMTT(30)
<1>2. commit[b] = [leaf |-> Leaf(b)] /\ commit[s] = [leaf |-> Leaf(s)]
  BY DEF Probed, TrackingCommit
<1>3. held => holder \in DOMAIN vars /\ b[holder] = leaf /\ holder \in DOMAIN b
  <2>1. held => holder \in Declared(vars) /\ vars[holder].value = leaf
    OBVIOUS
  <2> HIDE DEF held, holder, vars, b, s
  <2> QED
    BY <1>1, <2>1 DEF Declared
<1>4. id \in DOMAIN vars /\ id \in DOMAIN b /\ b[id] = vars[id].value /\ b[id] # None
  BY <1>1 DEF Declared
<1>5. leaf = b[id] => held
  BY <1>4
<1>6. leaf \notin Composites
  BY NoneAssumption, GaugeAssumption
<1> HIDE DEF held, holder, s, b, vars, commit
<1>7. Leaf(b) = leaf
  BY <1>3
<1>8. Leaf(s) # leaf <=> leaf = b[id]
  <2>1. held => Leaf(s) = IF leaf = b[id] THEN proxy ELSE leaf
    BY <1>1, <1>3, <1>4, <1>6 DEF Swap
  <2> QED
    BY <1>1, <1>5, <2>1
<1> HIDE DEF Leaf
<1>9. commit[s] # commit[b] <=> leaf = b[id]
  <2>1. commit[s].leaf = Leaf(s) /\ commit[b].leaf = Leaf(b)
    BY <1>2
  <2> QED
    BY <1>2, <1>7, <1>8, <2>1
<1>10. ValuePresent(b, id, commit) <=> leaf = b[id]
  <2>1. Range(commit[b]) = {Leaf(b)}
    BY <1>2 DEF Range
  <2>2. Leaves(leaf) = {leaf}
    BY <1>6 DEF Leaves
  <2> QED
    BY <1>4, <1>7, <2>1, <2>2 DEF ValuePresent
<1>11. Verdict(b, id, proxy, commit) =
            IF leaf = b[id] THEN "gauge_fixed" ELSE "invariant_and_absent"
  BY <1>9, <1>10 DEF Verdict, CommitmentChanged, s
<1> QED
  BY <1>11 DEF b, commit, vars

(* For any ledger a log comes to, whatever an agent reads and however it   *)
(* writes it down: the verdict of the gauge probe is earned, and that of a *)
(* payload says whether the value is there.                                *)
THEOREM VerdictsAlwaysEarned ==
    ASSUME Distinguishable
    PROVE  LogSpec => []VerdictsAreEarned
<1>1. LInv => VerdictsAreEarned
  <2> SUFFICES ASSUME LInv PROVE VerdictsAreEarned
    OBVIOUS
  <2>1. log \in Seq(Event) /\ log \in Seq(AnyEvent) /\ Grown(log) /\ Len(log) \in 0..Len(log)
    BY SeqIsAny DEF LInv, LogTypeOK
  <2>2. Project(log) \in Ledgers
    BY <2>1, ProjectionsLemma DEF Project
  <2>3. Valued(Project(log))
    BY <2>1, <2>2, LedgersLemma, ValuesLemma DEF Valued
  <2> QED
    BY <2>3, EarnedAlways, TrackingAlways DEF VerdictsAreEarned
<1> QED
  BY <1>1, AlwaysLInv, PTL

-----------------------------------------------------------------------------
(***************************************************************************)
(* The search over the knobs.                                              *)
(***************************************************************************)

Decisions == {"promote", "discard"}

SearchNote == [kind : {"baseline", "baseline_metrics"} \cup Decisions,
               trial : Trial \cup {NoTrial}]

SearchFile == [run : Nat, promoted : Nat]

SearchTypes ==
    /\ require \in {"yes", "no", "no seeds"} /\ literal \in BOOLEAN
    /\ run \in 1..MaxRuns /\ at \in 0..(Len(Grid) + 1) /\ sampled \in BOOLEAN
    /\ baseline \in Measures \cup {NoMeasure}
    /\ trials \in Seq(Trial) /\ events \in Seq(SearchNote)
    /\ files \in [{"result", "log"} -> SearchFile]

(* A point that has passed the in-sample gate is being tried, and had its  *)
(* thresholds in order.                                                    *)
SampledInOrder == sampled => Tried /\ Ordered(Grid[at].thresholds)

Points == {n \in 1..(at - 1) : Grid[n] # Baseline}

(* The trials are of the points passed over, one of each.                  *)
OnePerPoint ==
    /\ Len(trials) = Cardinality(Points)
    /\ {trials[n].point : n \in DOMAIN trials} = Points
    /\ \A i, j \in DOMAIN trials : i < j => trials[i].point < trials[j].point

(* What a trial that is promoted has to show.                              *)
Deserved(t) ==
    /\ Ordered(Grid[t.point].thresholds)
    /\ t.measure.falseBlock <= MaxFalseBlock /\ t.measure.catch >= MinCatch
    /\ Objective(t.measure) > Objective(baseline)
    /\ require # "no seeds" /\ ~SameAsBaseline(Grid[t.point])

AllDeserved == \A n \in Promotions(trials) : Deserved(trials[n])

(* The b-th trial is the first of the best.                                *)
FirstBest(ts, b) ==
    /\ b \in Promotions(ts)
    /\ \A n \in Promotions(ts) :
        /\ Objective(ts[n].measure) <= Objective(ts[b].measure)
        /\ n < b => Objective(ts[n].measure) < Objective(ts[b].measure)

BestIsFirst ==
    \/ Promotions(trials) = {} /\ best = NoTrial
    \/ \E b \in Promotions(trials) : FirstBest(trials, b) /\ best = trials[b]

(* The files of this process tell of its end, and no file is of a later    *)
(* one.                                                                    *)
FilesOfRuns ==
    /\ files["log"].run <= files["result"].run /\ files["result"].run <= run
    /\ files["result"].run = files["log"].run => files["result"] = files["log"]
    /\ files["result"].run = run => files["result"] = Written /\ at > Len(Grid)

SInv ==
    /\ SearchTypes /\ SampledInOrder
    /\ OnePerPoint /\ AllDeserved /\ BestIsFirst
    /\ Told(events) = trials
    /\ FilesOfRuns

-----------------------------------------------------------------------------

(* The grid is a sequence, and only its length and the thresholds of its   *)
(* points matter: each is computed from a normal one.                      *)
LEMMA GridLemma ==
    /\ Len(Grid) \in Nat /\ DOMAIN Grid = 1..Len(Grid)
    /\ \A i \in DOMAIN Grid : \E normal : Grid[i].thresholds = Thresholds(normal)
<1> DEFINE n == Len(Normals)
           c == Len(MinConcerns)
           L == Len(Budgets) * c * n
           knobs(i) == [gauge_probe_budget |-> Budgets[((i - 1) \div (c * n)) + 1],
                        gauge_min_concern |-> MinConcerns[(((i - 1) \div n) % c) + 1],
                        thresholds |-> Thresholds(Normals[((i - 1) % n) + 1])]
<1>1. Grid = [i \in 1..L |-> knobs(i)]
  BY DEF Grid
<1>2. L \in Nat
  <2>1. Len(Budgets) \in Nat /\ c \in Nat /\ n \in Nat
    BY SearchAssumption
  <2> DEFINE b == Len(Budgets)
  <2> HIDE DEF b, c, n
  <2>2. \A x, y \in Nat : x * y \in Nat
    OBVIOUS
  <2>3. b * c \in Nat
    BY <2>1, <2>2 DEF b
  <2>4. (b * c) * n \in Nat
    BY <2>1, <2>2, <2>3
  <2> QED
    BY <2>4 DEF b
<1>3. \A i : knobs(i).thresholds = Thresholds(Normals[((i - 1) % n) + 1])
  OBVIOUS
<1> HIDE DEF L, knobs, n, c
<1>4. DOMAIN Grid = 1..L /\ \A i \in 1..L : Grid[i] = knobs(i)
  BY <1>1
<1>5. Len(Grid) = L
  <2> DEFINE V == {knobs(i) : i \in 1..L}
  <2>1. Grid \in [1..L -> V]
    BY <1>1
  <2> HIDE DEF V
  <2> QED
    BY <1>2, <2>1
<1> QED
  BY <1>2, <1>3, <1>4, <1>5

(* The default baseline is no point of the grid.                           *)
LEMMA LiteralLemma ==
    ASSUME literal, NEW i \in DOMAIN Grid
    PROVE  Grid[i] # Baseline
<1>1. PICK normal : Grid[i].thresholds = Thresholds(normal)
  BY GridLemma
<1>2. SUFFICES ASSUME Grid[i] = Baseline PROVE FALSE
  OBVIOUS
<1>3. Thresholds(normal) = [low_risk |-> 6500, normal |-> 4500, high_risk |-> 2500,
                            irreversible |-> 1500]
  BY <1>1, <1>2 DEF Baseline
<1>4. normal = 4500
  BY <1>3 DEF Thresholds
<1>5. Thresholds(normal).irreversible = 1501
  BY <1>4 DEF Thresholds, Most, Minus
<1> QED
  BY <1>3, <1>5

(* What the notes tell is told note by note.                               *)
ToldBy(l, f) ==
    f = [n \in 0..Len(l) |->
            IF n = 0 THEN <<>>
            ELSE IF l[n].kind \in {"promote", "discard"} THEN Append(f[n - 1], l[n].trial)
            ELSE f[n - 1]]

LEMMA ToldLemma ==
    ASSUME NEW l \in Seq(SearchNote)
    PROVE  \E f \in [0..Len(l) -> Seq(Trial \cup {NoTrial})] :
                /\ Told(l) = f[Len(l)] /\ ToldBy(l, f)
                /\ \A h : ToldBy(l, h) => h = f
<1> DEFINE N == Len(l)
           V == Seq(Trial \cup {NoTrial})
           next(n, ts) == IF l[n].kind \in {"promote", "discard"}
                          THEN Append(ts, l[n].trial) ELSE ts
           step == [x \in (1..N) \X V |-> next(x[1], x[2])]
<1>1. N \in Nat /\ \A n \in 1..N : l[n] \in SearchNote
  OBVIOUS
<1>2. <<>> \in V
  OBVIOUS
<1>3. step \in [(1..N) \X V -> V]
  <2>1. ASSUME NEW n \in 1..N, NEW ts \in V PROVE next(n, ts) \in V
    <3>1. l[n].trial \in Trial \cup {NoTrial}
      BY <1>1 DEF SearchNote
    <3>2. Append(ts, l[n].trial) \in V
      BY <3>1
    <3> QED
      BY <3>2
  <2> HIDE DEF next, V, N
  <2> QED
    BY <2>1
<1>4. PICK g : Computes(g, V, <<>>, step, N)
  <2> HIDE DEF step, N, V
  <2> QED
    BY <1>1, <1>2, <1>3, Recursion
<1>5. g \in [0..N -> V] /\ g[0] = <<>>
  BY <1>4 DEF Computes
<1>6. \A n \in 1..N : g[n] = next(n, g[n - 1])
  <2> SUFFICES ASSUME NEW n \in 1..N PROVE g[n] = next(n, g[n - 1])
    OBVIOUS
  <2>1. n - 1 \in 0..N
    BY <1>1
  <2> HIDE DEF next, V
  <2>2. <<n, g[n - 1]>> \in (1..N) \X V
    BY <1>5, <2>1
  <2>3. step[<<n, g[n - 1]>>] = next(n, g[n - 1])
    BY <2>2
  <2>4. g[n] = step[<<n, g[n - 1]>>]
    BY <1>4 DEF Computes
  <2> QED
    BY <2>3, <2>4
<1>7. ToldBy(l, g)
  <2> HIDE DEF N, V
  <2>1. \A n \in 0..N : n # 0 => n \in 1..N
    BY <1>1
  <2> QED
    BY <1>5, <1>6, <2>1 DEF ToldBy, N
<1>8. ASSUME NEW h, ToldBy(l, h) PROVE h = g
  <2> DEFINE S == {n \in 0..N : h[n] = g[n]}
  <2>0. /\ h = [n \in 0..N |-> h[n]] /\ h[0] = <<>>
        /\ \A n \in 1..N : h[n] = next(n, h[n - 1])
    <3>1. h = [n \in 0..N |-> IF n = 0 THEN <<>> ELSE next(n, h[n - 1])]
      BY <1>8 DEF ToldBy
    <3> HIDE DEF next, N
    <3> QED
      BY <1>1, <3>1
  <2>1. 0 \in S
    BY <1>1, <1>5, <2>0
  <2>2. ASSUME NEW n \in 1..N, n - 1 \in S PROVE n \in S
    <3>1. h[n] = next(n, h[n - 1]) /\ g[n] = next(n, g[n - 1])
      BY <1>6, <2>0
    <3> HIDE DEF next
    <3> QED
      BY <1>1, <2>2, <3>1
  <2>3. \A n \in 0..N : n \in S
    <3> HIDE DEF S, N
    <3> QED
      BY <1>1, <2>1, <2>2, InductUpTo
  <2> QED
    BY <1>5, <2>0, <2>3
<1>9. Told(l) = (CHOOSE f : ToldBy(l, f))[N]
  BY DEF Told, ToldBy
<1>10. Told(l) = g[N]
  <2> HIDE DEF N
  <2>1. ToldBy(l, CHOOSE f : ToldBy(l, f))
    BY <1>7
  <2> QED
    BY <1>8, <1>9, <2>1
<1> QED
  BY <1>5, <1>7, <1>8, <1>10

(* One note more tells of one trial more, if it is a decision.             *)
LEMMA ToldAppend ==
    ASSUME NEW l \in Seq(SearchNote), NEW e \in SearchNote
    PROVE  Told(Append(l, e)) = IF e.kind \in {"promote", "discard"}
                                THEN Append(Told(l), e.trial) ELSE Told(l)
<1> DEFINE k == Append(l, e)
           N == Len(l)
<1>1. /\ k \in Seq(SearchNote) /\ N \in Nat /\ Len(k) = N + 1
      /\ k[N + 1] = e /\ \A n \in 1..N : k[n] = l[n]
  OBVIOUS
<1>2. PICK f \in [0..N -> Seq(Trial \cup {NoTrial})] : Told(l) = f[N] /\ ToldBy(l, f)
  BY ToldLemma
<1> HIDE DEF k
<1>3. PICK g \in [0..Len(k) -> Seq(Trial \cup {NoTrial})] :
            Told(k) = g[Len(k)] /\ ToldBy(k, g)
  BY <1>1, ToldLemma
<1> DEFINE S == {n \in 0..N : f[n] = g[n]}
<1> DEFINE onF(n) == IF l[n].kind \in {"promote", "discard"}
                     THEN Append(f[n - 1], l[n].trial) ELSE f[n - 1]
           onG(n) == IF k[n].kind \in {"promote", "discard"}
                     THEN Append(g[n - 1], k[n].trial) ELSE g[n - 1]
<1>0. /\ f = [n \in 0..N |-> IF n = 0 THEN <<>> ELSE onF(n)]
      /\ g = [n \in 0..Len(k) |-> IF n = 0 THEN <<>> ELSE onG(n)]
  BY <1>2, <1>3 DEF ToldBy
<1> HIDE DEF onF, onG, N
<1>4. f[0] = <<>> /\ g[0] = <<>>
  BY <1>0, <1>1
<1>5. \A n \in 1..N : n \in 1..(N + 1) /\ f[n] = onF(n)
  BY <1>0, <1>1
<1>6. \A n \in 1..(N + 1) : g[n] = onG(n)
  BY <1>0, <1>1
<1>7. 0 \in S
  BY <1>1, <1>4
<1>8. ASSUME NEW n \in 1..N, n - 1 \in S PROVE n \in S
  <2>1. f[n] = onF(n) /\ g[n] = onG(n) /\ n \in 0..N
    BY <1>1, <1>5, <1>6
  <2>2. f[n - 1] = g[n - 1] /\ k[n] = l[n]
    BY <1>1, <1>8
  <2> QED
    BY <2>1, <2>2 DEF onF, onG
<1>9. \A n \in 0..N : n \in S
  <2> HIDE DEF S, N
  <2> QED
    BY <1>1, <1>7, <1>8, InductUpTo
<1>10. f[N] = g[N]
  BY <1>1, <1>9
<1>11. g[N + 1] = IF e.kind \in {"promote", "discard"}
                  THEN Append(g[N], e.trial) ELSE g[N]
  <2>1. N + 1 \in 1..(N + 1) /\ (N + 1) - 1 = N
    BY <1>1
  <2>2. g[N + 1] = onG(N + 1)
    BY <1>6, <2>1
  <2> QED
    BY <1>1, <2>1, <2>2 DEF onG
<1> QED
  BY <1>1, <1>2, <1>3, <1>10, <1>11 DEF k

-----------------------------------------------------------------------------
(***************************************************************************)
(* Every step of the search keeps the invariant.                           *)
(***************************************************************************)

(* A process that has just started, whatever files it finds.               *)
Fresh ==
    /\ require \in {"yes", "no", "no seeds"} /\ literal \in BOOLEAN
    /\ run \in 1..MaxRuns /\ at = 0 /\ sampled = FALSE /\ baseline = NoMeasure
    /\ trials = <<>> /\ best = NoTrial /\ events = <<Note("baseline", NoTrial)>>
    /\ files \in [{"result", "log"} -> SearchFile]
    /\ files["log"].run <= files["result"].run /\ files["result"].run < run
    /\ files["result"].run = files["log"].run => files["result"] = files["log"]

LEMMA FreshInv == Fresh => SInv
<1> SUFFICES ASSUME Fresh PROVE SInv
  OBVIOUS
<1> DEFINE e == Note("baseline", NoTrial)
<1>1. require \in {"yes", "no", "no seeds"} /\ literal \in BOOLEAN
  BY Zenon DEF Fresh
<1>2. run \in 1..MaxRuns /\ at = 0 /\ sampled = FALSE /\ baseline = NoMeasure
  BY Zenon DEF Fresh
<1>3. files \in [{"result", "log"} -> SearchFile]
  BY Zenon DEF Fresh
<1>4. trials = <<>> /\ best = NoTrial /\ events = <<e>>
  BY Zenon DEF Fresh
<1>5. e \in SearchNote /\ e.kind \notin {"promote", "discard"}
  BY DEF Note, SearchNote
<1>6. /\ files["log"].run <= files["result"].run /\ files["result"].run < run
      /\ files["result"].run = files["log"].run => files["result"] = files["log"]
  BY Zenon DEF Fresh
<1> HIDE DEF e
<1>7. SearchTypes
  <2>1. at \in 0..(Len(Grid) + 1)
    <3>1. 0 \in 0..(Len(Grid) + 1)
      BY GridLemma
    <3> QED
      BY <1>2, <3>1
  <2>2. trials \in Seq(Trial) /\ events \in Seq(SearchNote)
    BY <1>4, <1>5
  <2> QED
    BY <1>1, <1>2, <1>3, <2>1, <2>2 DEF SearchTypes
<1>8. Len(trials) = 0 /\ DOMAIN trials = {}
  BY <1>4
<1>9. OnePerPoint
  <2>1. Points = {}
    <3>1. 1..(at - 1) = {}
      BY <1>2
    <3> QED
      BY <3>1 DEF Points
  <2>2. Cardinality({}) = 0
    BY FS_EmptySet
  <2> QED
    BY <1>8, <2>1, <2>2 DEF OnePerPoint
<1>10. AllDeserved /\ BestIsFirst
  BY <1>4, <1>8 DEF AllDeserved, BestIsFirst, Promotions
<1>11. Told(events) = trials
  <2>1. events = Append(<<>>, e) /\ <<>> \in Seq(SearchNote) /\ Len(<<>>) = 0
    BY <1>4, <1>5
  <2>2. Told(<<>>) = <<>>
    <3>1. PICK f : Told(<<>>) = f[Len(<<>>)] /\ ToldBy(<<>>, f)
      BY <2>1, ToldLemma
    <3>2. f = [n \in 0..0 |-> IF n = 0 THEN <<>>
                              ELSE IF <<>>[n].kind \in {"promote", "discard"}
                              THEN Append(f[n - 1], <<>>[n].trial) ELSE f[n - 1]]
      BY <2>1, <3>1 DEF ToldBy
    <3>3. f[0] = <<>>
      BY <3>2
    <3> QED
      BY <2>1, <3>1, <3>3
  <2>3. Told(Append(<<>>, e)) = Told(<<>>)
    BY <1>5, <2>1, ToldAppend
  <2> QED
    BY <1>4, <2>1, <2>2, <2>3
<1>12. FilesOfRuns
  <2>1. files["result"].run \in Nat
    BY <1>3 DEF SearchFile
  <2> QED
    BY <1>2, <1>6, <2>1 DEF FilesOfRuns
<1>13. SampledInOrder
  BY <1>2 DEF SampledInOrder
<1> QED
  BY <1>7, <1>9, <1>10, <1>11, <1>12, <1>13 DEF SInv

LEMMA SearchInitInv == SearchInit => SInv
<1> SUFFICES ASSUME SearchInit PROVE Fresh
  BY FreshInv
<1>1. 1 \in 1..MaxRuns /\ NoFile \in SearchFile /\ NoFile.run = 0
  BY SearchAssumption DEF NoFile, SearchFile
<1>2. files = [result |-> NoFile, log |-> NoFile] /\ run = 1
  BY Zenon DEF SearchInit
<1>3. /\ files \in [{"result", "log"} -> SearchFile]
      /\ files["log"].run <= files["result"].run /\ files["result"].run < run
      /\ files["result"].run = files["log"].run => files["result"] = files["log"]
  BY <1>1, <1>2
<1> QED
  BY <1>1, <1>2, <1>3, Zenon DEF SearchInit, Fresh

LEMMA BaselineKept == literal' = literal => Baseline' = Baseline
BY DEF Baseline

(* The points passed over when the search goes on.                         *)
LEMMA PointsStep ==
    ASSUME SearchTypes, Searching, at' = at + 1, literal' = literal
    PROVE  /\ Points' = IF Grid[at] # Baseline THEN Points \cup {at} ELSE Points
           /\ IsFiniteSet(Points) /\ at \notin Points /\ \A n \in Points : n < at
           /\ at' \in 0..(Len(Grid) + 1) /\ at \in 1..Len(Grid)
<1>1. at \in 1..Len(Grid) /\ Len(Grid) \in Nat
  BY GridLemma DEF Searching
<1>2. at' \in 0..(Len(Grid) + 1)
  BY <1>1
<1>3. IsFiniteSet(Points)
  <2>1. at - 1 \in Int /\ 1 \in Int
    BY <1>1
  <2>2. IsFiniteSet(1..(at - 1))
    BY <2>1, FS_Interval
  <2>3. Points \in SUBSET (1..(at - 1))
    BY DEF Points
  <2> QED
    BY <2>2, <2>3, FS_Subset
<1>4. at \notin Points /\ \A n \in Points : n < at
  BY <1>1 DEF Points
<1>5. 1..(at' - 1) = 1..(at - 1) \cup {at}
  BY <1>1
<1>6. Points' = {n \in 1..(at' - 1) : Grid[n] # Baseline}
  BY BaselineKept DEF Points
<1>7. Points' = IF Grid[at] # Baseline THEN Points \cup {at} ELSE Points
  BY <1>5, <1>6 DEF Points
<1> QED
  BY <1>1, <1>2, <1>3, <1>4, <1>7

(* What a decision does to the trials and to the notes.                    *)
LEMMA DecideTrials ==
    ASSUME SInv, Tried, NEW m \in Measures \cup {NoMeasure}, NEW decision \in Decisions,
           NEW stage \in {"static", "in_sample", "held_out", "contamination"},
           Decide(m, decision, stage)
    PROVE  LET t == [point |-> at, measure |-> m, decision |-> decision, stage |-> stage]
           IN /\ t \in Trial /\ trials' = Append(trials, t)
              /\ SearchTypes' /\ SampledInOrder' /\ OnePerPoint' /\ Told(events)' = trials'
<1> DEFINE t == [point |-> at, measure |-> m, decision |-> decision, stage |-> stage]
           e == Note(decision, t)
<1>1. at \in 1..Len(Grid) /\ Searching /\ Grid[at] # Baseline
  BY GridLemma DEF Tried, Searching
<1>2. t \in Trial
  BY <1>1 DEF Trial, Decisions
<1>3. /\ trials' = Append(trials, t) /\ events' = Append(events, e)
      /\ at' = at + 1 /\ sampled' = FALSE
      /\ UNCHANGED <<require, literal, run, baseline, files>>
  BY DEF Decide
<1>4. e \in SearchNote /\ e.kind = decision /\ e.trial = t
  BY <1>2 DEF Note, SearchNote
<1> HIDE DEF t, e
<1>5. /\ SearchTypes /\ trials \in Seq(Trial) /\ events \in Seq(SearchNote)
      /\ OnePerPoint /\ Told(events) = trials
  BY DEF SInv, SearchTypes
<1>6. /\ Points' = Points \cup {at} /\ IsFiniteSet(Points) /\ at \notin Points
      /\ \A n \in Points : n < at
      /\ at' \in 0..(Len(Grid) + 1)
  BY <1>1, <1>3, <1>5, PointsStep
<1>7. trials' \in Seq(Trial) /\ events' \in Seq(SearchNote)
  BY <1>2, <1>3, <1>4, <1>5
<1>8. SearchTypes'
  BY <1>3, <1>5, <1>6, <1>7 DEF SearchTypes
<1>9. SampledInOrder'
  BY <1>3 DEF SampledInOrder
<1>10. Told(events)' = trials'
  <2>1. Told(events)' = Told(events')
    BY DEF Told
  <2>2. Told(Append(events, e)) = Append(Told(events), t)
    BY <1>4, <1>5, ToldAppend DEF Decisions
  <2> QED
    BY <1>3, <1>5, <2>1, <2>2
<1>11. OnePerPoint'
  <2> DEFINE N == Len(trials)
  <2>1. /\ N \in Nat /\ Len(trials') = N + 1 /\ DOMAIN trials = 1..N
        /\ DOMAIN trials' = 1..(N + 1)
        /\ \A i \in 1..N : trials'[i] = trials[i]
        /\ trials'[N + 1] = t /\ t.point = at
    BY <1>3, <1>5 DEF t
  <2>2. /\ N = Cardinality(Points) /\ {trials[i].point : i \in 1..N} = Points
        /\ \A i, j \in 1..N : i < j => trials[i].point < trials[j].point
    BY <1>5, <2>1 DEF OnePerPoint
  <2> HIDE DEF N
  <2>3. Cardinality(Points') = N + 1
    BY <1>6, <2>2, FS_AddElement
  <2>4. {trials'[i].point : i \in 1..(N + 1)} = Points \cup {at}
    BY <2>1, <2>2
  <2>5. ASSUME NEW i \in 1..(N + 1), NEW j \in 1..(N + 1), i < j
        PROVE  trials'[i].point < trials'[j].point
    <3>1. i \in 1..N /\ trials'[i] = trials[i]
      BY <2>1, <2>5
    <3>2. CASE j \in 1..N
      BY <2>1, <2>2, <2>5, <3>1, <3>2
    <3>3. CASE j = N + 1
      <4>1. trials[i].point \in Points
        BY <2>2, <3>1
      <4> QED
        BY <1>6, <2>1, <3>1, <3>3, <4>1
    <3> QED
      BY <2>1, <3>2, <3>3
  <2> QED
    BY <1>6, <2>1, <2>3, <2>4, <2>5 DEF OnePerPoint
<1> QED
  BY <1>2, <1>3, <1>8, <1>9, <1>10, <1>11 DEF t

LEMMA ObjectiveLemma ==
    /\ \A m \in Measures \cup {NoMeasure} : Objective(m) \in Int
    /\ \A t \in Trial : Objective(t.measure) \in Int
<1>1. ASSUME NEW m \in Measures \cup {NoMeasure} PROVE Objective(m) \in Int
  <2>1. m \in [gauge : Nat, catch : Nat, load : Nat, falseBlock : Nat]
    BY SearchAssumption DEF NoMeasure
  <2> QED
    BY <2>1 DEF Objective
<1>2. \A t \in Trial : t.measure \in Measures \cup {NoMeasure}
  BY DEF Trial
<1> HIDE DEF Trial
<1> QED
  BY <1>1, <1>2

(* Promotions of the trials and of one more.                               *)
LEMMA PromotionsLemma ==
    ASSUME NEW ts \in Seq(Trial), NEW t \in Trial
    PROVE  LET us == Append(ts, t)
           IN /\ Promotions(us) = IF t.decision = "promote"
                                  THEN Promotions(ts) \cup {Len(ts) + 1} ELSE Promotions(ts)
              /\ \A n \in Promotions(ts) : /\ n \in 1..Len(ts) /\ us[n] = ts[n]
                                           /\ ts[n] \in Trial
              /\ us[Len(ts) + 1] = t /\ Len(ts) \in Nat
<1> DEFINE us == Append(ts, t)
           N == Len(ts)
<1>1. /\ N \in Nat /\ DOMAIN ts = 1..N /\ DOMAIN us = 1..(N + 1)
      /\ us[N + 1] = t /\ \A n \in 1..N : us[n] = ts[n] /\ ts[n] \in Trial
  OBVIOUS
<1> HIDE DEF us, N
<1>2. Promotions(us) = {n \in 1..(N + 1) : us[n].decision = "promote"}
  BY <1>1 DEF Promotions
<1>3. Promotions(ts) = {n \in 1..N : ts[n].decision = "promote"}
  BY <1>1 DEF Promotions
<1>4. 1..(N + 1) = 1..N \cup {N + 1}
  BY <1>1
<1>5. Promotions(us) = IF t.decision = "promote" THEN Promotions(ts) \cup {N + 1}
                       ELSE Promotions(ts)
  BY <1>1, <1>2, <1>3, <1>4
<1>6. \A n \in Promotions(ts) : n \in 1..N /\ us[n] = ts[n] /\ ts[n] \in Trial
  BY <1>1, <1>3
<1> QED
  BY <1>1, <1>5, <1>6 DEF us, N

(* What is deserved once stays so: neither the grid nor the baseline       *)
(* changes while there are trials.                                         *)
LEMMA DeservedKept ==
    ASSUME NEW t, UNCHANGED <<require, literal, baseline>>
    PROVE  Deserved(t)' <=> Deserved(t)
BY BaselineKept DEF Deserved, SameAsBaseline

(* While a point is being tried this process has written no file.          *)
LEMMA FilesKept ==
    ASSUME SearchTypes, FilesOfRuns, Searching, UNCHANGED <<run, files>>
    PROVE  FilesOfRuns'
<1>1. Len(Grid) \in Nat /\ at \in 1..Len(Grid)
  BY GridLemma DEF Searching
<1>2. files["result"].run # run
  BY <1>1 DEF FilesOfRuns
<1> QED
  BY <1>2 DEF FilesOfRuns

LEMMA DiscardInv ==
    ASSUME SInv, Tried, NEW m \in Measures \cup {NoMeasure},
           NEW stage \in {"static", "in_sample", "held_out", "contamination"},
           Decide(m, "discard", stage), best' = best
    PROVE  SInv'
<1> DEFINE t == [point |-> at, measure |-> m, decision |-> "discard", stage |-> stage]
<1>1. /\ t \in Trial /\ trials' = Append(trials, t)
      /\ SearchTypes' /\ SampledInOrder' /\ OnePerPoint' /\ Told(events)' = trials'
  BY DecideTrials DEF Decisions
<1>2. t.decision # "promote"
  OBVIOUS
<1>3. /\ trials \in Seq(Trial) /\ SearchTypes /\ AllDeserved /\ BestIsFirst /\ FilesOfRuns
  BY DEF SInv, SearchTypes
<1>4. /\ at' = at + 1 /\ UNCHANGED <<require, literal, run, baseline, files>>
  BY DEF Decide
<1> HIDE DEF t
<1>5. /\ Promotions(trials') = Promotions(trials)
      /\ \A n \in Promotions(trials) : trials'[n] = trials[n]
  BY <1>1, <1>2, <1>3, PromotionsLemma
<1>6. AllDeserved'
  BY <1>3, <1>4, <1>5, DeservedKept DEF AllDeserved
<1>7. BestIsFirst'
  BY <1>3, <1>5 DEF BestIsFirst, FirstBest
<1>8. FilesOfRuns'
  BY <1>3, <1>4, FilesKept DEF Tried
<1> QED
  BY <1>1, <1>6, <1>7, <1>8 DEF SInv

LEMMA PromoteInv ==
    ASSUME SInv, NEW m \in Measures, HeldOut(m), Decide(m, "promote", FinalStage),
           best' = IF Better(Last(trials')) THEN Last(trials') ELSE best,
           Passes(m, FinalStage), Improves(m)
    PROVE  SInv'
<1> DEFINE t == [point |-> at, measure |-> m, decision |-> "promote", stage |-> FinalStage]
<1>1. Tried /\ Ordered(Grid[at].thresholds)
  BY DEF HeldOut, SInv, SampledInOrder
<1>2. FinalStage \in {"held_out", "contamination"}
  BY DEF FinalStage
<1>3. /\ t \in Trial /\ trials' = Append(trials, t)
      /\ SearchTypes' /\ SampledInOrder' /\ OnePerPoint' /\ Told(events)' = trials'
  BY <1>1, <1>2, DecideTrials DEF Decisions
<1>4. t.decision = "promote" /\ t.point = at /\ t.measure = m
  OBVIOUS
<1>5. /\ trials \in Seq(Trial) /\ SearchTypes /\ AllDeserved /\ BestIsFirst /\ FilesOfRuns
  BY DEF SInv, SearchTypes
<1>6. /\ at' = at + 1 /\ UNCHANGED <<require, literal, run, baseline, files>>
  BY DEF Decide
<1> HIDE DEF t
<1> DEFINE N == Len(trials) + 1
<1>7. /\ Promotions(trials') = Promotions(trials) \cup {N}
      /\ \A n \in Promotions(trials) : /\ n \in 1..Len(trials) /\ trials'[n] = trials[n]
                                       /\ trials[n] \in Trial
      /\ trials'[N] = t /\ Len(trials) \in Nat
  BY <1>3, <1>4, <1>5, PromotionsLemma
<1>8. Last(trials') = t
  BY <1>3, <1>5, <1>7 DEF Last
<1>9. Deserved(t)
  <2>1. m.falseBlock <= MaxFalseBlock /\ m.catch >= MinCatch
    BY <1>2 DEF Passes
  <2>2. require \in {"yes", "no", "no seeds"}
    BY <1>5 DEF SearchTypes
  <2>3. require # "no seeds"
    BY <2>2 DEF Passes, FinalStage
  <2>4. Objective(m) > Objective(baseline)
    BY DEF Improves
  <2>5. ~SameAsBaseline(Grid[at])
    <3>1. SameAsBaseline(Grid[at]) => m = baseline
      BY DEF HeldOut
    <3>2. Objective(m) \in Int
      BY ObjectiveLemma
    <3> QED
      BY <2>4, <3>1, <3>2
  <2> QED
    BY <1>1, <1>4, <2>1, <2>3, <2>4, <2>5 DEF Deserved
<1>10. AllDeserved'
  <2>1. \A n \in Promotions(trials') : Deserved(trials'[n])
    BY <1>5, <1>7, <1>9 DEF AllDeserved
  <2> QED
    BY <1>6, <2>1, DeservedKept DEF AllDeserved
<1>11. BestIsFirst'
  <2> DEFINE Obj(n) == Objective(trials'[n].measure)
  <2>1. \A n \in Promotions(trials') : Obj(n) \in Int /\ trials'[n] \in Trial
    BY <1>3, <1>7, ObjectiveLemma
  <2>2. NoTrial \notin Trial
    BY DEF NoTrial, Trial
  <2>3. CASE Promotions(trials) = {} /\ best = NoTrial
    <3>1. best' = t
      BY <1>8, <2>3 DEF Better
    <3>2. Promotions(trials') = {N} /\ trials'[N] = t
      BY <1>7, <2>3
    <3>3. FirstBest(trials', N)
      BY <1>7, <2>1, <3>2 DEF FirstBest
    <3> QED
      BY <3>1, <3>2, <3>3 DEF BestIsFirst
  <2>4. ASSUME NEW b \in Promotions(trials), FirstBest(trials, b), best = trials[b]
        PROVE  BestIsFirst'
    <3>1. /\ b \in Promotions(trials') /\ trials'[b] = best /\ best # NoTrial
          /\ Obj(b) \in Int /\ b \in 1..Len(trials)
      BY <1>7, <2>1, <2>2, <2>4
    <3>2. \A n \in Promotions(trials) :
            Obj(n) <= Obj(b) /\ (n < b => Obj(n) < Obj(b))
      BY <1>7, <2>4, <3>1 DEF FirstBest
    <3>3. Better(t) <=> Obj(N) > Obj(b)
      BY <1>7, <3>1 DEF Better
    <3>4. N \in Promotions(trials') /\ Obj(N) \in Int /\ N \in Nat /\ b < N
      BY <1>7, <2>1, <3>1
    <3>5. \A n \in Promotions(trials) : Obj(n) \in Int /\ n \in 1..Len(trials)
      BY <1>7, <2>1
    <3>6. CASE Better(t)
      <4>1. best' = trials'[N]
        BY <1>7, <1>8, <3>6
      <4> HIDE DEF Obj, N
      <4>2. \A n \in Promotions(trials') :
                Obj(n) <= Obj(N) /\ (n < N => Obj(n) < Obj(N))
        BY <1>7, <3>1, <3>2, <3>3, <3>4, <3>5, <3>6
      <4>3. FirstBest(trials', N)
        BY <3>4, <4>2 DEF FirstBest, Obj
      <4> QED
        BY <3>4, <4>1, <4>3 DEF BestIsFirst
    <3>7. CASE ~Better(t)
      <4>1. best' = trials'[b]
        BY <1>8, <3>1, <3>7
      <4> HIDE DEF Obj, N
      <4>2. \A n \in Promotions(trials') :
                Obj(n) <= Obj(b) /\ (n < b => Obj(n) < Obj(b))
        BY <1>7, <3>1, <3>2, <3>3, <3>4, <3>5, <3>7
      <4>3. FirstBest(trials', b)
        BY <3>1, <4>2 DEF FirstBest, Obj
      <4> QED
        BY <3>1, <4>1, <4>3 DEF BestIsFirst
    <3> QED
      BY <3>6, <3>7
  <2> QED
    BY <1>5, <2>3, <2>4 DEF BestIsFirst
<1>12. FilesOfRuns'
  BY <1>1, <1>5, <1>6, FilesKept DEF Tried
<1> QED
  BY <1>3, <1>10, <1>11, <1>12 DEF SInv

LEMMA SearchNextInv == SInv /\ [SearchNext]_searchVars => SInv'
<1> SUFFICES ASSUME SInv, [SearchNext]_searchVars PROVE SInv'
  OBVIOUS
<1>0. /\ SearchTypes /\ SampledInOrder /\ OnePerPoint /\ AllDeserved /\ BestIsFirst
      /\ Told(events) = trials /\ FilesOfRuns
      /\ Len(Grid) \in Nat
  BY GridLemma DEF SInv
<1>00. /\ run \in 1..MaxRuns /\ trials \in Seq(Trial) /\ events \in Seq(SearchNote)
       /\ files \in [{"result", "log"} -> SearchFile]
  BY <1>0, Zenon DEF SearchTypes
<1>000. /\ require \in {"yes", "no", "no seeds"} /\ literal \in BOOLEAN
        /\ sampled \in BOOLEAN
  BY <1>0, Zenon DEF SearchTypes
<1>1. ASSUME NEW m \in Measures, MeasureBaseline(m) PROVE SInv'
  <2> DEFINE e == Note("baseline_metrics", NoTrial)
  <2>1. /\ at = 0 /\ baseline' = m /\ events' = Append(events, e) /\ at' = 1
        /\ UNCHANGED <<require, literal, run, sampled, trials, best, files>>
    BY <1>1 DEF MeasureBaseline
  <2>2. e \in SearchNote /\ e.kind \notin {"promote", "discard"}
    BY DEF Note, SearchNote
  <2> HIDE DEF e
  <2>3. ~sampled
    BY <1>0, <2>1, GridLemma DEF SampledInOrder, Tried, Searching
  <2>4. SearchTypes'
    <3>1. events' \in Seq(SearchNote)
      BY <1>00, <2>1, <2>2
    <3>2. at' \in 0..(Len(Grid) + 1)
      BY <1>0, <2>1
    <3> QED
      BY <1>00, <1>000, <2>1, <3>1, <3>2, Zenon DEF SearchTypes
  <2>5. Points = {} /\ Points' = {}
    BY <2>1 DEF Points
  <2>6. trials = <<>> /\ DOMAIN trials = {}
    <3>1. Len(trials) = 0
      BY <1>0, <2>5, FS_EmptySet DEF OnePerPoint
    <3> QED
      BY <1>00, <3>1
  <2>7. OnePerPoint'
    BY <1>0, <2>1, <2>5 DEF OnePerPoint
  <2>8. AllDeserved' /\ BestIsFirst'
    BY <1>0, <2>1, <2>6 DEF AllDeserved, BestIsFirst, Promotions
  <2>9. Told(events)' = trials'
    <3>1. Told(events)' = Told(events')
      BY DEF Told
    <3>2. Told(Append(events, e)) = Told(events)
      BY <1>0, <2>2, ToldAppend DEF SearchTypes
    <3> QED
      BY <1>0, <2>1, <3>1, <3>2
  <2>10. FilesOfRuns'
    <3>1. files["result"].run # run
      BY <1>0, <2>1 DEF FilesOfRuns
    <3> QED
      BY <1>0, <2>1, <3>1 DEF FilesOfRuns
  <2>11. SampledInOrder'
    BY <2>1, <2>3 DEF SampledInOrder
  <2> QED
    BY <2>4, <2>7, <2>8, <2>9, <2>10, <2>11 DEF SInv
<1>2. ASSUME NEW m \in Measures, InSample(m) PROVE SInv'
  <2>1. Tried /\ Ordered(Grid[at].thresholds)
    BY <1>2 DEF InSample
  <2>2. CASE Decide(m, "discard", "in_sample") /\ UNCHANGED best
    BY <2>1, <2>2, DiscardInv
  <2>3. CASE /\ sampled' = TRUE
             /\ UNCHANGED <<require, literal, run, at, baseline, trials, events, best, files>>
    <3>1. SearchTypes' /\ SampledInOrder'
      BY <1>0, <2>1, <2>3, BaselineKept DEF SearchTypes, SampledInOrder, Tried, Searching
    <3>2. OnePerPoint' /\ AllDeserved' /\ BestIsFirst' /\ Told(events)' = trials' /\ FilesOfRuns'
      BY <1>0, <2>3, BaselineKept, DeservedKept
         DEF OnePerPoint, Points, AllDeserved, BestIsFirst, Told, FilesOfRuns, Written
    <3> QED
      BY <3>1, <3>2 DEF SInv
  <2> QED
    BY <1>2, <2>2, <2>3 DEF InSample
<1>3. ASSUME NEW m \in Measures, HeldOut(m) PROVE SInv'
  <2>1. Tried
    BY <1>0, <1>3 DEF HeldOut, SampledInOrder
  <2>2. FinalStage \in {"held_out", "contamination"}
    BY DEF FinalStage
  <2>3. CASE Decide(m, "discard", FinalStage) /\ UNCHANGED best
    BY <2>1, <2>2, <2>3, DiscardInv
  <2>4. CASE /\ Passes(m, FinalStage) /\ Improves(m)
             /\ Decide(m, "promote", FinalStage)
             /\ best' = IF Better(Last(trials')) THEN Last(trials') ELSE best
    BY <1>3, <2>4, PromoteInv
  <2> QED
    BY <1>3, <2>3, <2>4 DEF HeldOut
<1>4. ASSUME SkipBaseline PROVE SInv'
  <2>1. /\ Searching /\ Grid[at] = Baseline /\ at' = at + 1
        /\ UNCHANGED <<require, literal, run, sampled, baseline, trials, events, best, files>>
    BY <1>4 DEF SkipBaseline
  <2>2. Points' = Points /\ at' \in 0..(Len(Grid) + 1)
    BY <1>0, <2>1, PointsStep
  <2>3. ~sampled
    BY <1>0, <2>1 DEF SampledInOrder, Tried
  <2>4. SearchTypes'
    BY <1>0, <2>1, <2>2 DEF SearchTypes
  <2>5. SampledInOrder'
    BY <2>1, <2>3 DEF SampledInOrder
  <2>6. OnePerPoint'
    BY <1>0, <2>1, <2>2 DEF OnePerPoint
  <2>7. AllDeserved' /\ BestIsFirst' /\ Told(events)' = trials'
    BY <1>0, <2>1, DeservedKept DEF AllDeserved, BestIsFirst, Told
  <2>8. FilesOfRuns'
    BY <1>0, <2>1, FilesKept
  <2> QED
    BY <2>4, <2>5, <2>6, <2>7, <2>8 DEF SInv
<1>5. CASE StaticGate
  <2>1. NoMeasure \in Measures \cup {NoMeasure}
    OBVIOUS
  <2> QED
    BY <1>5, <2>1, DiscardInv DEF StaticGate
<1>6. ASSUME UNCHANGED <<require, literal, run, at, sampled, baseline, trials, events, best>>,
             files' \in [{"result", "log"} -> SearchFile], FilesOfRuns'
      PROVE  SInv'
  <2>1. SearchTypes'
    BY <1>0, <1>6 DEF SearchTypes
  <2>2. SampledInOrder' /\ OnePerPoint' /\ BestIsFirst'
    BY <1>0, <1>6, BaselineKept
       DEF SampledInOrder, Tried, Searching, OnePerPoint, Points, BestIsFirst
  <2>3. AllDeserved'
    BY <1>0, <1>6, DeservedKept DEF AllDeserved
  <2>4. Told(events)' = trials'
    BY <1>0, <1>6 DEF Told
  <2> QED
    BY <1>6, <2>1, <2>2, <2>3, <2>4 DEF SInv
<1>7. /\ run \in Nat /\ files \in [{"result", "log"} -> SearchFile]
      /\ Written \in SearchFile
  <2>1. run \in Nat /\ files \in [{"result", "log"} -> SearchFile]
    BY <1>00
  <2>2. best.point \in Nat
    <3>1. CASE Promotions(trials) = {} /\ best = NoTrial
      BY <3>1 DEF NoTrial
    <3>2. ASSUME NEW b \in Promotions(trials), best = trials[b] PROVE best.point \in Nat
      <4>1. best \in Trial
        BY <1>00, <3>2 DEF Promotions
      <4>2. best.point \in 1..Len(Grid)
        BY <4>1 DEF Trial
      <4> QED
        BY <4>2
    <3> QED
      BY <1>0, <3>1, <3>2 DEF BestIsFirst
  <2> QED
    BY <2>1, <2>2 DEF Written, SearchFile
<1>8. CASE WriteResult
  <2>1. /\ at > Len(Grid) /\ files["result"].run # run
        /\ files' = [files EXCEPT !["result"] = Written]
        /\ UNCHANGED <<require, literal, run, at, sampled, baseline, trials, events, best>>
    BY <1>8 DEF WriteResult
  <2>2. files' \in [{"result", "log"} -> SearchFile]
    BY <1>7, <2>1
  <2>3. FilesOfRuns'
    <3>1. files'["result"] = Written /\ files'["log"] = files["log"]
      BY <1>7, <2>1
    <3>2. Written.run = run /\ Written' = Written
      BY <2>1 DEF Written
    <3>3. /\ files["log"].run <= files["result"].run /\ files["result"].run <= run
          /\ files["log"].run \in Nat /\ files["result"].run \in Nat
      BY <1>0, <1>7 DEF FilesOfRuns, SearchFile
    <3> QED
      BY <1>7, <2>1, <3>1, <3>2, <3>3 DEF FilesOfRuns
  <2> QED
    BY <1>6, <2>1, <2>2, <2>3
<1>9. CASE WriteLog
  <2>1. /\ files["result"].run = run
        /\ files' = [files EXCEPT !["log"] = Written]
        /\ UNCHANGED <<require, literal, run, at, sampled, baseline, trials, events, best>>
    BY <1>9 DEF WriteLog
  <2>2. files' \in [{"result", "log"} -> SearchFile]
    BY <1>7, <2>1
  <2>3. FilesOfRuns'
    <3>1. files'["log"] = Written /\ files'["result"] = files["result"]
      BY <1>7, <2>1
    <3>2. Written.run = run /\ Written' = Written
      BY <2>1 DEF Written
    <3>3. files["result"] = Written /\ at > Len(Grid)
      BY <1>0, <2>1 DEF FilesOfRuns
    <3> QED
      BY <1>7, <2>1, <3>1, <3>2, <3>3 DEF FilesOfRuns
  <2> QED
    BY <1>6, <2>1, <2>2, <2>3
<1>10. CASE StartAgain
  <2> DEFINE e == Note("baseline", NoTrial)
  <2>1. /\ run < MaxRuns /\ run' = run + 1 /\ at' = 0 /\ sampled' = FALSE
        /\ require' \in {"yes", "no", "no seeds"} /\ literal' \in BOOLEAN
        /\ baseline' = NoMeasure /\ files' = files
    BY <1>10, Zenon DEF StartAgain
  <2>2. trials' = <<>> /\ best' = NoTrial /\ events' = <<e>>
    BY <1>10, Zenon DEF StartAgain
  <2>30. run' = run + 1 /\ run < MaxRuns /\ files' = files
    BY <2>1
  <2>3. run' \in 1..MaxRuns
    BY <1>7, <2>30, SearchAssumption
  <2>4. /\ files'["log"].run <= files'["result"].run /\ files'["result"].run < run'
        /\ files'["result"].run = files'["log"].run => files'["result"] = files'["log"]
    <3>1. files["result"].run \in Nat
      BY <1>7 DEF SearchFile
    <3> QED
      BY <1>0, <1>7, <2>30, <3>1 DEF FilesOfRuns
  <2>5. files' \in [{"result", "log"} -> SearchFile]
    BY <1>7, <2>1
  <2>6. Fresh'
    BY <2>1, <2>2, <2>3, <2>4, <2>5, Zenon DEF Fresh
  <2>7. Fresh' => SInv'
    BY FreshInv, PTL
  <2> QED
    BY <2>6, <2>7
<1>11. CASE UNCHANGED searchVars
  <2>1. /\ UNCHANGED <<require, literal, run, at, sampled, baseline, trials, events, best>>
        /\ files' = files
    BY <1>11 DEF searchVars
  <2>2. FilesOfRuns'
    BY <1>0, <2>1 DEF FilesOfRuns, Written
  <2> QED
    BY <1>6, <1>7, <2>1, <2>2
<1> QED
  BY <1>1, <1>2, <1>3, <1>4, <1>5, <1>8, <1>9, <1>10, <1>11 DEF SearchNext

LEMMA SearchAlwaysInv == SearchSpec => []SInv
BY SearchInitInv, SearchNextInv, PTL DEF SearchSpec

(* The first of the best is what a reader of the decisions finds.          *)
LEMMA FirstBestLemma ==
    ASSUME SearchTypes, BestIsFirst
    PROVE  LET candidates == {n \in Promotions(trials) :
                                \A k \in Promotions(trials) :
                                    Objective(trials[k].measure)
                                        <= Objective(trials[n].measure)}
           IN best = IF candidates = {} THEN NoTrial
                     ELSE trials[CHOOSE n \in candidates : \A k \in candidates : n <= k]
<1> DEFINE P == Promotions(trials)
           obj(n) == Objective(trials[n].measure)
           candidates == {n \in P : \A k \in P : obj(k) <= obj(n)}
<1>1. \A n \in P : n \in Nat /\ obj(n) \in Int
  <2>1. trials \in Seq(Trial)
    BY Zenon DEF SearchTypes
  <2>2. \A n \in P : n \in Nat /\ trials[n] \in Trial
    BY <2>1 DEF Promotions
  <2> HIDE DEF P
  <2> QED
    BY <2>2, ObjectiveLemma
<1> SUFFICES best = IF candidates = {} THEN NoTrial
                    ELSE trials[CHOOSE n \in candidates : \A k \in candidates : n <= k]
  OBVIOUS
<1>2. CASE P = {} /\ best = NoTrial
  BY <1>2
<1>3. ASSUME NEW b \in P, FirstBest(trials, b), best = trials[b]
      PROVE  best = IF candidates = {} THEN NoTrial
                    ELSE trials[CHOOSE n \in candidates : \A k \in candidates : n <= k]
  <2>1. \A n \in P : obj(n) <= obj(b) /\ (n < b => obj(n) < obj(b))
    BY <1>3 DEF FirstBest
  <2> HIDE DEF P, obj
  <2>2. b \in candidates
    BY <2>1
  <2>3. \A k \in candidates : b <= k
    BY <1>1, <2>1
  <2>4. \A n \in candidates : (\A k \in candidates : n <= k) => n = b
    BY <1>1, <2>2, <2>3
  <2> DEFINE chosen == CHOOSE n \in candidates : \A k \in candidates : n <= k
  <2> HIDE DEF candidates
  <2>5. chosen = b
    BY <2>2, <2>3, <2>4
  <2> HIDE DEF chosen
  <2>6. candidates # {} /\ best = trials[chosen]
    BY <1>3, <2>2, <2>5
  <2> QED
    BY <2>6 DEF chosen
<1> QED
  BY <1>2, <1>3 DEF BestIsFirst

(* The search promotes the best point its gates let through, having tried  *)
(* them all, and its log and its files tell of no other.                   *)
THEOREM SearchAlwaysSound == SearchSpec => []SearchIsSound
<1>1. SInv => SearchIsSound
  <2> SUFFICES ASSUME SInv PROVE SearchIsSound
    OBVIOUS
  <2>1. /\ SearchTypes /\ OnePerPoint /\ AllDeserved /\ BestIsFirst
        /\ Told(events) = trials /\ FilesOfRuns
        /\ Len(Grid) \in Nat /\ DOMAIN Grid = 1..Len(Grid)
    BY GridLemma DEF SInv
  <2>2. trials \in Seq(Trial) /\ at \in 0..(Len(Grid) + 1)
    BY <2>1, Zenon DEF SearchTypes
  <2>3. \A n \in Promotions(trials) : /\ n \in DOMAIN trials /\ trials[n] \in Trial
                                      /\ trials[n].decision = "promote"
    BY <2>2 DEF Promotions
  <2>4. NoTrial \notin Trial
    BY DEF NoTrial, Trial
  <2>5. SearchTypeOK
    <3>1. Range(trials) \subseteq Trial
      BY <2>2 DEF Range
    <3>2. best \in Trial \cup {NoTrial}
      BY <2>1, <2>3 DEF BestIsFirst
    <3>3. best = NoTrial <=> Promotions(trials) = {}
      BY <2>1, <2>3, <2>4 DEF BestIsFirst
    <3>4. Promotions(trials) = {} <=> \A n \in DOMAIN trials : trials[n].decision # "promote"
      BY DEF Promotions
    <3>5. run \in 1..MaxRuns /\ sampled \in BOOLEAN
      BY <2>1, Zenon DEF SearchTypes
    <3> QED
      BY <2>2, <3>1, <3>2, <3>3, <3>4, <3>5, Zenon DEF SearchTypeOK
  <2>6. PromotedIsBest
    <3> SUFFICES ASSUME NEW b \in Promotions(trials), FirstBest(trials, b), best = trials[b],
                        best # NoTrial
                 PROVE  PromotedIsBest
      BY <2>1 DEF BestIsFirst, PromotedIsBest
    <3>1. Deserved(best)
      BY <2>1 DEF AllDeserved
    <3>2. ASSUME NEW n \in Promotions(trials)
          PROVE  /\ Objective(trials[n].measure) <= Objective(best.measure)
                 /\ Objective(trials[n].measure) = Objective(best.measure)
                        => trials[n].point >= best.point
      <4>1. /\ Objective(trials[n].measure) <= Objective(best.measure)
            /\ n < b => Objective(trials[n].measure) < Objective(best.measure)
        BY DEF FirstBest
      <4>2. Objective(trials[n].measure) \in Int /\ Objective(best.measure) \in Int
        BY <2>3, ObjectiveLemma
      <4>3. n \in Nat /\ b \in Nat /\ n \in DOMAIN trials /\ b \in DOMAIN trials
        BY <2>2, <2>3
      <4>4. trials[n].point \in 1..Len(Grid) /\ best.point \in 1..Len(Grid)
        BY <2>3 DEF Trial
      <4>5. b < n => best.point < trials[n].point
        BY <2>1, <4>3 DEF OnePerPoint
      <4>6. b = n => best.point = trials[n].point
        OBVIOUS
      <4>7. n < b \/ n = b \/ b < n
        BY <4>3
      <4> QED
        BY <2>1, <4>1, <4>2, <4>4, <4>5, <4>6, <4>7
    <3> QED
      BY <3>1, <3>2 DEF PromotedIsBest, Deserved
  <2>7. DetectorIsForAll
    BY <2>1 DEF DetectorIsForAll, BestIsFirst, AllDeserved, Deserved
  <2>8. EveryPointTried
    <3>1. /\ Len(trials) = Cardinality(Points)
          /\ {trials[n].point : n \in DOMAIN trials} = Points
      BY <2>1 DEF OnePerPoint
    <3>2. ASSUME literal PROVE Len(trials) = Most(at, 1) - 1
      <4>1. \A n \in 1..(at - 1) : n \in DOMAIN Grid
        BY <2>1, <2>2
      <4>2. Points = 1..(at - 1)
        BY <3>2, <4>1, LiteralLemma DEF Points
      <4>3. at - 1 \in Int /\ 1 \in Int
        BY <2>2
      <4>4. Cardinality(1..(at - 1)) = IF 1 > at - 1 THEN 0 ELSE (at - 1) - 1 + 1
        BY <4>3, FS_Interval
      <4> QED
        BY <2>2, <3>1, <4>2, <4>4 DEF Most
    <3>3. ASSUME NEW n \in DOMAIN trials, SameAsBaseline(Grid[trials[n].point])
          PROVE  trials[n].decision = "discard"
      <4>1. n \notin Promotions(trials)
        BY <2>1, <3>3 DEF AllDeserved, Deserved
      <4>2. trials[n].decision \in {"promote", "discard"}
        <5>1. trials[n] \in Trial
          BY <2>2
        <5> QED
          BY <5>1 DEF Trial
      <4> QED
        BY <4>1, <4>2 DEF Promotions
    <3> QED
      BY <3>1, <3>2, <3>3 DEF EveryPointTried, Points
  <2>9. DecisionsReplay
    BY <2>1, FirstBestLemma DEF DecisionsReplay
  <2>10. FilesAgree
    BY <2>1 DEF FilesOfRuns, FilesAgree
  <2> QED
    BY <2>5, <2>6, <2>7, <2>8, <2>9, <2>10 DEF SearchIsSound
<1> QED
  BY <1>1, SearchAlwaysInv, PTL

-----------------------------------------------------------------------------

(***************************************************************************)
(* The fourth part: what the probes of the slice find in a ledger that     *)
(* agents have written to, and what the published rows say of it.          *)
(***************************************************************************)

(* A bundle all of whose carriers are texts.                               *)
Legible(b) ==
    /\ {"issue", "leak_carrier"} \subseteq DOMAIN b
    /\ b = [c \in DOMAIN b |-> b[c]]
    /\ \A c \in DOMAIN b : IsText(b[c])

LEMMA TextsAreText == \A t \in Texts : IsText(t)
<1>1. IsText(IssueText) /\ IsText(LeakText) /\ IsText(NotesText)
  BY DEF IsText, IssueText, LeakText, NotesText
<1>2. IsText(ForceText)
  BY DEF ForceText, IssueText, IsText
<1> QED
  BY <1>1, <1>2, SliceAssumption DEF Texts

LEMMA TextIsLeaf == \A t : IsText(t) => t \notin Composites
<1> SUFFICES ASSUME NEW t, IsText(t) PROVE t \notin Composites
  OBVIOUS
<1>1. t = [asks |-> t.asks, leak |-> t.leak, form |-> t.form]
  BY DEF IsText
<1>2. DOMAIN t = {"asks", "leak", "form"}
  BY <1>1
<1> QED
  BY <1>2, TextAssumption

LEMMA SweepLemma ==
    ASSUME NEW b, Legible(b), NEW id \in DOMAIN b, NEW proxy
    PROVE  /\ DOMAIN Sweep(b, id, proxy) = DOMAIN b
           /\ Sweep(b, id, proxy)[id] = proxy
           /\ \A c \in DOMAIN b : b[c] # b[id] => Sweep(b, id, proxy)[c] = b[c]
           /\ \A c \in DOMAIN b : Sweep(b, id, proxy)[c] \in {b[c], proxy}
<1>1. \A c \in DOMAIN b : b[c] \notin Composites
  BY TextIsLeaf DEF Legible
<1>2. CASE b[id] = None
  <2>1. Sweep(b, id, proxy) = [b EXCEPT ![id] = proxy] /\ b = [c \in DOMAIN b |-> b[c]]
    BY <1>2 DEF Sweep, Legible
  <2> QED
    BY <1>2, <2>1
<1>3. CASE b[id] # None
  <2>1. Sweep(b, id, proxy) = [c \in DOMAIN b |-> IF b[c] = b[id] THEN proxy ELSE b[c]]
    BY <1>1, <1>3 DEF Sweep, Swap
  <2> QED
    BY <1>3, <2>1
<1> QED
  BY <1>2, <1>3

(* What the changes make of a text.                                        *)
LEMMA SemanticLemma ==
    ASSUME NEW t, IsText(t)
    PROVE  /\ SemanticLeak(t).leak = "alt" \/ SemanticLeak(t).leak = "alt twice"
           /\ SemanticIssue(t).leak = t.leak
           /\ t.asks = "sum" => SemanticIssue(t).asks = "product"
<1>1. t = [asks |-> t.asks, leak |-> t.leak, form |-> t.form]
  BY DEF IsText
<1> QED
  BY <1>1 DEF SemanticLeak, SemanticIssue

(* The leak's policy moves with a leak that is not yet rewritten and       *)
(* stands still when the issue is changed; the derived one moves with an   *)
(* issue that asks for a sum, and with the leak only if both are one text. *)
LEMMA FlagLemma ==
    ASSUME NEW b, Legible(b)
    PROVE  /\ Flagged("leak", b) <=> b["leak_carrier"].leak \in {"none", "marker"}
           /\ Flagged("derived", b) =>
                b["issue"] = b["leak_carrier"] /\ b["issue"].asks # "sum"
<1> DEFINE leak == b["leak_carrier"]
           issue == b["issue"]
           byLeak == Sweep(b, "leak_carrier", SemanticLeak(leak))
           byIssue == Sweep(b, "issue", SemanticIssue(issue))
           Alters(policy, a) == PolicyCommit(policy, a) # PolicyCommit(policy, b)
<1>1. "issue" \in DOMAIN b /\ "leak_carrier" \in DOMAIN b /\ IsText(leak) /\ IsText(issue)
  BY DEF Legible
<1>2. /\ byLeak["leak_carrier"] = SemanticLeak(leak)
      /\ leak # issue => byLeak["issue"] = issue
  BY <1>1, SweepLemma
<1>3. /\ byIssue["issue"] = SemanticIssue(issue)
      /\ leak # issue => byIssue["leak_carrier"] = leak
      /\ byIssue["leak_carrier"] \in {leak, SemanticIssue(issue)}
  BY <1>1, SweepLemma
<1>4. ASSUME NEW policy
      PROVE  Flagged(policy, b) = Flag(Alters(policy, byLeak), Alters(policy, byIssue))
  BY DEF Flagged, CommitmentChanged, Probed
<1> HIDE DEF byLeak, byIssue
<1>5. Alters("leak", byLeak) <=> leak.leak \in {"none", "marker"}
  <2>1. PolicyCommit("leak", byLeak) = [line |-> "alt"]
    BY <1>1, <1>2, SemanticLemma DEF PolicyCommit
  <2>2. PolicyCommit("leak", b) =
            [line |-> IF leak.leak \in {"none", "marker"} THEN "marker" ELSE "alt"]
    BY <1>1 DEF PolicyCommit, IsText
  <2> QED
    BY <2>1, <2>2
<1>6. ~Alters("leak", byIssue)
  <2>1. byIssue["leak_carrier"].leak = leak.leak
    BY <1>1, <1>3, SemanticLemma
  <2> QED
    BY <2>1 DEF PolicyCommit
<1>7. leak # issue => ~Alters("derived", byLeak)
  BY <1>2 DEF PolicyCommit
<1>8. issue.asks = "sum" => Alters("derived", byIssue)
  <2> SUFFICES ASSUME issue.asks = "sum" PROVE Alters("derived", byIssue)
    OBVIOUS
  <2>1. PolicyCommit("derived", byIssue).line = "product"
    BY <1>1, <1>3, SemanticLemma DEF PolicyCommit
  <2>2. PolicyCommit("derived", b).line = "sum"
    BY DEF PolicyCommit
  <2> QED
    BY <2>1, <2>2
<1> HIDE DEF Alters
<1> QED
  BY <1>4, <1>5, <1>6, <1>7, <1>8 DEF Flag

(* Another form of the issue, or of the leak, changes neither.             *)
LEMMA SurfaceLemma ==
    ASSUME NEW b, Legible(b), {"issue_text", "leak_text"} \subseteq DOMAIN b,
           NEW c \in SurfaceBundles(b)
    PROVE  /\ Legible(c)
           /\ c["leak_carrier"].leak = b["leak_carrier"].leak
           /\ c["issue"].asks = b["issue"].asks
<1>1. /\ {"issue", "leak_carrier", "issue_text", "leak_text"} \subseteq DOMAIN b
      /\ \A x \in DOMAIN b : IsText(b[x])
  BY DEF Legible
<1>2. ASSUME NEW t, IsText(t)
      PROVE  /\ IsText(SurfaceIssue(t)) /\ SurfaceIssue(t).asks = t.asks
             /\ IsText(SurfaceLeak(t)) /\ SurfaceLeak(t).leak = t.leak
  <2>1. PICK a, l, f : t = [asks |-> a, leak |-> l, form |-> f]
    BY <1>2 DEF IsText
  <2>2. SurfaceIssue(t) = [asks |-> a, leak |-> l, form |-> "padded"]
    BY <2>1 DEF SurfaceIssue
  <2>3. SurfaceLeak(t) = [asks |-> a, leak |-> l, form |-> "spaced"]
    BY <2>1 DEF SurfaceLeak
  <2>4. /\ a \in {"sum", "product", "both", "nothing"}
        /\ l \in {"none", "marker", "alt", "alt twice"}
    BY <1>2, <2>1 DEF IsText
  <2>5. \A g : IsText([asks |-> a, leak |-> l, form |-> g])
    BY <2>4 DEF IsText
  <2> QED
    BY <2>1, <2>2, <2>3, <2>5
<1>3. CASE c = [b EXCEPT !["issue"] = SurfaceIssue(@), !["issue_text"] = SurfaceIssue(@)]
  <2>1. /\ DOMAIN c = DOMAIN b /\ c = [x \in DOMAIN c |-> c[x]]
        /\ c["issue"] = SurfaceIssue(b["issue"]) /\ c["leak_carrier"] = b["leak_carrier"]
        /\ \A x \in DOMAIN b : c[x] \in {b[x], SurfaceIssue(b[x])}
    BY <1>1, <1>3
  <2> QED
    BY <1>1, <1>2, <2>1 DEF Legible
<1>4. CASE c = [b EXCEPT !["leak_carrier"] = SurfaceLeak(@), !["leak_text"] = SurfaceLeak(@)]
  <2>1. /\ DOMAIN c = DOMAIN b /\ c = [x \in DOMAIN c |-> c[x]]
        /\ c["issue"] = b["issue"] /\ c["leak_carrier"] = SurfaceLeak(b["leak_carrier"])
        /\ \A x \in DOMAIN b : c[x] \in {b[x], SurfaceLeak(b[x])}
    BY <1>1, <1>4
  <2> QED
    BY <1>1, <1>2, <2>1 DEF Legible
<1> QED
  BY <1>3, <1>4 DEF SurfaceBundles

LEMMA BundledLemma ==
    ASSUME NEW texts \in [Concerns -> Texts]
    PROVE  /\ Legible(Bundled(texts))
           /\ DOMAIN Bundled(texts) = Concerns \cup {"issue_text", "leak_text"}
           /\ \A c \in Concerns : Bundled(texts)[c] = texts[c]
<1>1. /\ Bundled(texts) = [c \in DOMAIN Bundled(texts) |-> Bundled(texts)[c]]
      /\ DOMAIN Bundled(texts) = Concerns \cup {"issue_text", "leak_text"}
      /\ \A c \in Concerns : Bundled(texts)[c] = texts[c]
      /\ \A c \in DOMAIN Bundled(texts) \ Concerns : Bundled(texts)[c] \in {IssueText, LeakText}
  BY DEF Bundled, Over, Metadata
<1>2. \A c \in DOMAIN Bundled(texts) : Bundled(texts)[c] \in Texts
  BY <1>1 DEF Texts
<1>3. {"issue", "leak_carrier"} \subseteq Concerns
  BY DEF Concerns
<1> QED
  BY <1>1, <1>2, <1>3, TextsAreText DEF Legible

LEMMA InitialLemma ==
    ASSUME NEW n
    PROVE  /\ InitialText(n) \in [Concerns -> Texts]
           /\ InitialText(n)["issue"] = IssueText
           /\ InitialText(n)["leak_carrier"] = LeakText
           /\ InitialText(n)["notes"] = NotesText
<1>1. /\ InitialText(n)["issue"] = IssueText
      /\ InitialText(n)["leak_carrier"] = LeakText
      /\ InitialText(n)["notes"] = NotesText
      /\ InitialText(n)["task"] \in {IssueText, ForceText}
      /\ InitialText(n) = [c \in Concerns |-> InitialText(n)[c]]
  BY DEF InitialText, Concerns
<1>2. {IssueText, LeakText, NotesText, ForceText} \subseteq Texts
  BY DEF Texts
<1>3. \A c \in Concerns : InitialText(n)[c] \in Texts
  BY <1>1, <1>2 DEF Concerns
<1> QED
  BY <1>1, <1>3

(* In the ledger a task begins with the probe tells the policies apart.    *)
LEMMA InitialFlags ==
    ASSUME NEW n
    PROVE  /\ Flagged("leak", Bundled(InitialText(n))) = TRUE
           /\ Flagged("derived", Bundled(InitialText(n))) = FALSE
<1> DEFINE b == Bundled(InitialText(n))
<1>1. Legible(b) /\ b["issue"] = IssueText /\ b["leak_carrier"] = LeakText
  BY InitialLemma, BundledLemma DEF Concerns
<1>2. IssueText.asks = "sum" /\ LeakText.leak = "marker"
  BY DEF IssueText, LeakText
<1>3. \A policy : Flagged(policy, b) \in BOOLEAN
  BY DEF Flagged, Flag
<1> HIDE DEF b
<1>4. Flagged("leak", b) /\ ~Flagged("derived", b)
  BY <1>1, <1>2, FlagLemma
<1> QED
  BY <1>3, <1>4 DEF b

LEMMA FlagIsAlwaysPolicy ==
    ASSUME text \in [Concerns -> Texts]
    PROVE  FlagIsPolicy
<1> DEFINE b == Bundled(text)
<1> SUFFICES ASSUME NEW c \in {b} \cup SurfaceBundles(b)
             PROVE  /\ Flagged("leak", c) <=> text["leak_carrier"].leak \in {"none", "marker"}
                    /\ Flagged("derived", c) =>
                            c["issue"] = c["leak_carrier"] /\ text["issue"].asks # "sum"
  BY DEF FlagIsPolicy
<1>1. /\ Legible(b) /\ {"issue_text", "leak_text"} \subseteq DOMAIN b
      /\ b["issue"] = text["issue"] /\ b["leak_carrier"] = text["leak_carrier"]
  BY BundledLemma DEF Concerns
<1> HIDE DEF b
<1>2. /\ Legible(c)
      /\ c["leak_carrier"].leak = text["leak_carrier"].leak
      /\ c["issue"].asks = text["issue"].asks
  BY <1>1, SurfaceLemma
<1> QED
  BY <1>2, FlagLemma

LEMMA HeuristicAlwaysAgrees == HeuristicAgrees
<1> SUFFICES ASSUME NEW policy \in {"leak", "derived"},
                    NEW perturbed \in {NoDiff, ScriptedPerturbed(policy)}
             PROVE  RealFlagged(ScriptedDiff(policy), perturbed)
                        = Flagged(policy, Bundled(InitialText(instance)))
  BY DEF HeuristicAgrees
<1>1. /\ Flagged("leak", Bundled(InitialText(instance))) = TRUE
      /\ Flagged("derived", Bundled(InitialText(instance))) = FALSE
  BY InitialFlags
<1>2. CASE policy = "leak"
  <2>1. ScriptedDiff(policy) = LeakDiff /\ ScriptedPerturbed(policy) = AltDiff
    BY <1>2 DEF ScriptedDiff, ScriptedPerturbed
  <2>2. AltDiff # NoDiff /\ LeakDiff # AltDiff
    BY DEF AltDiff, NoDiff, LeakDiff
  <2>3. LeakDiff.marker = TRUE
    BY DEF LeakDiff
  <2>4. RealFlagged(LeakDiff, NoDiff) = TRUE /\ RealFlagged(LeakDiff, AltDiff) = TRUE
    BY <2>2, <2>3 DEF RealFlagged, Flag
  <2> QED
    BY <1>1, <1>2, <2>1, <2>4
<1>3. CASE policy = "derived"
  BY <1>1, <1>3 DEF RealFlagged, Flag, ScriptedDiff, ScriptedPerturbed, DerivedDiff, NoDiff
<1> QED
  BY <1>2, <1>3

(* A read moves the commitment if it is the issue or holds its text.       *)
LEMMA PredictedLemma ==
    ASSUME NEW texts \in [Concerns -> Texts]
    PROVE  /\ "issue" \in Predicted(Bundled(texts))
           /\ \A r \in Predicted(Bundled(texts)) : r \in Reads /\ texts[r] = texts["issue"]
<1> DEFINE b == Bundled(texts)
           alt(r) == AltRead(b[r], r)
           swept(r) == Sweep(b, r, alt(r))
<1>1. /\ Legible(b) /\ Concerns \subseteq DOMAIN b
      /\ \A c \in Concerns : b[c] = texts[c]
  BY BundledLemma
<1>2. Reads \subseteq Concerns /\ "issue" \in Reads
  BY DEF Reads, Concerns
<1>3. \A x : AgentCommit(LoadBearing, None, TRUE, x)
                 = [signature |-> Over([c \in {"issue"} |-> x[c]], [own |-> None])]
  BY DEF AgentCommit, LoadBearing
<1>4. \A x : /\ Over([c \in {"issue"} |-> x[c]], [own |-> None])["issue"] = x["issue"]
             /\ Over([c \in {"issue"} |-> x[c]], [own |-> None])
                   = [c \in {"issue", "own"} |-> IF c = "issue" THEN x["issue"] ELSE None]
  BY DEF Over
<1>5. \A x, y : AgentCommit(LoadBearing, None, TRUE, x) = AgentCommit(LoadBearing, None, TRUE, y)
                   <=> x["issue"] = y["issue"]
  <2>1. ASSUME NEW x, NEW y, AgentCommit(LoadBearing, None, TRUE, x)
                                 = AgentCommit(LoadBearing, None, TRUE, y)
        PROVE  x["issue"] = y["issue"]
    <3>1. Over([c \in {"issue"} |-> x[c]], [own |-> None])
              = Over([c \in {"issue"} |-> y[c]], [own |-> None])
      <4>1. [signature |-> Over([c \in {"issue"} |-> x[c]], [own |-> None])].signature
                = [signature |-> Over([c \in {"issue"} |-> y[c]], [own |-> None])].signature
        BY <1>3, <2>1
      <4> QED
        BY <4>1
    <3> QED
      BY <1>4, <3>1
  <2>2. ASSUME NEW x, NEW y, x["issue"] = y["issue"]
        PROVE  AgentCommit(LoadBearing, None, TRUE, x)
                   = AgentCommit(LoadBearing, None, TRUE, y)
    <3>1. Over([c \in {"issue"} |-> x[c]], [own |-> None])
              = Over([c \in {"issue"} |-> y[c]], [own |-> None])
      BY <1>4, <2>2
    <3> QED
      BY <1>3, <3>1
  <2> QED
    BY <2>1, <2>2
<1>6. ASSUME NEW r \in Reads
      PROVE  r \in Predicted(b) <=> swept(r)["issue"] # b["issue"]
  <2>1. r \in Predicted(b) <=> CommitmentChanged(b, r, alt(r),
            [x \in Probed(b, r, alt(r)) |-> AgentCommit(LoadBearing, None, TRUE, x)])
    BY DEF Predicted
  <2>2. b \in Probed(b, r, alt(r)) /\ swept(r) \in Probed(b, r, alt(r))
    BY DEF Probed
  <2> QED
    BY <1>5, <2>1, <2>2 DEF CommitmentChanged
<1>7. alt("issue") # b["issue"]
  <2>1. IsText(b["issue"])
    BY <1>1, <1>2, TextsAreText
  <2> QED
    BY <2>1 DEF AltRead, AltForm, IsText
<1>8. swept("issue")["issue"] = alt("issue")
  BY <1>1, <1>2, SweepLemma
<1>9. ASSUME NEW r \in Predicted(b)
      PROVE  r \in Reads /\ texts[r] = texts["issue"]
  <2>1. r \in Reads
    BY DEF Predicted
  <2>2. CASE b["issue"] # b[r]
    <3>1. swept(r)["issue"] = b["issue"]
      BY <1>1, <1>2, <2>1, <2>2, SweepLemma
    <3> QED
      BY <1>6, <1>9, <2>1, <3>1
  <2> QED
    BY <1>1, <1>2, <2>1, <2>2
<1> QED
  BY <1>2, <1>6, <1>7, <1>8, <1>9

LEMMA ReadsAreAlwaysExact ==
    ASSUME text \in [Concerns -> Texts]
    PROVE  ReadsAreExact
  BY PredictedLemma DEF ReadsAreExact, LoadBearing

LEMMA InitialReads ==
    ASSUME NEW n
    PROVE  Predicted(Bundled(InitialText(n))) = LoadBearing
<1>1. IssueText # LeakText /\ IssueText # NotesText
  BY DEF IssueText, LeakText, NotesText
<1> QED
  BY <1>1, InitialLemma, PredictedLemma DEF LoadBearing, Reads

LEMMA InitialNotSurface ==
    ASSUME NEW n
    PROVE  FalsePositive(Bundled(InitialText(n))) = FALSE
<1> DEFINE b == Bundled(InitialText(n))
<1>1. Legible(b) /\ {"issue_text", "leak_text"} \subseteq DOMAIN b /\ b["issue"].asks = "sum"
  BY InitialLemma, BundledLemma DEF Concerns, IssueText
<1> HIDE DEF b
<1>2. \A c \in SurfaceBundles(b) : ~Flagged("derived", c)
  BY <1>1, SurfaceLemma, FlagLemma
<1> QED
  BY <1>2 DEF FalsePositive, b

(* The rows, and what each may say: of a ledger nobody has touched, what   *)
(* the probe finds in the ledger the task begins with; of a diff, whether  *)
(* the marker is in it.                                                    *)
RowType == [mode : {"leak", "derived"}, flagged : BOOLEAN, surface : BOOLEAN,
            predicted : SUBSET Reads, marker : BOOLEAN, told : BOOLEAN]

Scored(row, n) ==
    /\ row.mode = SolveMode(n)
    /\ script.name = "slice" /\ ~row.told =>
            (row.flagged <=> SolveMode(n) = "leak") /\ ~row.surface
    /\ script.name = "read_set" /\ ~row.told => row.predicted = LoadBearing
    /\ script.name = "real" =>
            /\ row.flagged = row.marker
            /\ ~script.live => (row.flagged <=> SolveMode(n) = "leak")

SliceInv ==
    /\ script \in Scripts
    /\ instance \in 1..(2 * Seeds + 1)
    /\ text \in [Concerns -> Texts]
    /\ updates \in 0..MaxUpdates
    /\ updates = 0 => text = InitialText(instance)
    /\ rows \in Seq(RowType) /\ Len(rows) = instance - 1
    /\ published \in BOOLEAN
    /\ published => instance \notin Instances
    /\ \A n \in 1..Len(rows) : Scored(rows[n], n)

LEMMA ModeLemma == \A n \in Nat : SolveMode(n) \in {"leak", "derived"}
  BY DEF SolveMode

(* What follows the probe of an instance, if its row scores.               *)
LEMMA NextInstanceInv ==
    ASSUME SliceInv, NEW row \in RowType, Scored(row, instance), NextInstance(row)
    PROVE  SliceInv'
<1>1. /\ instance \in Instances /\ rows' = Append(rows, row) /\ instance' = instance + 1
      /\ updates' = 0 /\ text' = InitialText(instance + 1)
      /\ script' = script /\ published' = published
  BY DEF NextInstance
<1>2. instance \in 1..(2 * Seeds) /\ Seeds \in Nat /\ MaxUpdates \in Nat
  BY <1>1, SliceAssumption DEF Instances
<1>3. instance + 1 \in 1..(2 * Seeds + 1) /\ instance \in Nat
  BY <1>2
<1>4. /\ rows' \in Seq(RowType) /\ Len(rows') = instance /\ rows'[instance] = row
      /\ \A n \in 1..Len(rows) : rows'[n] = rows[n]
  BY <1>1, <1>2 DEF SliceInv
<1>5. ~published
  BY <1>1 DEF SliceInv
<1>6. ASSUME NEW n \in 1..instance
      PROVE  Scored(rows'[n], n)
  BY <1>2, <1>4 DEF SliceInv
<1>7. (\A n \in 1..Len(rows) : Scored(rows[n], n))'
  BY <1>1, <1>4, <1>6 DEF Scored
<1>8. text' \in [Concerns -> Texts]
  BY <1>1, InitialLemma
<1>9. (text = InitialText(instance))'
  BY <1>1 DEF InitialText
<1>10. (script \in Scripts)' /\ (published \in BOOLEAN)' /\ ~published' /\ (updates \in 0..MaxUpdates)'
  BY <1>1, <1>2, <1>5 DEF SliceInv
<1>11. (Len(rows) = instance - 1)' /\ (instance \in 1..(2 * Seeds + 1))'
  BY <1>1, <1>3, <1>4
<1> QED
  BY <1>4, <1>7, <1>8, <1>9, <1>10, <1>11 DEF SliceInv

LEMMA SliceInitInv == SliceInit => SliceInv
<1> SUFFICES ASSUME SliceInit
             PROVE  SliceInv
  OBVIOUS
<1>1. Seeds \in Nat /\ MaxUpdates \in Nat /\ 1 \in 1..(2 * Seeds + 1)
  BY SliceAssumption
<1>2. InitialText(1) \in [Concerns -> Texts]
  BY InitialLemma
<1>3. rows \in Seq(RowType) /\ Len(rows) = instance - 1
  BY DEF SliceInit
<1>4. \A n \in 1..Len(rows) : Scored(rows[n], n)
  BY DEF SliceInit
<1> QED
  <2>1. text \in [Concerns -> Texts] /\ text = InitialText(instance)
    BY <1>2 DEF SliceInit
  <2>2. /\ script \in Scripts /\ updates \in 0..MaxUpdates /\ published = FALSE
        /\ instance \in 1..(2 * Seeds + 1)
    BY <1>1 DEF SliceInit
  <2> QED
    BY <1>3, <1>4, <2>1, <2>2 DEF SliceInv

LEMMA LedgerUpdateInv ==
    ASSUME SliceInv, NEW c \in Concerns, NEW t \in AgentTexts, LedgerUpdate(c, t)
    PROVE  SliceInv'
<1>1. /\ text' = [text EXCEPT ![c] = t] /\ updates' = updates + 1 /\ updates < MaxUpdates
      /\ UNCHANGED <<script, instance, rows, published>>
  BY DEF LedgerUpdate
<1>2. text' \in [Concerns -> Texts]
  BY <1>1 DEF SliceInv, Texts
<1>3. updates' \in 0..MaxUpdates /\ updates' # 0
  BY <1>1, SliceAssumption DEF SliceInv
<1>4. \A n \in 1..Len(rows) : Scored(rows[n], n)'
  BY <1>1 DEF SliceInv, Scored
<1> QED
  BY <1>1, <1>2, <1>3, <1>4 DEF SliceInv, Instances

LEMMA ProbeSliceInv ==
    ASSUME SliceInv, ProbeSlice
    PROVE  SliceInv'
<1> DEFINE mode == SolveMode(instance)
           surface == mode = "derived" /\ FalsePositive(Bundled(text))
           row == Row(Flagged(mode, Bundled(text)), surface, {}, ScriptedDiff(mode).marker)
<1>1. script.name = "slice" /\ NextInstance(row) /\ mode \in {"leak", "derived"}
  <2>1. instance \in Nat
    BY DEF SliceInv
  <2> QED
    BY <2>1, ModeLemma DEF ProbeSlice
<1>2. ScriptedDiff(mode).marker \in BOOLEAN
  BY DEF ScriptedDiff, LeakDiff, DerivedDiff
<1>3. Flagged(mode, Bundled(text)) \in BOOLEAN /\ surface \in BOOLEAN
  BY DEF Flagged, Flag
<1>4. row \in RowType
  BY <1>1, <1>2, <1>3 DEF Row, RowType
<1>5. ~row.told => (row.flagged <=> mode = "leak") /\ ~row.surface
  <2> SUFFICES ASSUME ~row.told
               PROVE  (row.flagged <=> mode = "leak") /\ ~row.surface
    OBVIOUS
  <2>1. text = InitialText(instance)
    <3>1. ~(updates > 0)
      BY DEF Row
    <3> QED
      BY <3>1, SliceAssumption DEF SliceInv
  <2>2. Flagged(mode, Bundled(text)) <=> mode = "leak"
    BY <1>1, <2>1, InitialFlags
  <2>3. ~surface
    BY <2>1, InitialNotSurface
  <2> QED
    BY <2>2, <2>3 DEF Row
<1>6. Scored(row, instance)
  BY <1>1, <1>5 DEF Scored, Row
<1> QED
  BY <1>1, <1>4, <1>6, NextInstanceInv

LEMMA ProbeReadsInv ==
    ASSUME SliceInv, ProbeReads
    PROVE  SliceInv'
<1> DEFINE row == Row(FALSE, FALSE, Predicted(Bundled(text)), FALSE)
<1>1. script.name = "read_set" /\ NextInstance(row)
  BY DEF ProbeReads
<1>2. Predicted(Bundled(text)) \in SUBSET Reads
  BY DEF Predicted
<1>3. row \in RowType
  <2>1. SolveMode(instance) \in {"leak", "derived"}
    BY ModeLemma DEF SliceInv
  <2> QED
    BY <1>2, <2>1 DEF Row, RowType
<1>4. ~row.told => row.predicted = LoadBearing
  <2> SUFFICES ASSUME ~row.told
               PROVE  row.predicted = LoadBearing
    OBVIOUS
  <2>1. ~(updates > 0)
    BY DEF Row
  <2>2. text = InitialText(instance)
    BY <2>1, SliceAssumption DEF SliceInv
  <2> QED
    BY <2>2, InitialReads DEF Row
<1>5. Scored(row, instance)
  BY <1>1, <1>4 DEF Scored, Row
<1> QED
  BY <1>1, <1>3, <1>5, NextInstanceInv

LEMMA ProbeRealInv ==
    ASSUME SliceInv, ProbeReal
    PROVE  SliceInv'
<1> DEFINE row(diff) == Row(RealFlagged(diff, NoDiff), FALSE, {}, diff.marker)
<1>1. PICK diff \in IF script.live THEN Diffs ELSE {ScriptedDiff(SolveMode(instance))} :
          NextInstance(row(diff))
  BY DEF ProbeReal
<1>2. script.name = "real" /\ SolveMode(instance) \in {"leak", "derived"}
  <2>1. instance \in Nat
    BY DEF SliceInv
  <2> QED
    BY <2>1, ModeLemma DEF ProbeReal
<1>3. diff.marker \in BOOLEAN /\ diff.derived \in BOOLEAN
  <2>1. CASE diff \in Diffs
    BY <2>1 DEF Diffs
  <2>2. CASE diff \in {LeakDiff, DerivedDiff}
    <3>1. LeakDiff.marker = TRUE /\ LeakDiff.derived = TRUE
      BY DEF LeakDiff
    <3>2. DerivedDiff.marker = FALSE /\ DerivedDiff.derived = TRUE
      BY DEF DerivedDiff
    <3> QED
      BY <2>2, <3>1, <3>2
  <2> QED
    BY <1>1, <2>1, <2>2 DEF ScriptedDiff
<1>4. RealFlagged(diff, NoDiff) = diff.marker
  BY <1>3 DEF RealFlagged, Flag
<1>5. ~script.live => (diff.marker <=> SolveMode(instance) = "leak")
  BY <1>1, <1>2 DEF ScriptedDiff, LeakDiff, DerivedDiff
<1>6. row(diff) \in RowType
  BY <1>2, <1>3, <1>4 DEF Row, RowType
<1>7. Scored(row(diff), instance)
  BY <1>2, <1>4, <1>5 DEF Scored, Row
<1> QED
  BY <1>1, <1>6, <1>7, NextInstanceInv

LEMMA SliceNextInv == SliceInv /\ [SliceNext]_sliceVars => SliceInv'
<1> SUFFICES ASSUME SliceInv, [SliceNext]_sliceVars
             PROVE  SliceInv'
  OBVIOUS
<1>1. CASE \E c \in Concerns, t \in AgentTexts : LedgerUpdate(c, t)
  BY <1>1, LedgerUpdateInv
<1>2. CASE ProbeSlice
  BY <1>2, ProbeSliceInv
<1>3. CASE ProbeReal
  BY <1>3, ProbeRealInv
<1>4. CASE ProbeReads
  BY <1>4, ProbeReadsInv
<1>5. CASE Publish
  <2>1. /\ instance \notin Instances /\ published' = TRUE
        /\ UNCHANGED <<script, instance, text, updates, rows>>
    BY <1>5 DEF Publish
  <2>2. InitialText(instance)' = InitialText(instance)
    BY <2>1 DEF InitialText
  <2>3. \A n \in 1..Len(rows) : Scored(rows[n], n)'
    BY <2>1 DEF SliceInv, Scored
  <2> QED
    BY <2>1, <2>2, <2>3 DEF SliceInv, Instances
<1>6. CASE UNCHANGED sliceVars
  <2>1. UNCHANGED <<script, instance, text, updates, rows, published>>
    BY <1>6 DEF sliceVars
  <2>2. InitialText(instance)' = InitialText(instance)
    BY <2>1 DEF InitialText
  <2>3. \A n \in 1..Len(rows) : Scored(rows[n], n)'
    BY <2>1 DEF SliceInv, Scored
  <2> QED
    BY <2>1, <2>2, <2>3 DEF SliceInv, Instances
<1> QED
  BY <1>1, <1>2, <1>3, <1>4, <1>5, <1>6 DEF SliceNext

LEMMA SliceAlwaysInv == SliceSpec => []SliceInv
  BY SliceInitInv, SliceNextInv, PTL DEF SliceSpec

(* At any point of a run of the slice, whatever the agents have written    *)
(* into the ledger: the dual probe flags the leak's policy exactly while   *)
(* the leak is not rewritten, and the derived one only if issue and leak   *)
(* are one text that asks for no sum, in any form of the two and whatever  *)
(* part of the issue the commitment quotes; the heuristic on the diffs     *)
(* agrees with it on the slice; and the probe of the reads finds every one *)
(* that carries load and no other but by an equal text                     *)
(* (run_contamination_probe, run_contamination_probe_on_real_diff,         *)
(* run_read_set_probe).                                                    *)
THEOREM ProbesAlwaysExact == SliceSpec => []ProbesAreExact
<1>1. SliceInv => ProbesAreExact
  <2> SUFFICES ASSUME SliceInv
               PROVE  ProbesAreExact
    OBVIOUS
  <2>1. SliceTypeOK
    BY DEF SliceInv, SliceTypeOK
  <2> QED
    BY <2>1, FlagIsAlwaysPolicy, HeuristicAlwaysAgrees, ReadsAreAlwaysExact
       DEF ProbesAreExact, SliceInv
<1> QED
  BY <1>1, SliceAlwaysInv, PTL

(* The table the scripts publish: one row for every instance, and the      *)
(* rates that the agents' policies make, for any number of seeds (main of  *)
(* the three evaluation scripts).                                          *)
THEOREM PublishedScoresAlways == SliceSpec => []PublishedScores
<1>1. SliceInv => PublishedScores
  <2> SUFFICES ASSUME SliceInv, published
               PROVE  /\ DOMAIN rows = Instances
                      /\ (script.name = "slice" /\ \A n \in DOMAIN rows : ~rows[n].told) =>
                            /\ FlaggedOf("leak") = {n \in Instances : SolveMode(n) = "leak"}
                            /\ FlaggedOf("derived") = {}
                            /\ \A n \in DOMAIN rows : ~rows[n].surface
                      /\ script.name = "read_set" =>
                            \A n \in DOMAIN rows :
                                ~rows[n].told => rows[n].predicted = LoadBearing
                      /\ script.name = "real" =>
                            /\ \A n \in DOMAIN rows : rows[n].flagged = rows[n].marker
                            /\ ~script.live =>
                                FlaggedOf("leak") = {n \in Instances : SolveMode(n) = "leak"}
    BY DEF PublishedScores
  <2>1. DOMAIN rows = 1..(2 * Seeds) /\ Instances = 1..(2 * Seeds)
    BY SliceAssumption DEF SliceInv, Instances
  <2>2. \A n \in DOMAIN rows : Scored(rows[n], n)
    BY DEF SliceInv
  <2>3. CASE script.name = "slice" /\ \A n \in DOMAIN rows : ~rows[n].told
    <3>1. \A n \in DOMAIN rows : /\ rows[n].mode = SolveMode(n) /\ ~rows[n].surface
                                 /\ rows[n].flagged <=> SolveMode(n) = "leak"
      BY <2>2, <2>3 DEF Scored
    <3> QED
      BY <2>1, <2>3, <3>1 DEF FlaggedOf
  <2>4. CASE script.name = "read_set"
    BY <2>1, <2>2, <2>4 DEF Scored
  <2>5. CASE script.name = "real"
    <3>1. \A n \in DOMAIN rows :
              /\ rows[n].mode = SolveMode(n) /\ rows[n].flagged = rows[n].marker
              /\ ~script.live => (rows[n].flagged <=> SolveMode(n) = "leak")
      BY <2>2, <2>5 DEF Scored
    <3> QED
      BY <2>1, <2>5, <3>1 DEF FlaggedOf
  <2> QED
    BY <2>1, <2>3, <2>4, <2>5
<1> QED
  BY <1>1, SliceAlwaysInv, PTL
=============================================================================
