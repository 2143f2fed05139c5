-------------------------- MODULE CodingRun_proofs --------------------------
(***************************************************************************)
(* Theorems about CodingRun, for any agent, workspace, tests and budget.   *)
(*                                                                         *)
(* CommitIsVerified is not inductive: the verdict is reached one or two    *)
(* steps before the run returns.  IInv adds what the verdict established,  *)
(* CommitReady, at the two places where it waits to be returned.           *)
(***************************************************************************)
EXTENDS FinishCertificate, RecursiveRun, CodingLog, Naturals_proofs

-----------------------------------------------------------------------------
(***************************************************************************)
(* What the ledger's operators preserve: a ledger stays a ledger, it never *)
(* loses a concern or an item of evidence, and addressing concerns leaves  *)
(* no more of them unresolved.  And what mirroring a change of the ledger  *)
(* into the event log preserves: the agreement of the log's projection.    *)
(***************************************************************************)

(* A ledger with finitely many concerns.                                   *)
Finite(L) == IsLedger(L) /\ IsFiniteSet(DOMAIN L)

(* M has every concern of L, with all its evidence.                        *)
Extends(L, M) ==
    DOMAIN L \subseteq DOMAIN M /\ \A i \in DOMAIN L : L[i].evidence \subseteq M[i].evidence

(* The projection P of a log agrees with the ledger L.                     *)
Agrees(P, L) ==
    /\ DOMAIN P = DOMAIN L
    /\ \A i \in DOMAIN L : /\ P[i] = [L[i] EXCEPT !.evidence = P[i].evidence]
                           /\ P[i].evidence \subseteq L[i].evidence

(* append_concern keeps a ledger a ledger and loses nothing.               *)
LEMMA AppendConcernLemma ==
    ASSUME NEW L, Finite(L), NEW id \in Ids, NEW c \in CodingConcern
    PROVE  Finite(AppendConcern(L, id, c)) /\ Extends(L, AppendConcern(L, id, c))
<1> DEFINE M == AppendConcern(L, id, c)
<1>1. DOMAIN M = DOMAIN L \union {id}
  BY DEF AppendConcern
<1>2. IsFiniteSet(DOMAIN M)
  BY <1>1, FS_AddElement DEF Finite
<1>3. DOMAIN M \subseteq Ids
  BY <1>1 DEF Finite, IsLedger
<1>4. ASSUME NEW i \in DOMAIN M
      PROVE  M[i] \in CodingConcern /\ (i \in DOMAIN L => L[i].evidence \subseteq M[i].evidence)
  <2>1. CASE i # id
    BY <1>1, <2>1 DEF AppendConcern, Finite, IsLedger
  <2>2. CASE i = id /\ id \notin DOMAIN L
    BY <2>2 DEF AppendConcern
  <2>3. CASE i = id /\ id \in DOMAIN L /\ c.concern < L[id].concern
    BY <2>3 DEF AppendConcern, Finite, IsLedger
  <2>4. CASE i = id /\ id \in DOMAIN L /\ ~(c.concern < L[id].concern)
    <3>1. M[i] = [c EXCEPT !.evidence = @ \union L[id].evidence]
      BY <2>4 DEF AppendConcern
    <3>2. L[id] \in CodingConcern
      BY <2>4 DEF Finite, IsLedger
    <3> QED
      BY <2>4, <3>1, <3>2 DEF CodingConcern
  <2> QED
    BY <2>1, <2>2, <2>3, <2>4
<1>5. M \in [DOMAIN M -> CodingConcern]
  BY <1>4 DEF AppendConcern
<1> QED
  BY <1>1, <1>2, <1>3, <1>4, <1>5 DEF Finite, IsLedger, Extends

(* Addressing concerns keeps a ledger a ledger, loses nothing, and leaves  *)
(* no concern unresolved that was not so before.                           *)
LEMMA AddressLemma ==
    ASSUME NEW L, Finite(L), NEW S, NEW E, E \subseteq Texts
    PROVE  /\ Finite(Address(L, S, E)) /\ Extends(L, Address(L, S, E))
           /\ Unresolved(Address(L, S, E)) \subseteq Unresolved(L)
<1> DEFINE M == Address(L, S, E)
<1>1. DOMAIN M = DOMAIN L
  BY DEF Address
<1>2. ASSUME NEW i \in DOMAIN L
      PROVE  /\ M[i] \in CodingConcern /\ L[i].evidence \subseteq M[i].evidence
             /\ M[i].status = "open" => M[i] = L[i]
  <2>1. L[i] \in CodingConcern
    BY DEF Finite, IsLedger
  <2>2. CASE i \notin S
    BY <2>1, <2>2 DEF Address
  <2>3. CASE i \in S
    <3>1. M[i] = [L[i] EXCEPT !.status = "addressed", !.evidence = @ \union E]
      BY <2>3 DEF Address
    <3> QED
      BY <2>1, <3>1 DEF CodingConcern, Statuses
  <2> QED
    BY <2>2, <2>3
<1>3. M \in [DOMAIN M -> CodingConcern]
  BY <1>1, <1>2 DEF Address
<1> QED
  BY <1>1, <1>2, <1>3 DEF Finite, IsLedger, Extends, Unresolved

(* Ledgers that extend one another do so over several changes.             *)
LEMMA ExtendsTransitive ==
    ASSUME NEW L, NEW M, NEW N, Extends(L, M), Extends(M, N)
    PROVE  Extends(L, N)
BY DEF Extends

(* apply_action, for one update at most, as the model bounds it.           *)
LEMMA ApplyActionLemma ==
    ASSUME NEW L, Finite(L), NEW a,
           a.updates \subseteq [id: Ids, concern: CodingConcern],
           a.rationale \subseteq Texts
    PROVE  Finite(ApplyAction(L, a)) /\ Extends(L, ApplyAction(L, a))
<1> DEFINE M == ApplyUpdates(L, a.updates)
<1>1. Finite(M) /\ Extends(L, M)
  <2>1. CASE a.updates = {}
    BY <2>1 DEF ApplyUpdates, Extends
  <2>2. CASE a.updates # {}
    <3> DEFINE u == CHOOSE u \in a.updates : TRUE
    <3>1. u \in a.updates
      BY <2>2
    <3>2. u.id \in Ids /\ u.concern \in CodingConcern
      BY <3>1
    <3>3. M = AppendConcern(L, u.id, u.concern)
      BY <2>2 DEF ApplyUpdates
    <3> HIDE DEF u, M
    <3> QED
      BY <3>2, <3>3, AppendConcernLemma
  <2> QED
    BY <2>1, <2>2
<1>2. ApplyAction(L, a) = Address(M, a.addressed, a.rationale)
  BY DEF ApplyAction
<1>3. Finite(Address(M, a.addressed, a.rationale)) /\ Extends(M, Address(M, a.addressed, a.rationale))
  <2> HIDE DEF M
  <2> QED
    BY <1>1, AddressLemma
<1> QED
  <2> HIDE DEF M
  <2> QED
    BY <1>1, <1>2, <1>3, ExtendsTransitive

(* The id of the next test concern is an id, however many there are.       *)
LEMMA TestIdLemma ==
    ASSUME NEW L, Finite(L)
    PROVE  TestId(L) \in Ids
<1> DEFINE S == {i \in DOMAIN L : L[i].kind = "test"}
<1>1. IsFiniteSet(S)
  BY FS_Subset DEF Finite
<1>2. Cardinality(S) \in Nat
  BY <1>1, FS_CardinalityType
<1> QED
  BY <1>2 DEF TestId, Ids, IdRoots

(* The record of a test run extends the ledger and keeps it a ledger.      *)
LEMMA RecordTestsLemma ==
    ASSUME NEW L, Finite(L), NEW o \in CodingObservation
    PROVE  Finite(RecordTests(L, o)) /\ Extends(L, RecordTests(L, o))
<1> DEFINE c == [kind |-> "test", text |-> o.message, concern |-> 90,
                 status |-> IF o.success THEN "addressed" ELSE "open",
                 evidence |-> {o.message}]
           M == AppendConcern(L, TestId(L), c)
           N == Address(M, OpenOfKind(M, "evidence"), {o.message})
<1>0. {o.message} \subseteq Texts
  BY DEF CodingObservation
<1>1. c \in CodingConcern
  BY DEF CodingConcern, CodingObservation, Kinds, Statuses
<1>2. Finite(M) /\ Extends(L, M)
  <2> HIDE DEF c
  <2> QED
    BY <1>1, TestIdLemma, AppendConcernLemma
<1>3. Finite(N) /\ Extends(M, N)
  <2> HIDE DEF M
  <2> QED
    BY <1>0, <1>2, AddressLemma
<1>4. RecordTests(L, o) = M \/ RecordTests(L, o) = N
  BY DEF RecordTests
<1> QED
  <2> HIDE DEF M, N
  <2> QED
    BY <1>2, <1>3, <1>4, ExtendsTransitive

(* apply_observation keeps a ledger a ledger and loses nothing.            *)
LEMMA ApplyObservationLemma ==
    ASSUME NEW L, Finite(L), NEW n \in Nat, NEW o \in CodingObservation
    PROVE  /\ Finite(ApplyObservation(L, n, o))
           /\ Extends(L, ApplyObservation(L, n, o))
<1> DEFINE M == IF o.type = "run_tests" THEN RecordTests(L, o) ELSE L
           N == IF o.success /\ o.type \in {"run_tests", "finish"}
                THEN CloseFailures(M, o) ELSE M
           c == [kind |-> "risk", text |-> o.message, concern |-> 95,
                 status |-> "open", evidence |-> {o.message}]
           K == IF o.type = "finish" /\ ~o.success THEN RecordFailure(N, n, o) ELSE N
<1>1. Finite(M) /\ Extends(L, M)
  BY RecordTestsLemma DEF Extends
<1>2. Finite(N) /\ Extends(M, N)
  <2> HIDE DEF M
  <2>1. {o.message} \subseteq Texts
    BY DEF CodingObservation
  <2> QED
    BY <1>1, <2>1, AddressLemma DEF CloseFailures, Extends
<1>3. Finite(K) /\ Extends(N, K)
  <2> HIDE DEF N
  <2>1. c \in CodingConcern /\ FailureId(n) \in Ids
    BY DEF CodingConcern, CodingObservation, Kinds, Statuses, FailureId, Ids, IdRoots
  <2>2. Finite(AppendConcern(N, FailureId(n), c)) /\ Extends(N, AppendConcern(N, FailureId(n), c))
    <3> HIDE DEF c
    <3> QED
      BY <1>2, <2>1, AppendConcernLemma
  <2> QED
    BY <1>2, <2>2 DEF RecordFailure, Extends
<1>4. ApplyObservation(L, n, o) = K
  BY DEF ApplyObservation
<1> HIDE DEF M, N, K
<1> QED
  BY <1>1, <1>2, <1>3, <1>4, ExtendsTransitive

(* A verified finish leaves no concern unresolved that was not so before.  *)
LEMMA VerifiedFinishLemma ==
    ASSUME NEW L, Finite(L), NEW n \in Nat, NEW o \in CodingObservation,
           o.type = "finish", o.success
    PROVE  Unresolved(ApplyObservation(L, n, o)) \subseteq Unresolved(L)
<1>1. ApplyObservation(L, n, o) = CloseFailures(L, o)
  BY DEF ApplyObservation
<1>2. {o.message} \subseteq Texts
  BY DEF CodingObservation
<1> QED
  BY <1>1, <1>2, AddressLemma DEF CloseFailures

(* An observation other than a passing test run or a verified finish       *)
(* closes no verification failure.                                         *)
LEMMA FailuresStayLemma ==
    ASSUME NEW L, Finite(L), NEW n \in Nat, NEW o \in CodingObservation,
           ~(o.success /\ o.type \in {"run_tests", "finish"}),
           NEW i \in OpenFailures(L)
    PROVE  i \in OpenFailures(ApplyObservation(L, n, o))
<1>1. i \in DOMAIN L /\ i[1] = "verification_failure" /\ L[i].status = "open"
  BY DEF OpenFailures
<1>2. CASE o.type = "run_tests"
  <2>1. ApplyObservation(L, n, o) = RecordTests(L, o) /\ ~o.success
    BY <1>2 DEF ApplyObservation
  <2>2. TestId(L) # i
    BY <1>1 DEF TestId
  <2> QED
    BY <1>1, <2>1, <2>2 DEF RecordTests, AppendConcern, OpenFailures
<1>3. CASE o.type = "finish"
  <2> DEFINE c == [kind |-> "risk", text |-> o.message, concern |-> 95,
                   status |-> "open", evidence |-> {o.message}]
  <2>1. ApplyObservation(L, n, o) = AppendConcern(L, FailureId(n), c)
    BY <1>3 DEF ApplyObservation, RecordFailure
  <2>2. c.status = "open"
    OBVIOUS
  <2> HIDE DEF c
  <2>3. [c EXCEPT !.evidence = @ \union L[i].evidence].status = "open"
    <3>1. c \in CodingConcern
      BY DEF c, CodingConcern, CodingObservation, Kinds, Statuses
    <3> QED
      BY <2>2, <3>1 DEF CodingConcern
  <2> QED
    BY <1>1, <2>1, <2>2, <2>3 DEF AppendConcern, OpenFailures
<1>4. CASE o.type \notin {"run_tests", "finish"}
  BY <1>4 DEF ApplyObservation
<1> QED
  BY <1>2, <1>3, <1>4

-----------------------------------------------------------------------------

(* mirror_ledger_delta keeps the projection in agreement with a ledger     *)
(* that grew from L to M: whatever changed of a concern, the events say    *)
(* its kind, text, level and status, and invent no evidence.               *)
LEMMA MirrorDeltaLemma ==
    ASSUME NEW P, NEW L, NEW M, NEW latest,
           IsLedger(L), IsLedger(M), Extends(L, M), Agrees(P, L)
    PROVE  Agrees(MirrorDelta(P, L, M, latest), M)
<1> DEFINE Q == MirrorDelta(P, L, M, latest)
<1>1. DOMAIN Q = DOMAIN M
  BY DEF MirrorDelta, Extends, Agrees
<1>2. ASSUME NEW i \in DOMAIN M
      PROVE  /\ Q[i] = [M[i] EXCEPT !.evidence = Q[i].evidence]
             /\ Q[i].evidence \subseteq M[i].evidence
  <2>0. M[i] \in CodingConcern
    BY DEF IsLedger
  <2>1. CASE i \notin DOMAIN L
    <3>1. Q[i] = M[i]
      BY <1>1, <2>1 DEF MirrorDelta, Agrees
    <3> QED
      BY <2>0, <3>1 DEF CodingConcern
  <2>2. CASE i \in DOMAIN L
    <3> DEFINE p == P[i]
               b == L[i]
               c == M[i]
    <3>1. Q[i] = MirrorConcern(p, b, c, latest)
      BY <2>2 DEF MirrorDelta, Agrees
    <3>2. /\ b \in CodingConcern /\ b.evidence \subseteq c.evidence
          /\ p = [b EXCEPT !.evidence = p.evidence] /\ p.evidence \subseteq b.evidence
      BY <2>2 DEF IsLedger, Extends, Agrees
    <3>3. LastNew(c.evidence \ b.evidence, latest) \subseteq c.evidence
      BY DEF LastNew
    <3> HIDE DEF p, b, c
    <3> DEFINE item   == IF b.status = c.status THEN {}
                         ELSE LastNew(c.evidence \ b.evidence, latest)
               status == IF b.status = c.status THEN p.status ELSE c.status
               marked == [p EXCEPT !.status = status, !.evidence = @ \union item]
    <3>4. /\ marked.evidence \subseteq c.evidence
          /\ marked = [b EXCEPT !.status = c.status, !.evidence = marked.evidence]
      BY <3>2, <3>3 DEF CodingConcern
    <3>5. CASE NeedsRevise(b, c)
      <4>1. Q[i] = [c EXCEPT !.evidence = @ \union marked.evidence]
        BY <3>1, <3>5 DEF MirrorConcern
      <4> QED
        BY <2>0, <3>4, <4>1 DEF CodingConcern, c
    <3>6. CASE ~NeedsRevise(b, c)
      <4>1. Q[i] = marked
        BY <3>1, <3>6 DEF MirrorConcern
      <4>2. b.kind = c.kind /\ b.text = c.text /\ b.concern = c.concern
        BY <3>6 DEF NeedsRevise
      <4>3. c \in CodingConcern
        BY <2>0 DEF c
      <4> HIDE DEF marked
      <4>4. marked = [c EXCEPT !.evidence = marked.evidence]
        BY <3>2, <3>4, <4>2, <4>3 DEF CodingConcern
      <4>5. Q[i] = [c EXCEPT !.evidence = Q[i].evidence] /\ Q[i].evidence \subseteq c.evidence
        <5> HIDE DEF Q
        <5> QED
          BY <3>4, <4>1, <4>4
      <4> QED
        BY <4>5 DEF c
    <3> QED
      BY <3>5, <3>6
  <2> QED
    BY <2>1, <2>2
<1> QED
  BY <1>1, <1>2 DEF Agrees

(* A projection that agrees with a ledger is a ledger.                     *)
LEMMA AgreesLemma ==
    ASSUME NEW P, NEW L, IsLedger(L), Agrees(P, L), P = [i \in DOMAIN P |-> P[i]]
    PROVE  IsLedger(P)
<1>1. ASSUME NEW i \in DOMAIN L
      PROVE  P[i] \in CodingConcern
  <2> DEFINE c == L[i]
             e == P[i].evidence
  <2>1. c \in CodingConcern
    BY DEF IsLedger
  <2>2. P[i] = [c EXCEPT !.evidence = e] /\ e \subseteq c.evidence
    BY DEF Agrees
  <2> HIDE DEF c, e
  <2> QED
    BY <2>1, <2>2 DEF CodingConcern
<1>2. DOMAIN P = DOMAIN L
  BY DEF Agrees
<1>3. P \in [DOMAIN P -> CodingConcern]
  BY <1>1, <1>2
<1> QED
  BY <1>2, <1>3 DEF IsLedger

(* The log's projection is a ledger whenever it agrees with one.           *)
LEMMA MirrorIsLedger ==
    ASSUME NEW P, NEW L, NEW M, NEW latest,
           IsLedger(L), IsLedger(M), Extends(L, M), Agrees(P, L)
    PROVE  IsLedger(MirrorDelta(P, L, M, latest))
<1> DEFINE Q == MirrorDelta(P, L, M, latest)
<1>1. Agrees(Q, M)
  BY MirrorDeltaLemma
<1>2. Q = [i \in DOMAIN Q |-> Q[i]]
  BY DEF MirrorDelta
<1> HIDE DEF Q
<1> QED
  BY <1>1, <1>2, AgreesLemma DEF Q

-----------------------------------------------------------------------------

Ready == Verifiable(tree) /\ Unresolved(ledger) = {}

CommitReady ==
    /\ pc = "gate" /\ observation.success => Ready
    /\ pc = "fail_closed" /\ checks = {} => Ready

(* A step in progress still fits the budget.                               *)
BudgetLeft == pc \in {"execute", "gate"} => step < MaxSteps

IInv == /\ TypeOK /\ MirrorAgrees /\ BudgetLeft
        /\ CommitReady /\ CommitIsVerified
        /\ NoMarkedSubmission /\ ResultIsTheTree

-----------------------------------------------------------------------------

(* Only files of the workspace are modified or in a diff.                  *)
LEMMA WorkspaceTypes ==
    ASSUME NEW t
    PROVE  /\ ModifiedFiles(t) \subseteq Files
           /\ DiffFiles(t) \subseteq Files
BY DEF ModifiedFiles, DiffFiles

(* After restore_baseline nothing is modified: in particular the marker is *)
(* in no diff, whatever bytes the snapshot could not read.                 *)
LEMMA RestoreLemma ==
    ASSUME NEW t \in Trees
    PROVE  /\ RestoreBaseline(t) \in Trees
           /\ ModifiedFiles(RestoreBaseline(t)) = {}
           /\ ~Marked(RestoreBaseline(t))
<1> DEFINE r == RestoreBaseline(t)
<1>0. Baseline \in Trees /\ Absent # Binary
  BY WorkspaceAssumption
<1>1. r \in Trees
  BY <1>0 DEF RestoreBaseline, Snapshot, Trees
<1>2. ASSUME NEW f \in Files
      PROVE  Snapshot(r)[f] = Snapshot(Baseline)[f]
  BY <1>0 DEF RestoreBaseline, Snapshot, Trees
<1>3. ASSUME NEW f \in Files
      PROVE  Text(r, f) = Text(Baseline, f)
  <2>1. ASSUME NEW x, Snapshot(x)[f] # Absent
        PROVE  x[f] = Snapshot(x)[f]
    BY <2>1 DEF Snapshot
  <2> QED
    BY <1>2, <2>1 DEF Text
<1>4. ModifiedFiles(r) = {}
  BY <1>3 DEF ModifiedFiles
<1> QED
  BY <1>1, <1>4 DEF DiffFiles, Marked

(* What Observe does to the ledger and its mirror.                         *)
LEMMA ObserveLemma ==
    ASSUME TypeOK, MirrorAgrees, NEW o \in CodingObservation, Observe(o)
    PROVE  /\ Finite(ledger') /\ IsLedger(projection') /\ MirrorAgrees'
           /\ events' \in Nat /\ trail' \in Nat
           /\ observation' = o
           /\ ledger' = ApplyObservation(ledger, events + 1, o)
<1> DEFINE after == ApplyObservation(ledger, events + 1, o)
<1>1. Finite(ledger) /\ Agrees(projection, ledger) /\ events + 1 \in Nat
  BY DEF TypeOK, MirrorAgrees, Finite, Agrees
<1>2. Finite(after) /\ Extends(ledger, after)
  BY <1>1, ApplyObservationLemma
<1>3. /\ observation' = o /\ ledger' = after
      /\ projection' = MirrorDelta(projection, ledger, after, {o.message})
      /\ events' = events + 1 /\ trail' = trail + 1
  BY DEF Observe
<1>4. Agrees(projection', ledger') /\ IsLedger(projection')
  <2> HIDE DEF after
  <2> QED
    BY <1>1, <1>2, <1>3, MirrorDeltaLemma, MirrorIsLedger DEF Finite
<1>5. MirrorAgrees'
  BY <1>4 DEF Agrees, MirrorAgrees
<1> QED
  BY <1>1, <1>2, <1>3, <1>4, <1>5 DEF TypeOK

(* Every message the harness writes is a text.                             *)
LEMMA MessageLemma ==
    ASSUME NEW type \in ActionTypes, NEW success \in BOOLEAN,
           NEW message \in {TestsPassed, TestsFailed, Verified, Feedback,
                            DoneText, ErrorText, GateText}
    PROVE  [type |-> type, success |-> success, message |-> message] \in CodingObservation
BY TextsAssumption DEF CodingObservation

(* Away from the two places where a verdict waits and from the result,     *)
(* what is said of them holds.                                             *)
LEMMA StillWorking ==
    ASSUME pc' \notin {"gate", "fail_closed", "returned"}
    PROVE  (CommitReady /\ CommitIsVerified /\ NoMarkedSubmission /\ ResultIsTheTree)'
BY DEF CommitReady, CommitIsVerified, NoMarkedSubmission, ResultIsTheTree

(* An action other than a finish, once executed.                           *)
LEMMA ExecutedLemma ==
    ASSUME IInv, pc = "execute", tree' \in Trees,
           NEW success \in BOOLEAN,
           NEW message \in {TestsPassed, TestsFailed, DoneText, ErrorText},
           Executed(success, message)
    PROVE  IInv' /\ pc' = "propose"
<1> DEFINE o == [type |-> action.type, success |-> success, message |-> message]
<1>1. /\ Observe(o) /\ step' = step + 1 /\ pc' = "propose"
      /\ UNCHANGED <<action, checks, result>>
  BY DEF Executed
<1>2. o \in CodingObservation
  BY MessageLemma DEF IInv, TypeOK, CodingAction
<1> HIDE DEF o
<1>3. MirrorAgrees' /\ TypeOK'
  <2>1. /\ Finite(ledger') /\ IsLedger(projection') /\ MirrorAgrees'
        /\ events' \in Nat /\ trail' \in Nat /\ observation' = o
    BY <1>1, <1>2, ObserveLemma DEF IInv
  <2> QED
    BY <1>1, <1>2, <2>1, RunAssumption DEF IInv, TypeOK, Finite, BudgetLeft
<1> QED
  BY <1>1, <1>3, StillWorking DEF IInv, BudgetLeft

(* A run starts with its ledger mirrored, its budget whole.                *)
LEMMA InitInv == Init => IInv
<1> SUFFICES ASSUME Init PROVE IInv
  OBVIOUS
<1>1. NoAction \in CodingAction
  BY DEF NoAction, CodingAction, ActionTypes
<1>2. NoObservation \in CodingObservation
  BY TextsAssumption DEF NoObservation, CodingObservation, ActionTypes
<1>3. NoResult \in [success: BOOLEAN, failed: SUBSET (CheckNames \union {GateCheck}),
                    files: SUBSET Files, diff: SUBSET Files]
  BY DEF NoResult
<1>4. TypeOK
  BY <1>1, <1>2, <1>3, RunAssumption, WorkspaceAssumption DEF Init, TypeOK
<1>5. MirrorAgrees
  <2>1. \A i \in DOMAIN InitialLedger : InitialLedger[i] \in CodingConcern
    BY RunAssumption DEF IsLedger
  <2> QED
    BY <2>1 DEF Init, MirrorAgrees, CodingConcern
<1> QED
  BY <1>4, <1>5 DEF Init, IInv, BudgetLeft, CommitReady, CommitIsVerified,
                    NoMarkedSubmission, ResultIsTheTree

(* An action of the agent keeps ledger and projection in agreement.        *)
LEMMA ProposeInv == IInv /\ Propose => IInv'
<1> SUFFICES ASSUME IInv, Propose PROVE IInv'
  OBVIOUS
<1>1. PICK a \in AgentActions :
        /\ action' = a
        /\ ledger' = ApplyAction(ledger, a)
        /\ projection' = MirrorDelta(projection, ledger, ApplyAction(ledger, a), a.rationale)
  BY DEF Propose
<1>2. a \in CodingAction
  BY RunAssumption
<1>3. Finite(ledger) /\ Agrees(projection, ledger)
  BY DEF IInv, TypeOK, MirrorAgrees, Finite, Agrees
<1>4. Finite(ledger') /\ Extends(ledger, ledger')
  <2>1. a.updates \subseteq [id: Ids, concern: CodingConcern] /\ a.rationale \subseteq Texts
    BY <1>2 DEF CodingAction
  <2> QED
    BY <1>1, <1>3, <2>1, ApplyActionLemma
<1>5. Agrees(projection', ledger') /\ IsLedger(projection')
  <2>1. projection' = MirrorDelta(projection, ledger, ledger', a.rationale)
    BY <1>1
  <2> QED
    BY <1>3, <1>4, <2>1, MirrorDeltaLemma, MirrorIsLedger DEF Finite
<1>6. TypeOK'
  BY <1>1, <1>2, <1>4, <1>5 DEF IInv, TypeOK, Propose, Finite
<1>7. MirrorAgrees'
  BY <1>5 DEF Agrees, MirrorAgrees
<1>8. BudgetLeft'
  BY DEF Propose, BudgetLeft
<1> QED
  BY <1>6, <1>7, <1>8, StillWorking DEF Propose, IInv

(* A malformed update changes nothing but where the loop is.               *)
LEMMA ProposeMalformedInv == IInv /\ ProposeMalformed => IInv'
<1> SUFFICES ASSUME IInv, ProposeMalformed PROVE IInv'
  OBVIOUS
<1>1. TypeOK'
  BY RunAssumption DEF IInv, TypeOK, ProposeMalformed
<1>2. MirrorAgrees' /\ BudgetLeft'
  BY DEF IInv, MirrorAgrees, BudgetLeft, ProposeMalformed
<1> QED
  BY <1>1, <1>2, StillWorking DEF ProposeMalformed, IInv

(* An error of the agent is observed and uses up a step.                   *)
LEMMA ProposalErrorInv == IInv /\ ProposalError => IInv'
<1> SUFFICES ASSUME IInv, ProposalError PROVE IInv'
  OBVIOUS
<1> DEFINE o == [type |-> "inspect", success |-> FALSE, message |-> ErrorText]
<1>1. o \in CodingObservation
  BY MessageLemma DEF ActionTypes
<1>2. Observe(o) /\ step' = step + 1 /\ UNCHANGED <<pc, tree, action, checks, result>>
  BY DEF ProposalError
<1> HIDE DEF o
<1>3. TypeOK' /\ MirrorAgrees'
  <2>1. /\ Finite(ledger') /\ IsLedger(projection') /\ MirrorAgrees'
        /\ events' \in Nat /\ trail' \in Nat /\ observation' = o
    BY <1>1, <1>2, ObserveLemma DEF IInv
  <2> QED
    BY <1>1, <1>2, <2>1, RunAssumption DEF IInv, TypeOK, Finite, ProposalError
<1>4. BudgetLeft'
  BY DEF ProposalError, BudgetLeft
<1> QED
  BY <1>3, <1>4, StillWorking DEF ProposalError, IInv

(* The end of the budget changes nothing but where the loop is.            *)
LEMMA ExhaustBudgetInv == IInv /\ ExhaustBudget => IInv'
<1> SUFFICES ASSUME IInv, ExhaustBudget PROVE IInv'
  OBVIOUS
<1>1. TypeOK' /\ MirrorAgrees' /\ BudgetLeft'
  BY DEF IInv, TypeOK, MirrorAgrees, BudgetLeft, ExhaustBudget
<1> QED
  BY <1>1, StillWorking DEF ExhaustBudget, IInv

(* An action that reads leaves the tree alone.                             *)
LEMMA ExecuteReadInv == IInv /\ ExecuteRead => IInv'
BY ExecutedLemma DEF ExecuteRead, IInv, TypeOK

(* An edit leaves a tree.                                                  *)
LEMMA ExecuteEditInv == IInv /\ ExecuteEdit => IInv'
<1> SUFFICES ASSUME IInv, ExecuteEdit PROVE IInv'
  OBVIOUS
<1>1. tree' \in Trees
  BY DEF ExecuteEdit, EditFile, Trees, IInv, TypeOK
<1> QED
  BY <1>1, ExecutedLemma DEF ExecuteEdit

(* A command leaves a tree.                                                *)
LEMMA ExecuteCommandInv == IInv /\ ExecuteCommand => IInv'
BY ExecutedLemma DEF ExecuteCommand

(* Tests leave a tree.                                                     *)
LEMMA ExecuteTestsInv == IInv /\ ExecuteTests => IInv'
<1> SUFFICES ASSUME IInv, ExecuteTests PROVE IInv'
  OBVIOUS
<1>1. PICK outcome \in Outcomes, t \in Trees :
        tree' = t /\ Executed(outcome = "pass", TestMessage(outcome))
  BY DEF ExecuteTests
<1>2. TestMessage(outcome) \in {TestsPassed, TestsFailed, DoneText, ErrorText}
  BY DEF TestMessage
<1> QED
  BY <1>1, <1>2, ExecutedLemma DEF ExecuteTests

(* A finish verified on the tree its tests left is ready: its observation  *)
(* closes concerns and opens none.                                         *)
LEMMA ExecuteFinishInv == IInv /\ ExecuteFinish => IInv'
<1> SUFFICES ASSUME IInv, ExecuteFinish PROVE IInv'
  OBVIOUS
<1>1. PICK run \in TestRuns[tree] :
        /\ tree' = run[2]
        /\ checks' = IF run[1] = "error" THEN {} ELSE FailedChecks(run[2], run[1], Unresolved(ledger))
        /\ Observe([type |-> "finish",
                    success |-> run[1] # "error" /\ FailedChecks(run[2], run[1], Unresolved(ledger)) = {},
                    message |-> IF run[1] = "error" THEN ErrorText
                                ELSE IF FailedChecks(run[2], run[1], Unresolved(ledger)) = {}
                                     THEN Verified ELSE Feedback])
  BY DEF ExecuteFinish
<1> DEFINE failed == FailedChecks(run[2], run[1], Unresolved(ledger))
           o == [type |-> "finish", success |-> run[1] # "error" /\ failed = {},
                 message |-> IF run[1] = "error" THEN ErrorText
                             ELSE IF failed = {} THEN Verified ELSE Feedback]
<1>2. /\ tree \in Trees /\ run[2] \in Trees /\ run = <<run[1], run[2]>>
  BY VerifierAssumption DEF IInv, TypeOK
<1>3. o \in CodingObservation
  BY MessageLemma DEF ActionTypes
<1>4. /\ Finite(ledger') /\ IsLedger(projection') /\ MirrorAgrees'
      /\ events' \in Nat /\ trail' \in Nat /\ observation' = o
      /\ ledger' = ApplyObservation(ledger, events + 1, o)
  <2> HIDE DEF o
  <2> QED
    BY <1>1, <1>3, ObserveLemma DEF IInv, o
<1>5. TypeOK'
  <2>1. checks' \subseteq CheckNames
    BY <1>1 DEF FailedChecks
  <2>2. pc' = "gate" /\ UNCHANGED <<step, action, result>>
    BY DEF ExecuteFinish
  <2> HIDE DEF o
  <2> QED
    BY <1>1, <1>2, <1>3, <1>4, <2>1, <2>2 DEF IInv, TypeOK, Finite
<1>6. CommitReady'
  <2>1. SUFFICES ASSUME o.success PROVE Ready'
    BY <1>4 DEF CommitReady, ExecuteFinish
  <2>2. failed = {}
    BY <2>1
  <2>3. Verifiable(run[2]) /\ Unresolved(ledger) = {}
    <3>1. <<run[1], run[2]>> \in TestRuns[tree]
      BY <1>2
    <3> QED
      BY <1>2, <2>2, <3>1, SMTT(60)
         DEF FailedChecks, CheckNames, Verifiable
  <2>4. Unresolved(ledger') \subseteq Unresolved(ledger)
    <3>1. Finite(ledger) /\ events + 1 \in Nat /\ o.type = "finish"
      BY DEF IInv, TypeOK, Finite
    <3> HIDE DEF o
    <3> QED
      BY <1>3, <1>4, <2>1, <3>1, VerifiedFinishLemma
  <2>5. Unresolved(ledger)' = {}
    BY <2>3, <2>4 DEF Unresolved
  <2>6. Verifiable(tree)'
    BY <1>1, <2>3 DEF Verifiable, ModifiedFiles, OutsideAllowed, Weakened, DiffFiles,
                      Text, Snapshot
  <2> QED
    BY <2>5, <2>6 DEF Ready
<1>7. BudgetLeft' /\ CommitIsVerified' /\ NoMarkedSubmission' /\ ResultIsTheTree'
  BY DEF ExecuteFinish, IInv, BudgetLeft, CommitIsVerified, NoMarkedSubmission, ResultIsTheTree
<1> QED
  BY <1>4, <1>5, <1>6, <1>7 DEF IInv

(* A blocked finish is observed as failed, and nothing is returned.        *)
LEMMA GateBlockInv == IInv /\ GateBlock => IInv'
<1> SUFFICES ASSUME IInv, GateBlock PROVE IInv'
  OBVIOUS
<1> DEFINE o == [type |-> "finish", success |-> FALSE, message |-> GateText]
<1>1. o \in CodingObservation
  BY MessageLemma DEF ActionTypes
<1>2. Observe(o) /\ step' = step + 1 /\ pc' = "propose" /\ UNCHANGED <<tree, action, checks, result>>
  BY DEF GateBlock
<1>3. step < MaxSteps
  BY DEF GateBlock, IInv, BudgetLeft
<1> HIDE DEF o
<1>4. TypeOK' /\ MirrorAgrees' /\ BudgetLeft'
  <2>1. /\ Finite(ledger') /\ IsLedger(projection') /\ MirrorAgrees'
        /\ events' \in Nat /\ trail' \in Nat /\ observation' = o
    BY <1>1, <1>2, ObserveLemma DEF IInv
  <2> QED
    BY <1>1, <1>2, <1>3, <2>1, RunAssumption DEF IInv, TypeOK, Finite, BudgetLeft
<1> QED
  BY <1>2, <1>4, StillWorking DEF IInv

(* A step that returns what the tree is, with these failed checks.         *)
LEMMA ReturnLemma ==
    ASSUME TypeOK, NEW t \in Trees, NEW success \in BOOLEAN,
           NEW failed \in SUBSET (CheckNames \union {GateCheck}),
           Return(success, failed, t), tree' = t
    PROVE  /\ pc' = "returned" /\ result'.success = success /\ result'.failed = failed
           /\ result'.files = ModifiedFiles(tree') /\ result'.diff = DiffFiles(tree')
           /\ result' \in [success: BOOLEAN, failed: SUBSET (CheckNames \union {GateCheck}),
                           files: SUBSET Files, diff: SUBSET Files]
<1>1. result' = [success |-> success, failed |-> failed,
                 files |-> ModifiedFiles(t), diff |-> DiffFiles(t)] /\ pc' = "returned"
  BY DEF Return
<1> QED
  BY <1>1, WorkspaceTypes

(* The gate's check is no check of the verifier.                           *)
LEMMA GateCheckLemma == GateCheck \notin CheckNames
BY DEF GateCheck, CheckNames

(* What is accepted is what the verification has just made ready.          *)
LEMMA AcceptInv == IInv /\ Accept => IInv'
<1> SUFFICES ASSUME IInv, Accept PROVE IInv'
  OBVIOUS
<1>1. Ready /\ ~(GateOn /\ Marked(tree))
  BY DEF IInv, CommitReady, Accept
<1>2. /\ Return(TRUE, checks, tree) /\ step' = step + 1
      /\ UNCHANGED <<tree, ledger, events, projection, trail, action, observation, checks>>
  BY DEF Accept
<1>3. checks \subseteq CheckNames /\ tree \in Trees /\ step < MaxSteps /\ step \in Nat
  BY DEF IInv, TypeOK, BudgetLeft, Accept
<1>4. /\ pc' = "returned" /\ result'.success /\ result'.failed = checks
      /\ result'.files = ModifiedFiles(tree') /\ result'.diff = DiffFiles(tree')
      /\ result' \in [success: BOOLEAN, failed: SUBSET (CheckNames \union {GateCheck}),
                      files: SUBSET Files, diff: SUBSET Files]
  BY <1>2, <1>3, ReturnLemma DEF IInv
<1>5. TypeOK'
  BY <1>2, <1>3, <1>4, RunAssumption DEF IInv, TypeOK
<1>6. MirrorAgrees' /\ BudgetLeft' /\ CommitReady'
  BY <1>2, <1>4 DEF IInv, MirrorAgrees, BudgetLeft, CommitReady
<1>7. CommitIsVerified'
  BY <1>1, <1>2 DEF Ready, CommitIsVerified
<1>8. NoMarkedSubmission'
  BY <1>1, <1>2 DEF NoMarkedSubmission
<1>9. ResultIsTheTree'
  BY <1>3, <1>4, GateCheckLemma DEF ResultIsTheTree
<1> QED
  BY <1>5, <1>6, <1>7, <1>8, <1>9 DEF IInv

(* A refused finish returns nothing and uses up its step.                  *)
LEMMA RefuseInv == IInv /\ Refuse => IInv'
<1> SUFFICES ASSUME IInv, Refuse PROVE IInv'
  OBVIOUS
<1>1. TypeOK' /\ MirrorAgrees' /\ BudgetLeft'
  BY RunAssumption DEF IInv, TypeOK, MirrorAgrees, BudgetLeft, Refuse
<1> QED
  BY <1>1, StillWorking DEF Refuse, IInv

(* The budget's verification judges the tree its tests left.               *)
LEMMA VerifyAtBudgetInv == IInv /\ VerifyAtBudget => IInv'
<1> SUFFICES ASSUME IInv, VerifyAtBudget PROVE IInv'
  OBVIOUS
<1>1. PICK run \in TestRuns[tree] :
        /\ tree' = run[2]
        /\ \/ /\ run[1] # "error"
              /\ checks' = FailedChecks(run[2], run[1], Unresolved(ledger))
              /\ pc' = "fail_closed"
           \/ /\ run[1] = "error"
              /\ checks' = checks
              /\ pc' = "raised"
  BY DEF VerifyAtBudget
<1>2. UNCHANGED <<step, ledger, events, projection, trail, action, observation, result>>
  BY DEF VerifyAtBudget
<1>3. tree \in Trees /\ run[2] \in Trees /\ run = <<run[1], run[2]>>
  BY VerifierAssumption DEF IInv, TypeOK
<1>4. checks' \subseteq CheckNames
  BY <1>1 DEF FailedChecks, IInv, TypeOK
<1>5. TypeOK'
  BY <1>1, <1>2, <1>3, <1>4 DEF IInv, TypeOK
<1>6. CommitReady'
  <2>1. SUFFICES ASSUME pc' = "fail_closed", checks' = {} PROVE Ready'
    BY <1>1 DEF CommitReady
  <2>2. FailedChecks(run[2], run[1], Unresolved(ledger)) = {}
    BY <1>1, <2>1
  <2>3. <<run[1], run[2]>> \in TestRuns[tree]
    BY <1>3
  <2>4. Verifiable(run[2]) /\ Unresolved(ledger) = {}
    BY <1>3, <2>2, <2>3, SMTT(60)
         DEF FailedChecks, CheckNames, Verifiable
  <2>5. Verifiable(tree)'
    BY <1>1, <2>4 DEF Verifiable, ModifiedFiles, OutsideAllowed, Weakened, DiffFiles,
                      Text, Snapshot
  <2> QED
    BY <1>2, <2>4, <2>5 DEF Ready
<1>7. MirrorAgrees' /\ BudgetLeft' /\ CommitIsVerified' /\ NoMarkedSubmission' /\ ResultIsTheTree'
  BY <1>1, <1>2 DEF IInv, MirrorAgrees, BudgetLeft, CommitIsVerified, NoMarkedSubmission,
                    ResultIsTheTree
<1> QED
  BY <1>5, <1>6, <1>7 DEF IInv

(* The wipe restores the baseline, which has no diff for a marker to be in.*)
LEMMA FailClosedInv == IInv /\ FailClosed => IInv'
<1> SUFFICES ASSUME IInv, FailClosed PROVE IInv'
  OBVIOUS
<1> DEFINE t == RestoreBaseline(tree)
           failed == checks \union {GateCheck}
<1>1. /\ tree' = t /\ trail' = trail + 1 /\ Return(FALSE, failed, t)
      /\ UNCHANGED <<step, ledger, events, projection, action, observation, checks>>
  BY DEF FailClosed
<1>2. t \in Trees /\ ModifiedFiles(t) = {} /\ ~Marked(t)
  BY RestoreLemma DEF IInv, TypeOK
<1>3. failed \subseteq CheckNames \union {GateCheck}
  BY DEF IInv, TypeOK
<1> HIDE DEF t, failed
<1>4. /\ pc' = "returned" /\ ~result'.success
      /\ result'.files = ModifiedFiles(tree') /\ result'.diff = DiffFiles(tree')
      /\ result' \in [success: BOOLEAN, failed: SUBSET (CheckNames \union {GateCheck}),
                      files: SUBSET Files, diff: SUBSET Files]
  BY <1>1, <1>2, <1>3, ReturnLemma DEF IInv
<1>5. TypeOK'
  BY <1>1, <1>2, <1>4 DEF IInv, TypeOK
<1>6. MirrorAgrees' /\ BudgetLeft' /\ CommitReady' /\ CommitIsVerified'
  BY <1>1, <1>4 DEF IInv, MirrorAgrees, BudgetLeft, CommitReady, CommitIsVerified
<1>7. NoMarkedSubmission' /\ ResultIsTheTree'
  <2>1. ModifiedFiles(tree') = {} /\ ~Marked(tree')
    BY <1>1, <1>2
  <2> QED
    BY <1>4, <2>1 DEF NoMarkedSubmission, ResultIsTheTree
<1> QED
  BY <1>5, <1>6, <1>7 DEF IInv

(* An unmarked tree is returned as the checks have found it.               *)
LEMMA ReturnAtBudgetInv == IInv /\ ReturnAtBudget => IInv'
<1> SUFFICES ASSUME IInv, ReturnAtBudget PROVE IInv'
  OBVIOUS
<1>1. /\ Return(checks = {}, checks, tree) /\ ~(GateOn /\ Marked(tree))
      /\ UNCHANGED <<step, tree, ledger, events, projection, trail, action, observation, checks>>
  BY DEF ReturnAtBudget
<1>2. checks \subseteq CheckNames /\ tree \in Trees
  BY DEF IInv, TypeOK
<1>3. /\ pc' = "returned" /\ result'.success = (checks = {}) /\ result'.failed = checks
      /\ result'.files = ModifiedFiles(tree') /\ result'.diff = DiffFiles(tree')
      /\ result' \in [success: BOOLEAN, failed: SUBSET (CheckNames \union {GateCheck}),
                      files: SUBSET Files, diff: SUBSET Files]
  BY <1>1, <1>2, ReturnLemma DEF IInv
<1>4. TypeOK'
  BY <1>1, <1>3 DEF IInv, TypeOK
<1>5. MirrorAgrees' /\ BudgetLeft' /\ CommitReady'
  BY <1>1, <1>3 DEF IInv, MirrorAgrees, BudgetLeft, CommitReady
<1>6. CommitIsVerified'
  <2>1. checks = {} => Ready
    BY DEF IInv, CommitReady, ReturnAtBudget
  <2> QED
    BY <1>1, <1>3, <2>1 DEF Ready, CommitIsVerified
<1>7. NoMarkedSubmission' /\ ResultIsTheTree'
  BY <1>1, <1>2, <1>3, GateCheckLemma DEF NoMarkedSubmission, ResultIsTheTree
<1> QED
  BY <1>4, <1>5, <1>6, <1>7 DEF IInv

(* Nothing changes in a stuttering step.                                   *)
LEMMA StutterInv == IInv /\ UNCHANGED vars => IInv'
BY DEF IInv, vars, TypeOK, MirrorAgrees, BudgetLeft, CommitReady, Ready, CommitIsVerified,
       NoMarkedSubmission, ResultIsTheTree

(* Every step of a run preserves the invariant.                            *)
LEMMA NextInv == IInv /\ [Next]_vars => IInv'
<1> SUFFICES ASSUME IInv, [Next]_vars PROVE IInv'
  OBVIOUS
<1>1. CASE UNCHANGED vars
  BY <1>1, StutterInv
<1>2. CASE Next
  BY <1>2, ProposeInv, ProposeMalformedInv, ProposalErrorInv, ExhaustBudgetInv,
     ExecuteReadInv, ExecuteEditInv, ExecuteCommandInv, ExecuteTestsInv, ExecuteFinishInv,
     GateBlockInv, AcceptInv, RefuseInv, VerifyAtBudgetInv, FailClosedInv, ReturnAtBudgetInv,
     StutterInv DEF Next, Terminated
<1> QED
  BY <1>1, <1>2

-----------------------------------------------------------------------------

(* The inductive invariant holds of every run of the coding harness.       *)
THEOREM Invariance == Spec => []IInv
BY InitInv, NextInv, PTL DEF Spec

(* The loop's state has its type: in particular the step counter of        *)
(* runner.py never passes the budget and both ledgers stay well formed.    *)
THEOREM TypeCorrect == Spec => []TypeOK
<1>1. IInv => TypeOK
  BY DEF IInv
<1> QED
  BY <1>1, Invariance, PTL

(* For any agent and tests: a successful result is of a verified tree.     *)
THEOREM CommitVerified == Spec => []CommitIsVerified
<1>1. IInv => CommitIsVerified
  BY DEF IInv
<1> QED
  BY <1>1, Invariance, PTL

(* For any agent and tests: with the gate on, no result submits the leak   *)
(* marker of the task (runner.py, _contamination_gate_block and            *)
(* _fail_closed_wipe_if_marked).                                           *)
THEOREM GateIsSound == Spec => []NoMarkedSubmission
<1>1. IInv => NoMarkedSubmission
  BY DEF IInv
<1> QED
  BY <1>1, Invariance, PTL

(* The result describes the tree it leaves behind.                         *)
THEOREM ResultFaithful == Spec => []ResultIsTheTree
<1>1. IInv => ResultIsTheTree
  BY DEF IInv
<1> QED
  BY <1>1, Invariance, PTL

(* So what any result submits is the tree it leaves, and has no marker.    *)
THEOREM SubmissionSound == Spec => []SubmissionIsSound
<1>1. NoMarkedSubmission /\ ResultIsTheTree => SubmissionIsSound
  BY DEF SubmissionIsSound
<1> QED
  BY <1>1, GateIsSound, ResultFaithful, PTL

(* For any actions of the agent, the log's projection agrees with the      *)
(* working ledger in everything but the evidence it may lack.              *)
THEOREM MirrorFaithful == Spec => []MirrorAgrees
<1>1. IInv => MirrorAgrees
  BY DEF IInv
<1> QED
  BY <1>1, Invariance, PTL

-----------------------------------------------------------------------------

(* An observation that neither passes the tests nor verifies a finish.     *)
LEMMA ObserveKeepsFailures ==
    ASSUME TypeOK, MirrorAgrees, NEW o \in CodingObservation, Observe(o),
           ~(o.success /\ o.type \in {"run_tests", "finish"}),
           NEW i \in OpenFailures(ledger)
    PROVE  i \in OpenFailures(ledger')
<1>1. Finite(ledger) /\ events + 1 \in Nat
  BY DEF TypeOK, Finite
<1>2. ledger' = ApplyObservation(ledger, events + 1, o)
  BY ObserveLemma
<1> QED
  BY <1>1, <1>2, FailuresStayLemma

FeedbackStep ==
    \A i \in OpenFailures(ledger) \intersect Unresolved(ledger) :
        \/ i \in OpenFailures(ledger')
        \/ pc = "propose" /\ pc' = "execute"
        \/ pc = "execute" /\ action.type = "run_tests" /\ observation'.success

(* An action other than finish and run_tests keeps feedback open.          *)
LEMMA ExecutedFeedback ==
    ASSUME IInv, pc = "execute", action.type # "finish",
           NEW success \in BOOLEAN,
           NEW message \in {TestsPassed, TestsFailed, DoneText, ErrorText},
           Executed(success, message)
    PROVE  FeedbackStep
<1> DEFINE o == [type |-> action.type, success |-> success, message |-> message]
<1>1. Observe(o) /\ o \in CodingObservation
  BY MessageLemma DEF Executed, IInv, TypeOK, CodingAction
<1>2. observation' = o
  <2> HIDE DEF o
  <2> QED
    BY <1>1, ObserveLemma DEF IInv
<1>3. CASE success /\ action.type = "run_tests"
  BY <1>2, <1>3 DEF FeedbackStep
<1>4. CASE ~(success /\ action.type = "run_tests")
  <2>1. ~(o.success /\ o.type \in {"run_tests", "finish"})
    BY <1>4
  <2> HIDE DEF o
  <2> QED
    BY <1>1, <2>1, ObserveKeepsFailures DEF FeedbackStep, IInv
<1> QED
  BY <1>3, <1>4

(* A finish keeps the feedback open that it has not answered.              *)
LEMMA FinishFeedback ==
    ASSUME IInv, ExecuteFinish
    PROVE  FeedbackStep
<1>1. PICK run \in TestRuns[tree] :
        Observe([type |-> "finish",
                 success |-> run[1] # "error" /\ FailedChecks(run[2], run[1], Unresolved(ledger)) = {},
                 message |-> IF run[1] = "error" THEN ErrorText
                             ELSE IF FailedChecks(run[2], run[1], Unresolved(ledger)) = {}
                                  THEN Verified ELSE Feedback])
  BY DEF ExecuteFinish
<1> DEFINE failed == FailedChecks(run[2], run[1], Unresolved(ledger))
           o == [type |-> "finish", success |-> run[1] # "error" /\ failed = {},
                 message |-> IF run[1] = "error" THEN ErrorText
                             ELSE IF failed = {} THEN Verified ELSE Feedback]
<1>2. tree \in Trees /\ run[2] \in Trees /\ run = <<run[1], run[2]>>
  BY VerifierAssumption DEF IInv, TypeOK
<1>3. CASE o.success
  <2>1. failed = {} /\ <<run[1], run[2]>> \in TestRuns[tree]
    BY <1>2, <1>3
  <2>2. Unresolved(ledger) = {}
    BY <1>2, <2>1, SMTT(60)
         DEF FailedChecks, CheckNames, Verifiable
  <2> QED
    BY <2>2 DEF FeedbackStep
<1>4. CASE ~o.success
  <2>1. o \in CodingObservation
    BY MessageLemma DEF ActionTypes
  <2>2. Observe(o)
    BY <1>1
  <2> HIDE DEF o
  <2> QED
    BY <1>4, <2>1, <2>2, ObserveKeepsFailures DEF FeedbackStep, IInv
<1> QED
  BY <1>3, <1>4

(* Every step keeps the feedback of a finish open, or is one of the two    *)
(* that may close it.                                                      *)
LEMMA NextFeedback ==
    ASSUME IInv, [Next]_vars
    PROVE  [FeedbackStep]_vars
<1>1. CASE UNCHANGED ledger
  BY <1>1 DEF FeedbackStep
<1>2. CASE Propose
  BY <1>2 DEF Propose, FeedbackStep
<1>3. CASE ProposalError \/ GateBlock
  <2>1. PICK o \in CodingObservation : Observe(o) /\ ~o.success
    <3>1. [type |-> "inspect", success |-> FALSE, message |-> ErrorText] \in CodingObservation
      BY MessageLemma DEF ActionTypes
    <3>2. [type |-> "finish", success |-> FALSE, message |-> GateText] \in CodingObservation
      BY MessageLemma DEF ActionTypes
    <3> QED
      BY <1>3, <3>1, <3>2 DEF ProposalError, GateBlock
  <2> QED
    BY <2>1, ObserveKeepsFailures DEF FeedbackStep, IInv
<1>4. CASE ExecuteRead \/ ExecuteEdit
  BY <1>4, ExecutedFeedback DEF ExecuteRead, ExecuteEdit
<1>5. CASE ExecuteCommand
  BY <1>5, ExecutedFeedback DEF ExecuteCommand
<1>6. CASE ExecuteTests
  <2>1. PICK outcome \in Outcomes : Executed(outcome = "pass", TestMessage(outcome))
    BY <1>6 DEF ExecuteTests
  <2>2. TestMessage(outcome) \in {TestsPassed, TestsFailed, DoneText, ErrorText}
    BY DEF TestMessage
  <2> QED
    BY <1>6, <2>1, <2>2, ExecutedFeedback DEF ExecuteTests
<1>7. CASE ExecuteFinish
  BY <1>7, FinishFeedback
<1> QED
  BY <1>1, <1>2, <1>3, <1>4, <1>5, <1>6, <1>7
     DEF Next, vars, ProposeMalformed, ExhaustBudget, Accept, Refuse, VerifyAtBudget,
         FailClosed, ReturnAtBudget, Terminated

(* The feedback of a failed or blocked finish outlives every finish: only  *)
(* a proposal of the agent or a passing test run closes it.                *)
THEOREM FeedbackOutlives == Spec => FeedbackOutlivesFinish
<1>1. IInv /\ [Next]_vars => [FeedbackStep]_vars
  BY NextFeedback
<1> QED
  BY <1>1, Invariance, PTL DEF Spec, FeedbackOutlivesFinish, FeedbackStep

-----------------------------------------------------------------------------

(* An observation takes nothing out of the ledger.                         *)
LEMMA ObserveExtends ==
    ASSUME TypeOK, MirrorAgrees, NEW o \in CodingObservation, Observe(o)
    PROVE  Extends(ledger, ledger')
<1>1. Finite(ledger) /\ events + 1 \in Nat
  BY DEF TypeOK, Finite
<1>2. ledger' = ApplyObservation(ledger, events + 1, o)
  BY ObserveLemma
<1> QED
  BY <1>1, <1>2, ApplyObservationLemma

(* An executed action extends the ledger by its observation.               *)
LEMMA ExecutedExtends ==
    ASSUME IInv, NEW success \in BOOLEAN,
           NEW message \in {TestsPassed, TestsFailed, DoneText, ErrorText},
           Executed(success, message)
    PROVE  Extends(ledger, ledger')
<1>1. [type |-> action.type, success |-> success, message |-> message] \in CodingObservation
  BY MessageLemma DEF IInv, TypeOK, CodingAction
<1>2. Observe([type |-> action.type, success |-> success, message |-> message])
  BY DEF Executed
<1> QED
  BY <1>1, <1>2, ObserveExtends DEF IInv

(* A proposal updates and addresses concerns, and takes out none.          *)
LEMMA ProposeExtends ==
    ASSUME IInv, Propose
    PROVE  Extends(ledger, ledger')
<1>1. PICK a \in AgentActions : ledger' = ApplyAction(ledger, a)
  BY DEF Propose
<1>2. a.updates \subseteq [id: Ids, concern: CodingConcern] /\ a.rationale \subseteq Texts
  BY RunAssumption DEF CodingAction
<1>3. a \in CodingAction /\ Finite(ledger)
  BY RunAssumption DEF IInv, TypeOK, Finite
<1> QED
  BY <1>1, <1>2, <1>3, ApplyActionLemma

(* Every step leaves every concern, with all its evidence.                 *)
LEMMA NextExtends ==
    ASSUME IInv, [Next]_vars
    PROVE  Extends(ledger, ledger')
<1>1. CASE UNCHANGED ledger
  BY <1>1 DEF Extends
<1>2. CASE Propose
  BY <1>2, ProposeExtends
<1>3. CASE ProposalError \/ GateBlock \/ ExecuteFinish
  <2>1. PICK o \in CodingObservation : Observe(o)
    <3>1. CASE ProposalError \/ GateBlock
      BY <3>1, MessageLemma DEF ProposalError, GateBlock, ActionTypes
    <3>2. CASE ExecuteFinish
      <4>1. PICK success \in BOOLEAN, message \in {ErrorText, Verified, Feedback} :
              Observe([type |-> "finish", success |-> success, message |-> message])
        BY <3>2 DEF ExecuteFinish
      <4>2. [type |-> "finish", success |-> success, message |-> message] \in CodingObservation
        BY MessageLemma DEF ActionTypes
      <4> QED
        BY <4>1, <4>2
    <3> QED
      BY <1>3, <3>1, <3>2
  <2> QED
    BY <2>1, ObserveExtends DEF IInv
<1>4. CASE ExecuteRead \/ ExecuteEdit
  BY <1>4, ExecutedExtends DEF ExecuteRead, ExecuteEdit
<1>5. CASE ExecuteCommand
  BY <1>5, ExecutedExtends DEF ExecuteCommand
<1>6. CASE ExecuteTests
  <2>1. PICK outcome \in Outcomes : Executed(outcome = "pass", TestMessage(outcome))
    BY <1>6 DEF ExecuteTests
  <2>2. TestMessage(outcome) \in {TestsPassed, TestsFailed, DoneText, ErrorText}
    BY DEF TestMessage
  <2> QED
    BY <2>1, <2>2, ExecutedExtends
<1> QED
  BY <1>1, <1>2, <1>3, <1>4, <1>5, <1>6
     DEF Next, vars, ProposeMalformed, ExhaustBudget, Accept, Refuse, VerifyAtBudget,
         FailClosed, ReturnAtBudget, Terminated

(* The ledger remembers every concern and all its evidence, whatever the   *)
(* agent updates: append_concern and apply_observation only ever add.      *)
THEOREM Remembers == Spec => LedgerRemembers
<1>1. IInv /\ [Next]_vars =>
        [\A i \in DOMAIN ledger :
            i \in DOMAIN ledger' /\ ledger[i].evidence \subseteq ledger'[i].evidence]_vars
  BY NextExtends DEF Extends
<1> QED
  BY <1>1, Invariance, PTL DEF Spec, LedgerRemembers

-----------------------------------------------------------------------------

(* Every step of the loop is a step of VerifiedCommit, or changes neither  *)
(* the tree nor the verdict.                                               *)
LEMMA CommitStep ==
    ASSUME IInv, IInv', [Next]_vars
    PROVE  [Commit!Next]_(Commit!vars)
<1>0. tree' \in Trees
  BY DEF IInv, TypeOK
<1>1. CASE UNCHANGED vars
  BY <1>1 DEF vars, Commit!vars
<1>2. CASE pc \notin {"returned", "raised"} /\ pc' \notin {"returned", "raised"}
  BY <1>0, <1>2 DEF Commit!Next, Commit!Work
<1>3. CASE pc \notin {"returned", "raised"} /\ pc' = "raised"
  BY <1>0, <1>3 DEF Commit!Next, Commit!Abort
<1>4. CASE pc \notin {"returned", "raised"} /\ pc' = "returned" /\ ~result'.success
  <2>1. ~(GateOn /\ Marked(tree'))
    BY <1>4 DEF IInv, NoMarkedSubmission, Marked, DiffFiles, ModifiedFiles, Text, Snapshot
  <2> QED
    BY <1>0, <1>4, <2>1 DEF Commit!Next, Commit!Reject
<1>5. CASE /\ pc \notin {"returned", "raised"} /\ pc' = "returned" /\ result'.success
           /\ UNCHANGED tree
  <2>1. ~(GateOn /\ Marked(tree')) /\ Verifiable(tree')
    BY <1>5 DEF IInv, CommitIsVerified, NoMarkedSubmission, Verifiable, OutsideAllowed, Weakened,
                Marked, DiffFiles, ModifiedFiles, Text, Snapshot
  <2> QED
    BY <1>0, <1>5, <2>1 DEF Commit!Next, Commit!Accept
<1>6. ASSUME Next
      PROVE  \/ UNCHANGED vars
             \/ pc \notin {"returned", "raised"}
  BY <1>6 DEF Next, Propose, ProposeMalformed, ProposalError, ExhaustBudget, ExecuteRead,
              ExecuteEdit, ExecuteCommand, ExecuteTests, ExecuteFinish, GateBlock, Accept,
              Refuse, VerifyAtBudget, FailClosed, ReturnAtBudget, Terminated
<1>7. ASSUME Next, pc \notin {"returned", "raised"}, pc' = "returned", result'.success
      PROVE  UNCHANGED tree
  <2>1. Accept \/ FailClosed \/ ReturnAtBudget
    BY <1>7 DEF Next, Propose, ProposeMalformed, ProposalError, ExhaustBudget, ExecuteRead,
                ExecuteEdit, ExecuteCommand, ExecuteTests, ExecuteFinish, Executed, GateBlock,
                Refuse, VerifyAtBudget, Terminated
  <2>2. ~FailClosed
    BY <1>7 DEF FailClosed, Return
  <2> QED
    BY <2>1, <2>2 DEF Accept, ReturnAtBudget
<1> QED
  BY <1>1, <1>2, <1>3, <1>4, <1>5, <1>6, <1>7

(* The coding harness implements VerifiedCommit: for any agent and tests,  *)
(* it gives one verdict, accepts only a verified tree that may leave the   *)
(* harness, and touches nothing after the verdict.                         *)
THEOREM Refinement == Spec => ImplementsVerifiedCommit
<1>1. Init => Commit!Init
  BY DEF Init, Commit!Init
<1>2. IInv /\ IInv' /\ [Next]_vars => [Commit!Next]_(Commit!vars)
  BY CommitStep
<1> QED
  BY <1>1, <1>2, Invariance, PTL DEF Spec, ImplementsVerifiedCommit, Commit!Spec

-----------------------------------------------------------------------------

(* What the certificate of a coding run says of its verdict, and how many  *)
(* observations a run leaves.  Each turn of the loop is counted by TurnInv; *)
(* the certificate's invariant CInv rests on IInv and on a result being a  *)
(* success exactly when it lists no failed check.                          *)

(* In the middle of a turn the loop is one observation ahead of its count. *)
TurnInv ==
    /\ pc \in {"propose", "execute"} => events >= step /\ events <= 2 * step
    /\ pc = "gate" => events >= step + 1 /\ events <= 2 * step + 1
    /\ trail = events + (IF pc = "returned" /\ GateCheck \in result.failed THEN 1 ELSE 0)

LEMMA CountLemma ==
    ASSUME TypeOK, TurnInv, pc # "returned", NEW o, Observe(o)
    PROVE  events \in Nat /\ step \in Nat /\ events' = events + 1 /\ trail' = events + 1
BY RunAssumption DEF TypeOK, TurnInv, Observe

(* An executed action leaves one observation and ends its turn.            *)
LEMMA ExecutedCount ==
    ASSUME TypeOK, TurnInv, pc = "execute", NEW success, NEW message,
           Executed(success, message)
    PROVE  TurnInv'
<1>1. step' = step + 1 /\ pc' = "propose"
  BY DEF Executed
<1>2. events \in Nat /\ step \in Nat /\ events' = events + 1 /\ trail' = events + 1
  BY CountLemma DEF Executed
<1> QED
  BY <1>1, <1>2 DEF TurnInv

LEMMA FinishCount == ASSUME TypeOK, TurnInv, ExecuteFinish PROVE TurnInv'
<1>1. pc = "execute" /\ pc' = "gate" /\ step' = step
  BY DEF ExecuteFinish
<1>2. events \in Nat /\ step \in Nat /\ events' = events + 1 /\ trail' = events + 1
  BY <1>1, CountLemma DEF ExecuteFinish
<1> QED
  BY <1>1, <1>2 DEF TurnInv

(* A blocked finish, and a proposal that raised, leave one more.           *)
LEMMA ErrorCount ==
    ASSUME TypeOK, TurnInv, GateBlock \/ ProposalError PROVE TurnInv'
<1>1. pc \in {"gate", "propose"} /\ pc' = "propose" /\ step' = step + 1
  BY DEF GateBlock, ProposalError
<1>2. events \in Nat /\ step \in Nat /\ events' = events + 1 /\ trail' = events + 1
  BY <1>1, CountLemma DEF GateBlock, ProposalError
<1> QED
  BY <1>1, <1>2 DEF TurnInv

(* Returning observes nothing but the wipe, and that in the log.           *)
LEMMA ReturnCount ==
    ASSUME TypeOK, TurnInv, Accept \/ FailClosed \/ ReturnAtBudget PROVE TurnInv'
<1>1. checks \subseteq CheckNames /\ events \in Nat
  BY DEF TypeOK
<1>2. CASE Accept \/ ReturnAtBudget
  <2>1. pc' = "returned" /\ result'.failed = checks /\ UNCHANGED <<events, trail>>
    BY <1>2 DEF Accept, ReturnAtBudget, Return
  <2>2. trail = events
    <3>1. pc # "returned"
      BY <1>2 DEF Accept, ReturnAtBudget
    <3> QED
      BY <1>1, <3>1 DEF TurnInv
  <2> QED
    BY <1>1, <2>1, <2>2, GateCheckLemma DEF TurnInv
<1>3. CASE FailClosed
  <2>1. /\ pc' = "returned" /\ GateCheck \in result'.failed
        /\ events' = events /\ trail' = trail + 1
    BY <1>3 DEF FailClosed, Return
  <2>2. trail = events
    BY <1>1, <1>3 DEF TurnInv, FailClosed
  <2> QED
    BY <1>1, <2>1, <2>2 DEF TurnInv
<1> QED
  BY <1>2, <1>3

LEMMA TurnStep == TypeOK /\ TurnInv /\ [Next]_vars => TurnInv'
<1> SUFFICES ASSUME TypeOK, TurnInv, [Next]_vars PROVE TurnInv'
  OBVIOUS
<1>1. events \in Nat /\ step \in Nat
  BY RunAssumption DEF TypeOK
<1>2. CASE ExecuteRead \/ ExecuteEdit \/ ExecuteCommand \/ ExecuteTests
  <2>1. pc = "execute"
    BY <1>2 DEF ExecuteRead, ExecuteEdit, ExecuteCommand, ExecuteTests
  <2>2. \E success, message : Executed(success, message)
    BY <1>2 DEF ExecuteRead, ExecuteEdit, ExecuteCommand, ExecuteTests
  <2> QED
    BY <2>1, <2>2, ExecutedCount
<1>3. CASE Propose \/ ProposeMalformed \/ ExhaustBudget \/ Refuse \/ VerifyAtBudget
  BY <1>1, <1>3
     DEF TurnInv, Propose, ProposeMalformed, ExhaustBudget, Refuse, VerifyAtBudget
<1>4. CASE UNCHANGED vars
  BY <1>4 DEF TurnInv, vars
<1> QED
  BY <1>2, <1>3, <1>4, FinishCount, ErrorCount, ReturnCount DEF Next, Terminated

(* For any agent: a turn of runner.py leaves one observation or two, and   *)
(* the log is ahead of the ledger by the wipe of a closed run alone.       *)
THEOREM TurnsObserved == Spec => []EveryTurnObserved
<1>1. Init => TurnInv
  BY DEF Init, TurnInv
<1>2. TurnInv => EveryTurnObserved
  BY DEF TurnInv, EveryTurnObserved
<1> QED
  BY <1>1, <1>2, TurnStep, TypeCorrect, PTL DEF Spec

-----------------------------------------------------------------------------

(* A verdict is a success exactly when no check is listed as failed.       *)
Verdict == pc = "returned" => (result.success <=> result.failed = {})

(* At the gate a verified finish has no failed checks.                     *)
GateReady == pc = "gate" /\ observation.success => checks = {}

(* The certificate is of the result: its checks, and the tools' gates.     *)
Certified ==
    pc = "returned" =>
        /\ certificate.failed \ ToolGates = result.failed
        /\ Unresolved(ledger) = {} => "tool_skip" \notin certificate.failed
        /\ certificate.decision = "allow" => certificate.failed = {}

CInv == IInv /\ GateReady /\ Verdict /\ Certified

LEMMA GatesLemma == (CheckNames \union {GateCheck}) \intersect ToolGates = {}
BY DEF CheckNames, GateCheck, ToolGates

(* Which gates fail, seen from the checks and from the ledger.             *)
LEMMA FailedGatesLemma ==
    ASSUME NEW failed \in SUBSET (CheckNames \union {GateCheck}), NEW t, NEW L,
           NEW ignored, NEW fabricated
    PROVE  LET gates == FailedGates(failed, t, L, ignored, fabricated)
           IN /\ gates \ ToolGates = failed
              /\ gates \subseteq CheckNames \union {GateCheck} \union ToolGates
              /\ Unresolved(L) = {} => "tool_skip" \notin gates
              /\ Decision(gates) = "allow" => gates = {}
<1> DEFINE gates == FailedGates(failed, t, L, ignored, fabricated)
<1>1. gates \ ToolGates = failed /\ gates \subseteq CheckNames \union {GateCheck} \union ToolGates
  BY GatesLemma DEF FailedGates
<1>2. ASSUME Unresolved(L) = {} PROVE "tool_skip" \notin gates
  <2>1. Bare(L) = {}
    BY <1>2 DEF Bare, Unresolved
  <2>2. "tool_skip" \notin failed
    BY DEF CheckNames, GateCheck
  <2> QED
    BY <2>1, <2>2 DEF FailedGates, ToolSkip
<1> HIDE DEF gates
<1>3. Decision(gates) = "allow" => gates = {}
  BY DEF Decision
<1> QED
  BY <1>1, <1>2, <1>3 DEF gates

(* Only the gate and the budget's verification lead to a result.           *)
LEMMA ReturnsLemma ==
    ASSUME Next, pc' = "returned"
    PROVE  Accept \/ FailClosed \/ ReturnAtBudget \/ UNCHANGED vars
<1>1. ~(ExecuteRead \/ ExecuteEdit \/ ExecuteCommand \/ ExecuteTests)
  BY DEF ExecuteRead, ExecuteEdit, ExecuteCommand, ExecuteTests, Executed
<1>2. ~(Propose \/ ProposeMalformed \/ ExhaustBudget \/ ExecuteFinish \/ GateBlock)
  BY DEF Propose, ProposeMalformed, ExhaustBudget, ExecuteFinish, GateBlock
<1>3. ~(Refuse \/ VerifyAtBudget)
  BY DEF Refuse, VerifyAtBudget
<1>4. CASE ProposalError
  BY <1>4 DEF ProposalError
<1> QED
  BY <1>1, <1>2, <1>3, <1>4 DEF Next, Terminated

LEMMA GateReadyStep == ASSUME GateReady, [Next]_vars PROVE GateReady'
<1>1. CASE ExecuteFinish
  <2>1. PICK run \in TestRuns[tree] :
        LET failed == FailedChecks(run[2], run[1], Unresolved(ledger))
        IN /\ checks' = IF run[1] = "error" THEN {} ELSE failed
           /\ Observe([type |-> "finish", success |-> run[1] # "error" /\ failed = {},
                       message |-> IF run[1] = "error" THEN ErrorText
                                   ELSE IF failed = {} THEN Verified ELSE Feedback])
    BY <1>1 DEF ExecuteFinish
  <2> DEFINE failed == FailedChecks(run[2], run[1], Unresolved(ledger))
  <2>2. observation'.success => failed = {}
    BY <2>1 DEF Observe
  <2> QED
    BY <2>1, <2>2 DEF GateReady
<1>2. CASE ExecuteRead \/ ExecuteEdit \/ ExecuteCommand \/ ExecuteTests
  BY <1>2 DEF GateReady, ExecuteRead, ExecuteEdit, ExecuteCommand, ExecuteTests, Executed
<1>3. CASE Accept \/ FailClosed \/ ReturnAtBudget
  BY <1>3 DEF GateReady, Accept, FailClosed, ReturnAtBudget, Return
<1>4. CASE ProposalError
  BY <1>4 DEF GateReady, ProposalError
<1>5. CASE UNCHANGED vars
  BY <1>5 DEF GateReady, vars
<1> QED
  BY <1>1, <1>2, <1>3, <1>4, <1>5
     DEF GateReady, Next, Propose, ProposeMalformed, ExhaustBudget, GateBlock, Refuse,
         VerifyAtBudget, Terminated

LEMMA VerdictStep == ASSUME GateReady, Verdict, [Next]_vars PROVE Verdict'
<1>1. CASE pc' # "returned"
  BY <1>1 DEF Verdict
<1>2. CASE UNCHANGED vars
  BY <1>2 DEF Verdict, vars
<1>3. CASE Accept
  BY <1>3 DEF GateReady, Verdict, Accept, Return
<1>4. CASE FailClosed
  BY <1>4 DEF Verdict, FailClosed, Return
<1>5. CASE ReturnAtBudget
  <2>1. result'.success = (checks = {}) /\ result'.failed = checks
    BY <1>5 DEF ReturnAtBudget, Return
  <2> QED
    BY <2>1 DEF Verdict
<1> QED
  BY <1>1, <1>2, <1>3, <1>4, <1>5, ReturnsLemma

(* A certificate is made with the result, and with it alone.               *)
LEMMA CertifiedStep == ASSUME IInv, Certified, CNext, IInv' PROVE Certified'
<1>1. CASE Certify
  <2>1. PICK ignored \in BOOLEAN, fabricated \in BOOLEAN :
            certificate' = [failed   |-> FailedGates(result'.failed, trace, ledger',
                                                     ignored, fabricated),
                            decision |-> Decision(FailedGates(result'.failed, trace, ledger',
                                                              ignored, fabricated))]
    BY <1>1 DEF Certify
  <2>2. result'.failed \in SUBSET (CheckNames \union {GateCheck})
    BY DEF IInv, TypeOK
  <2> QED
    BY <2>1, <2>2, FailedGatesLemma DEF Certified
<1>2. CASE Enter
  <2>1. Next /\ pc = "execute"
    BY <1>2 DEF Enter
  <2>2. ~(Accept \/ FailClosed \/ ReturnAtBudget)
    BY <2>1 DEF Accept, FailClosed, ReturnAtBudget
  <2>3. pc' # "returned"
    BY <2>1, <2>2, ReturnsLemma DEF vars
  <2> QED
    BY <2>3 DEF Certified
<1>3. CASE Unrecorded
  <2>1. Next /\ UNCHANGED certificate /\ ~(pc \in {"gate", "fail_closed"} /\ pc' = "returned")
    BY <1>3 DEF Unrecorded
  <2>2. CASE pc' # "returned"
    BY <2>2 DEF Certified
  <2>3. CASE pc' = "returned"
    <3>1. UNCHANGED vars
      BY <2>1, <2>3, ReturnsLemma DEF Accept, FailClosed, ReturnAtBudget
    <3> QED
      BY <2>1, <3>1 DEF Certified, vars
  <2> QED
    BY <2>2, <2>3
<1> QED
  BY <1>1, <1>2, <1>3 DEF CNext

LEMMA CStep == CInv /\ [CNext]_cvars => CInv'
<1> SUFFICES ASSUME CInv, [CNext]_cvars PROVE CInv'
  OBVIOUS
<1>1. CASE UNCHANGED cvars
  BY <1>1, StutterInv, GateReadyStep, VerdictStep DEF CInv, cvars, Certified, vars
<1>2. CASE CNext
  <2>1. Next
    BY <1>2 DEF CNext, Enter, Certify, Unrecorded
  <2>2. IInv' /\ GateReady' /\ Verdict'
    BY <2>1, NextInv, GateReadyStep, VerdictStep DEF CInv
  <2> QED
    BY <1>2, <2>2, CertifiedStep DEF CInv
<1> QED
  BY <1>1, <1>2

LEMMA AlwaysCInv == CSpec => []CInv
<1>1. CInit => CInv
  BY InitInv DEF CInit, CInv, Init, GateReady, Verdict, Certified
<1> QED
  BY <1>1, CStep, PTL DEF CSpec

(* Whatever the agent and its tools did: a certificate that allows a       *)
(* result is of a run that succeeded (coding/certificates.py against       *)
(* coding/runner.py, which never compares the two).                        *)
THEOREM CertificateSound == CSpec => []AllowedIsSuccess
<1>1. CInv => AllowedIsSuccess
  <2> SUFFICES ASSUME CInv, pc = "returned"
               PROVE  /\ certificate.decision = "allow" => result.success
                      /\ certificate.failed \subseteq ToolGates <=> result.success
    BY DEF AllowedIsSuccess
  <2>1. /\ certificate.failed \ ToolGates = result.failed
        /\ certificate.decision = "allow" => certificate.failed = {}
    BY DEF CInv, Certified
  <2>2. result.success <=> result.failed = {}
    BY DEF CInv, Verdict
  <2>3. certificate.failed \subseteq ToolGates <=> result.success
    BY <2>1, <2>2
  <2> QED
    BY <2>1, <2>3
<1> QED
  BY <1>1, AlwaysCInv, PTL

(* For any ledger updates: a success leaves no high concern unlooked at.   *)
THEOREM SuccessLooked == CSpec => []SuccessSkippedNothing
<1>1. CInv => SuccessSkippedNothing
  BY DEF CInv, IInv, CommitIsVerified, Certified, SuccessSkippedNothing
<1> QED
  BY <1>1, AlwaysCInv, PTL

-----------------------------------------------------------------------------

TraceType ==
    /\ trace \in [tools: Nat, linked: Nat, read: BOOLEAN, edited: BOOLEAN, finished: BOOLEAN]
    /\ trace.linked <= trace.tools /\ trace.tools <= step

(* An entry counts a tool at most once, and uses up a step if it does.     *)
LEMMA EnterLemma == ASSUME IInv, IInv', TraceType, Enter PROVE TraceType'
<1> DEFINE tool == action.type \in ToolTypes
           link == tool /\ (action.addressed # {} \/ action.rationale # {})
<1>1. /\ pc = "execute" /\ Next /\ step \in Nat
      /\ trace' = Entered(trace, action, observation'.success)
  BY RunAssumption DEF Enter, IInv, TypeOK
<1>2. step' = step \/ step' = step + 1
  BY <1>1 DEF Next, vars, Propose, ProposeMalformed, ProposalError, ExhaustBudget,
     ExecuteRead, ExecuteEdit, ExecuteCommand, ExecuteTests, ExecuteFinish, Executed,
     GateBlock, Accept, Refuse, VerifyAtBudget, FailClosed, ReturnAtBudget, Terminated
<1>3. tool => step' = step + 1
  BY <1>1 DEF ToolTypes, Next, vars, Propose, ProposeMalformed, ProposalError, ExhaustBudget,
     ExecuteRead, ExecuteEdit, ExecuteCommand, ExecuteTests, ExecuteFinish, Executed,
     GateBlock, Accept, Refuse, VerifyAtBudget, FailClosed, ReturnAtBudget, Terminated
<1>4. observation'.success \in BOOLEAN
  BY DEF IInv, TypeOK, CodingObservation
<1>5. trace' = [tools    |-> trace.tools + IF tool THEN 1 ELSE 0,
                linked   |-> trace.linked + IF link THEN 1 ELSE 0,
                read     |-> trace.read \/ (action.type = "read_file" /\ observation'.success),
                edited   |-> trace.edited \/ action.type = "edit_file",
                finished |-> trace.finished \/ action.type = "finish"]
  BY <1>1 DEF Entered
<1>6. link => tool
  OBVIOUS
<1> HIDE DEF tool, link
<1>7. trace' \in [tools: Nat, linked: Nat, read: BOOLEAN, edited: BOOLEAN, finished: BOOLEAN]
  BY <1>4, <1>5 DEF TraceType
<1>8. trace'.linked <= trace'.tools /\ trace'.tools <= step'
  <2>1. trace'.tools = trace.tools + (IF tool THEN 1 ELSE 0)
    BY <1>5
  <2>2. trace'.linked = trace.linked + (IF link THEN 1 ELSE 0)
    BY <1>5
  <2>3. trace.tools \in Nat /\ trace.linked \in Nat
    BY DEF TraceType
  <2> QED
    BY <1>1, <1>2, <1>3, <1>6, <2>1, <2>2, <2>3 DEF TraceType
<1> QED
  BY <1>7, <1>8 DEF TraceType

(* A step that makes no entry takes no step of the budget back.            *)
LEMMA StepGrows == ASSUME IInv, [Next]_vars PROVE step' \in Nat /\ step <= step'
<1>1. step \in Nat
  BY RunAssumption DEF IInv, TypeOK
<1>2. step' = step \/ step' = step + 1
  BY DEF Next, vars, Propose, ProposeMalformed, ProposalError, ExhaustBudget,
     ExecuteRead, ExecuteEdit, ExecuteCommand, ExecuteTests, ExecuteFinish, Executed,
     GateBlock, Accept, Refuse, VerifyAtBudget, FailClosed, ReturnAtBudget, Terminated
<1> QED
  BY <1>1, <1>2

LEMMA KeepTrace == ASSUME IInv, TraceType, [Next]_vars, trace' = trace PROVE TraceType'
<1>1. step \in Nat /\ step' \in Nat /\ step <= step'
  BY StepGrows, RunAssumption DEF IInv, TypeOK
<1>2. trace.tools \in Nat
  BY DEF TraceType
<1> QED
  BY <1>1, <1>2 DEF TraceType

CertificateType ==
    /\ certificate.failed \subseteq CheckNames \union {GateCheck} \union ToolGates
    /\ certificate.decision \in Decisions

LEMMA CertifyType == ASSUME IInv', Certify PROVE CertificateType'
<1>1. PICK ignored \in BOOLEAN, fabricated \in BOOLEAN :
          certificate' = [failed   |-> FailedGates(result'.failed, trace, ledger',
                                                   ignored, fabricated),
                          decision |-> Decision(FailedGates(result'.failed, trace, ledger',
                                                            ignored, fabricated))]
  BY DEF Certify
<1>2. result'.failed \in SUBSET (CheckNames \union {GateCheck})
  BY DEF IInv, TypeOK
<1>3. \A gates : Decision(gates) \in Decisions
  BY DEF Decision, Decisions
<1> QED
  BY <1>1, <1>2, <1>3, FailedGatesLemma DEF CertificateType

(* The trace counts no tool twice and never more of them than steps, and   *)
(* the certificate names gates there are.                                  *)
THEOREM CertificateTypeCorrect == CSpec => []CTypeOK
<1> DEFINE Inv == IInv /\ TraceType /\ CertificateType
<1>1. CInit => Inv
  BY InitInv, RunAssumption
     DEF CInit, Init, TraceType, CertificateType, NoTrace, NoCertificate, Decisions
<1>2. Inv /\ [CNext]_cvars => Inv'
  <2> SUFFICES ASSUME Inv, [CNext]_cvars PROVE Inv'
    OBVIOUS
  <2>1. [Next]_vars /\ IInv'
    BY NextInv DEF CNext, Enter, Certify, Unrecorded, cvars
  <2>2. CASE Enter
    BY <2>1, <2>2, EnterLemma DEF Enter, CertificateType
  <2>3. CASE Certify
    BY <2>1, <2>3, CertifyType, KeepTrace DEF Certify
  <2>4. CASE Unrecorded \/ UNCHANGED cvars
    BY <2>1, <2>4, KeepTrace DEF Unrecorded, cvars, CertificateType
  <2> QED
    BY <2>2, <2>3, <2>4 DEF CNext
<1>3. Inv => CTypeOK
  BY DEF IInv, CTypeOK, TraceType, CertificateType
<1> HIDE DEF Inv
<1> QED
  BY <1>1, <1>2, <1>3, PTL DEF CSpec

(* For any agent, tests and budget the certificate agrees with the verdict.*)
THEOREM CertificateFaithful == CSpec => []CertificateAgrees
<1>1. CTypeOK /\ AllowedIsSuccess /\ SuccessSkippedNothing => CertificateAgrees
  BY DEF CertificateAgrees
<1> QED
  BY <1>1, CertificateTypeCorrect, CertificateSound, SuccessLooked, PTL

-----------------------------------------------------------------------------
(***************************************************************************)
(* Theorems about RecursiveRun, for any number of children and any reports *)
(* of theirs.  Once the parent has started, the run is CodingRun and its   *)
(* invariant IInv carries it; what is added here is that the hand-over     *)
(* establishes IInv from any ledger the children may leave.                *)
(***************************************************************************)

(* A run that has not ended.                                               *)
Running == {"propose", "execute", "gate", "exhausted", "fail_closed"}

(* The children are at work and have touched the ledger alone.             *)
ChildPhase ==
    /\ pc = "children" /\ Finite(ledger) /\ events \in Nat
    /\ step = 0 /\ tree = Baseline /\ projection = << >>
    /\ action = NoAction /\ checks = {} /\ result = NoResult

(* The run has ended with the children.                                    *)
ChildEnd ==
    /\ pc \in {"returned", "raised"} /\ Finite(ledger)
    /\ step = 0 /\ projection = << >> /\ ~result.success

ParentPhase ==
    /\ IInv /\ passed = Len(ChildTasks)
    /\ pc \in Running => trail = events

RInv ==
    /\ child \in 0..Len(ChildTasks) /\ passed \in 0..child
    /\ ChildPhase \/ ChildEnd \/ ParentPhase

-----------------------------------------------------------------------------

(* A child's report, reduced into a ledger, takes nothing out of it.       *)
LEMMA ApplyChildResultLemma ==
    ASSUME Finite(ledger), events \in Nat, NEW n \in Nat, NEW r \in ChildResult
    PROVE  /\ Finite(ApplyChildResult(ledger, n, r))
           /\ Extends(ledger, ApplyChildResult(ledger, n, r))
<1> DEFINE o == [type |-> "inspect", success |-> TRUE, message |-> r.summary]
           L == ApplyObservation(ledger, events + 1, o)
           M == ApplyUpdates(L, r.updates)
<1>1. r.updates \subseteq [id: Ids, concern: CodingConcern] /\ r.summary \in Texts
      /\ r.evidence \subseteq Texts
  BY DEF ChildResult
<1>2. o \in CodingObservation
  BY <1>1 DEF CodingObservation, ActionTypes
<1> HIDE DEF o
<1>3. Finite(L) /\ Extends(ledger, L)
  BY <1>2, ApplyObservationLemma
<1>4. Finite(M) /\ Extends(L, M)
  <2>1. CASE r.updates = {}
    BY <1>3, <2>1 DEF ApplyUpdates, Extends
  <2>2. CASE r.updates # {}
    <3> DEFINE u == CHOOSE u \in r.updates : TRUE
    <3>1. u \in r.updates
      BY <2>2
    <3>2. u.id \in Ids /\ u.concern \in CodingConcern
      BY <1>1, <3>1
    <3>3. M = AppendConcern(L, u.id, u.concern)
      BY <2>2 DEF ApplyUpdates
    <3> HIDE DEF u, M, L
    <3> QED
      BY <1>3, <3>2, <3>3, AppendConcernLemma
  <2> QED
    BY <2>1, <2>2
<1>5. ASSUME NEW K, Finite(K)
      PROVE  Finite(AppendEvidence(K, n, r)) /\ Extends(K, AppendEvidence(K, n, r))
  <2>1. CASE r.evidence = {}
    BY <1>5, <2>1 DEF AppendEvidence, Extends
  <2>2. CASE r.evidence # {}
    <3> DEFINE t == CHOOSE t \in r.evidence : TRUE
               c == [kind |-> "evidence", text |-> t, concern |-> 60,
                     status |-> "addressed", evidence |-> {r.summary}]
    <3>1. t \in Texts
      BY <1>1, <2>2
    <3> HIDE DEF t
    <3>2. c \in CodingConcern
      BY <1>1, <3>1 DEF CodingConcern, Kinds, Statuses
    <3>3. EvidenceId(n) \in Ids
      BY DEF EvidenceId, Ids, IdRoots
    <3>4. AppendEvidence(K, n, r) = AppendConcern(K, EvidenceId(n), c)
      BY <2>2 DEF AppendEvidence, t
    <3> HIDE DEF c
    <3> QED
      BY <1>5, <3>2, <3>3, <3>4, AppendConcernLemma
  <2> QED
    BY <2>1, <2>2
<1>6. ApplyChildResult(ledger, n, r) = AppendEvidence(M, n, r)
  BY DEF ApplyChildResult, o
<1> HIDE DEF L, M
<1> QED
  BY <1>3, <1>4, <1>5, <1>6, ExtendsTransitive

LEMMA Children == Len(ChildTasks) \in Nat
BY RecursiveAssumption

(* Before the first child nothing has happened.                            *)
LEMMA RInitInv == RInit => RInv
BY RunAssumption, Children DEF RInit, RInv, ChildPhase, Finite

(* A validated report changes the ledger and nothing else of the run.      *)
LEMMA ChildPassesInv ==
    ASSUME RInv, ChildPasses
    PROVE  RInv' /\ Extends(ledger, ledger')
<1>1. PICK r \in ChildTasks[child + 1] : r.ok /\ ledger' = ApplyChildResult(ledger, child, r)
  BY DEF ChildPasses
<1>2. pc = "children" /\ child < Len(ChildTasks) /\ child \in Nat /\ passed \in 0..child
  BY Children DEF ChildPasses, RInv
<1>3. ChildPhase
  BY <1>2 DEF RInv, ChildEnd, ParentPhase, IInv, TypeOK
<1>4. r \in ChildResult
  <2>1. child + 1 \in 1..Len(ChildTasks)
    BY <1>2, Children
  <2>2. ChildTasks[child + 1] \in SUBSET ChildResult
    BY <2>1, RecursiveAssumption
  <2> QED
    BY <2>2
<1>5. Finite(ledger') /\ Extends(ledger, ledger')
  BY <1>1, <1>2, <1>3, <1>4, ApplyChildResultLemma DEF ChildPhase
<1>6. ChildPhase'
  BY <1>3, <1>5 DEF ChildPhase, ChildPasses
<1>7. child' \in 0..Len(ChildTasks) /\ passed' \in 0..child'
  BY <1>2, Children DEF ChildPasses
<1> QED
  BY <1>5, <1>6, <1>7 DEF RInv

(* A failed child leaves the ledger alone and ends the run, or does not.   *)
LEMMA ChildEndsInv ==
    ASSUME RInv, ChildFails \/ ChildRaises \/ ChildrenFail
    PROVE  RInv' /\ ledger' = ledger
<1>1. /\ pc = "children" /\ ledger' = ledger /\ passed' = passed
      /\ child' = child \/ (child' = child + 1 /\ child < Len(ChildTasks))
  BY DEF ChildFails, ChildRaises, ChildrenFail
<1>2. ChildPhase
  BY <1>1 DEF RInv, ChildEnd, ParentPhase, IInv, TypeOK
<1>3. child' \in 0..Len(ChildTasks) /\ passed' \in 0..child'
  BY <1>1, Children DEF RInv
<1>4. CASE pc' = "children"
  <2>1. ChildPhase'
    BY <1>2, <1>4 DEF ChildPhase, ChildFails, ChildRaises, ChildrenFail, Return
  <2> QED
    BY <1>1, <1>3, <2>1 DEF RInv
<1>5. CASE pc' # "children"
  <2>1. /\ pc' \in {"returned", "raised"} /\ ~result'.success
        /\ step' = step /\ projection' = projection
    BY <1>1, <1>2, <1>5
       DEF ChildPhase, NoResult, ChildFails, ChildRaises, ChildrenFail, Return
  <2>2. ChildEnd'
    BY <1>1, <1>2, <2>1 DEF ChildPhase, ChildEnd
  <2> QED
    BY <1>1, <1>3, <2>2 DEF RInv
<1> QED
  BY <1>4, <1>5

(* The hand-over establishes the invariant of the parent's run: its log,   *)
(* built from the ledger the children left, agrees with that ledger.       *)
LEMMA StartParentInv ==
    ASSUME RInv, StartParent
    PROVE  RInv' /\ Extends(ledger, ledger')
<1>1. pc = "children" /\ child = Len(ChildTasks) /\ passed = child /\ HandOver(ledger)
  BY DEF StartParent
<1>2. ChildPhase
  BY <1>1 DEF RInv, ChildEnd, ParentPhase, IInv, TypeOK
<1>3. Finite(ledger) /\ IsLedger(ledger) /\ events \in Nat /\ events + 1 \in Nat
  BY <1>2 DEF ChildPhase, Finite
<1>4. Summary \in CodingObservation
  BY TextsAssumption DEF Summary, CodingObservation, ActionTypes
<1>5. ledger' = ApplyObservation(ledger, events + 1, Summary)
  BY <1>1 DEF HandOver
<1>6. Finite(ledger') /\ IsLedger(ledger') /\ Extends(ledger, ledger')
  BY <1>3, <1>4, <1>5, ApplyObservationLemma DEF Finite
<1>7. projection' = MirrorDelta(ledger, ledger, ledger', {DoneText})
  BY <1>1 DEF HandOver
<1>8. Agrees(ledger, ledger)
  <2>1. ASSUME NEW i \in DOMAIN ledger
        PROVE  ledger[i] = [ledger[i] EXCEPT !.evidence = ledger[i].evidence]
    BY <1>3 DEF IsLedger, CodingConcern
  <2> QED
    BY <2>1 DEF Agrees
<1>9. Agrees(projection', ledger') /\ IsLedger(projection')
  BY <1>3, <1>6, <1>7, <1>8, MirrorDeltaLemma, MirrorIsLedger
<1>10. MirrorAgrees'
  BY <1>9 DEF MirrorAgrees, Agrees
<1>11. /\ pc' = "propose" /\ events' = events + 1 /\ trail' = events' /\ observation' = Summary
       /\ UNCHANGED <<step, tree, action, checks, result, child, passed>>
  BY <1>1 DEF HandOver
<1>12. TypeOK'
  <2>1. NoAction \in CodingAction
    BY DEF NoAction, CodingAction, ActionTypes
  <2>2. NoResult \in [success: BOOLEAN, failed: SUBSET (CheckNames \union {GateCheck}),
                      files: SUBSET Files, diff: SUBSET Files]
    BY DEF NoResult
  <2>3. step = 0 /\ tree = Baseline /\ action = NoAction /\ checks = {} /\ result = NoResult
    BY <1>2 DEF ChildPhase
  <2> QED
    BY <1>3, <1>4, <1>6, <1>9, <1>11, <2>1, <2>2, <2>3, RunAssumption, WorkspaceAssumption
       DEF TypeOK, Finite
<1>13. IInv'
  BY <1>10, <1>11, <1>12, StillWorking DEF IInv, BudgetLeft
<1>14. ParentPhase'
  BY <1>1, <1>11, <1>13 DEF ParentPhase
<1> QED
  BY <1>6, <1>11, <1>14 DEF RInv

(* The loop does nothing before it starts and after it has ended.          *)
LEMMA RunningLemma ==
    ASSUME Next
    PROVE  pc \in Running \/ UNCHANGED vars
BY DEF Next, Running, Propose, ProposeMalformed, ProposalError, ExhaustBudget,
       ExecuteRead, ExecuteEdit, ExecuteCommand, ExecuteTests, ExecuteFinish,
       GateBlock, Accept, Refuse, VerifyAtBudget, FailClosed, ReturnAtBudget, Terminated

(* As long as the loop runs, ledger and log record the same observations.  *)
LEMMA TrailLemma ==
    ASSUME Next, events \in Nat, trail = events, pc' \in Running
    PROVE  trail' = events'
<1>1. ASSUME NEW o, Observe(o)
      PROVE  trail' = events'
  BY <1>1 DEF Observe
<1>2. ASSUME NEW success, NEW message, Executed(success, message)
      PROVE  trail' = events'
  BY <1>1, <1>2 DEF Executed
<1>3. CASE ProposalError \/ GateBlock
  BY <1>1, <1>3 DEF ProposalError, GateBlock
<1>4. CASE ExecuteFinish
  BY <1>1, <1>4 DEF ExecuteFinish
<1>5. CASE ExecuteRead \/ ExecuteEdit \/ ExecuteCommand \/ ExecuteTests
  BY <1>2, <1>5 DEF ExecuteRead, ExecuteEdit, ExecuteCommand, ExecuteTests
<1>6. CASE FailClosed \/ ReturnAtBudget \/ Accept
  BY <1>6 DEF FailClosed, ReturnAtBudget, Accept, Return, Running
<1> QED
  BY <1>3, <1>4, <1>5, <1>6
     DEF Next, vars, Propose, ProposeMalformed, ExhaustBudget, Refuse, VerifyAtBudget,
         Terminated

(* A step of the parent is a step of CodingRun, or no step at all.         *)
LEMMA ParentStepInv ==
    ASSUME RInv, ParentStep
    PROVE  RInv' /\ Extends(ledger, ledger')
<1>1. Next /\ child' = child /\ passed' = passed
  BY DEF ParentStep
<1>2. CASE UNCHANGED vars
  <2>1. RInv'
    BY <1>1, <1>2, StutterInv DEF RInv, ChildPhase, ChildEnd, ParentPhase, vars
  <2>2. Extends(ledger, ledger')
    BY <1>2 DEF vars, Extends
  <2> QED
    BY <2>1, <2>2
<1>3. CASE pc \in Running
  <2>1. ParentPhase
    BY <1>3 DEF RInv, ChildPhase, ChildEnd, Running
  <2>2. IInv' /\ Extends(ledger, ledger')
    BY <1>1, <2>1, NextInv, NextExtends DEF ParentPhase
  <2>3. pc' \in Running => trail' = events'
    BY <1>1, <1>3, <2>1, TrailLemma DEF ParentPhase, IInv, TypeOK
  <2>4. ParentPhase'
    BY <1>1, <2>1, <2>2, <2>3 DEF ParentPhase
  <2> QED
    BY <1>1, <2>2, <2>4 DEF RInv
<1> QED
  BY <1>1, <1>2, <1>3, RunningLemma

(* Every step preserves the invariant and takes nothing out of the ledger. *)
LEMMA RNextInv ==
    ASSUME RInv, [RNext]_rvars
    PROVE  RInv' /\ Extends(ledger, ledger')
<1>1. CASE UNCHANGED rvars
  <2>1. RInv'
    BY <1>1, StutterInv DEF RInv, ChildPhase, ChildEnd, ParentPhase, rvars, vars
  <2>2. Extends(ledger, ledger')
    BY <1>1 DEF rvars, vars, Extends
  <2> QED
    BY <2>1, <2>2
<1>2. CASE ChildFails \/ ChildRaises \/ ChildrenFail
  BY <1>2, ChildEndsInv DEF Extends
<1> QED
  BY <1>1, <1>2, ChildPassesInv, StartParentInv, ParentStepInv DEF RNext

LEMMA AlwaysRInv == RSpec => []RInv
<1>1. RInv /\ [RNext]_rvars => RInv'
  BY RNextInv
<1> QED
  BY <1>1, RInitInv, PTL DEF RSpec

-----------------------------------------------------------------------------

(* A recursive run succeeds only when every child's report validated and   *)
(* the parent's tree is verified, with every high concern answered that    *)
(* the task or a child raised.                                             *)
THEOREM ChildrenNeeded == RSpec => []SuccessNeedsChildren
<1>1. RInv => SuccessNeedsChildren
  BY DEF RInv, ChildPhase, ChildEnd, ParentPhase, IInv, CommitIsVerified, SuccessNeedsChildren
<1> QED
  BY <1>1, AlwaysRInv, PTL

(* The parent's log agrees with its ledger from the hand-over on, and has  *)
(* an observation for each of the ledger's, the children's included.       *)
THEOREM HandoverFaithful == RSpec => []HandoverMirrors
<1>1. RInv => HandoverMirrors
  BY DEF RInv, ChildPhase, ChildEnd, ParentPhase, Running, IInv, HandoverMirrors
<1> QED
  BY <1>1, AlwaysRInv, PTL

(* What a child reported is never lost, whatever the other children and    *)
(* the parent's agent write.                                               *)
THEOREM ReportsRemembered == RSpec => ReportsSurvive
<1> DEFINE Grows == \A i \in DOMAIN ledger :
                        i \in DOMAIN ledger' /\ ledger[i].evidence \subseteq ledger'[i].evidence
<1>1. RInv /\ [RNext]_rvars => [Grows]_vars
  <2> SUFFICES ASSUME RInv, [RNext]_rvars PROVE Grows
    OBVIOUS
  <2>1. Extends(ledger, ledger')
    BY RNextInv
  <2> QED
    BY <2>1 DEF Extends
<1> QED
  BY <1>1, AlwaysRInv, PTL DEF RSpec, ReportsSurvive, LedgerRemembers

-----------------------------------------------------------------------------

(* How many observations there are at each point: one for every validated  *)
(* child, the hand-over's, and one for every turn the parent has ended.    *)
Turns == passed + 1 + step

RCount ==
    /\ ~ContaminationGate
    /\ events \in Nat /\ step \in Nat /\ passed \in Nat
    /\ pc = "children" => events = passed /\ step = 0
    /\ pc \in {"propose", "execute", "exhausted", "fail_closed"} => events = Turns
    /\ pc = "gate" => events = Turns + 1
    /\ events >= passed /\ events <= Turns + 1
    /\ checks \subseteq CheckNames
    /\ result.failed \subseteq CheckNames \union {ChildCheck}

(* The parent runs without a gate, so nothing is blocked and nothing wiped. *)
LEMMA NoGate == ASSUME ~ContaminationGate PROVE ~GateBlock /\ ~FailClosed
BY DEF GateBlock, FailClosed, GateOn

LEMMA ChildrenCount ==
    ASSUME RCount, ChildPasses \/ ChildFails \/ ChildRaises \/ ChildrenFail \/ StartParent
    PROVE  RCount'
<1>1. pc = "children" /\ events \in Nat /\ passed \in Nat /\ step = 0 /\ events = passed
  BY DEF RCount, ChildPasses, ChildFails, ChildRaises, ChildrenFail, StartParent
<1>2. CASE ChildPasses
  BY <1>1, <1>2 DEF RCount, Turns, ChildPasses
<1>3. CASE ChildFails \/ ChildRaises \/ ChildrenFail
  <2>1. UNCHANGED <<events, passed, step, checks>>
    BY <1>3 DEF ChildFails, ChildRaises, ChildrenFail
  <2>2. pc' \in {"children", "returned", "raised"}
    BY <1>1, <1>3 DEF ChildFails, ChildRaises, ChildrenFail, Return
  <2>3. result'.failed \subseteq CheckNames \union {ChildCheck}
    BY <1>3 DEF RCount, ChildFails, ChildRaises, ChildrenFail, Return
  <2> QED
    BY <1>1, <2>1, <2>2, <2>3 DEF RCount, Turns
<1>4. CASE StartParent
  BY <1>1, <1>4 DEF RCount, Turns, StartParent, HandOver
<1> QED
  BY <1>2, <1>3, <1>4

(* A turn of the parent leaves one observation, in ledger and log.         *)
LEMMA ParentCount == ASSUME RCount, ParentStep PROVE RCount'
<1>1. /\ Next /\ passed' = passed /\ ~ContaminationGate
      /\ events \in Nat /\ step \in Nat /\ passed \in Nat
  BY DEF ParentStep, RCount
<1>2. ASSUME NEW success, NEW message, pc = "execute", Executed(success, message)
      PROVE  RCount'
  BY <1>1, <1>2 DEF RCount, Turns, Executed, Observe
<1>3. CASE ExecuteRead \/ ExecuteEdit \/ ExecuteCommand \/ ExecuteTests
  <2>1. pc = "execute" /\ \E success, message : Executed(success, message)
    BY <1>3 DEF ExecuteRead, ExecuteEdit, ExecuteCommand, ExecuteTests
  <2> QED
    BY <1>2, <2>1
<1>4. CASE ProposalError
  BY <1>1, <1>4 DEF RCount, Turns, ProposalError, Observe
<1>5. CASE ExecuteFinish
  <2>1. checks' \subseteq CheckNames
    BY <1>5 DEF ExecuteFinish, FailedChecks
  <2>2. /\ pc = "execute" /\ pc' = "gate" /\ events' = events + 1
        /\ UNCHANGED <<step, result>>
    BY <1>5 DEF ExecuteFinish, Observe
  <2> QED
    BY <1>1, <2>1, <2>2 DEF RCount, Turns
<1>6. CASE VerifyAtBudget
  <2>1. checks' \subseteq CheckNames
    BY <1>6 DEF RCount, VerifyAtBudget, FailedChecks
  <2>2. /\ pc = "exhausted" /\ pc' \in {"fail_closed", "raised"}
        /\ UNCHANGED <<events, step, result>>
    BY <1>6 DEF VerifyAtBudget
  <2> QED
    BY <1>1, <2>1, <2>2 DEF RCount, Turns
<1>7. CASE Accept \/ ReturnAtBudget
  <2>1. pc' = "returned" /\ result'.failed = checks /\ UNCHANGED <<events, checks>>
    BY <1>7 DEF Accept, ReturnAtBudget, Return
  <2>2. step' = step \/ step' = step + 1
    BY <1>7 DEF Accept, ReturnAtBudget
  <2> QED
    BY <1>1, <2>1, <2>2 DEF RCount, Turns
<1>8. CASE Propose \/ ProposeMalformed \/ ExhaustBudget \/ Refuse
  BY <1>1, <1>8 DEF RCount, Turns, Propose, ProposeMalformed, ExhaustBudget, Refuse
<1>9. CASE UNCHANGED vars
  BY <1>1, <1>9 DEF RCount, Turns, vars
<1> QED
  BY <1>1, <1>3, <1>4, <1>5, <1>6, <1>7, <1>8, <1>9, NoGate DEF Next, Terminated

LEMMA CountStep == RCount /\ [RNext]_rvars => RCount'
<1> SUFFICES ASSUME RCount, [RNext]_rvars PROVE RCount'
  OBVIOUS
<1>1. CASE UNCHANGED rvars
  BY <1>1 DEF RCount, Turns, rvars, vars
<1> QED
  BY <1>1, ChildrenCount, ParentCount DEF RNext

(* For any children and any budget of the parent: the counters stay in     *)
(* their bounds, ledger and projection stay ledgers, and there is an       *)
(* observation for every child that passed and every turn that ended.      *)
THEOREM RecursiveTypeCorrect == RSpec => []RTypeOK
<1>1. RInit => RCount
  BY DEF RInit, RCount, Turns, NoResult
<1>2. RInv /\ RCount => RTypeOK
  <2> SUFFICES ASSUME RInv, RCount PROVE RTypeOK
    OBVIOUS
  <2>1. events \in passed..(passed + step + 2)
    BY DEF RCount, Turns
  <2>2. ChildPhase \/ ChildEnd \/ ParentPhase
    BY DEF RInv
  <2>3. IsLedger(<< >>)
    BY DEF IsLedger
  <2>4. step \in 0..MaxSteps /\ IsLedger(ledger) /\ IsLedger(projection)
    BY <2>2, <2>3, RunAssumption DEF ChildPhase, ChildEnd, ParentPhase, IInv, TypeOK, Finite
  <2> QED
    BY <2>1, <2>2, <2>4 DEF RInv, RCount, RTypeOK, ChildPhase, ChildEnd, ParentPhase, IInv, TypeOK
<1> QED
  BY <1>1, <1>2, CountStep, AlwaysRInv, PTL DEF RSpec

(* For any children and reports the parent accounts for them.              *)
THEOREM ChildrenAccounted == RSpec => []ChildrenAreHeard
<1>1. RTypeOK /\ SuccessNeedsChildren /\ HandoverMirrors => ChildrenAreHeard
  BY DEF ChildrenAreHeard
<1> QED
  BY <1>1, RecursiveTypeCorrect, ChildrenNeeded, HandoverFaithful, PTL
-----------------------------------------------------------------------------
(***************************************************************************)
(* The event log.  CodingLog keeps the log beside its projection, under    *)
(* any changes of a ledger; what is shown is that folding the events of a  *)
(* log gives the projection MirrorDelta keeps, and so does folding those   *)
(* of the branch a tournament makes of it.                                 *)
(***************************************************************************)

(* The ledgers a log may come to, and the events it may have.              *)
AllLedgers == UNION {[D -> CodingConcern] : D \in SUBSET Ids}

LogEvent ==
    [type : {"declare_concern", "revise_concern"}, id : Ids, concern : CodingConcern]
        \union [type : {"set_status"}, id : Ids, status : Statuses, evidence : SUBSET Texts]
        \union [type : {"note"}, kind : {"record_action", "record_observation",
                                         "tournament_start", "fork_workspace"}]

(* What folding all events of l into P comes to.                           *)
After(P, l) == Folds(P, l)[Len(l)]

LEMMA AllLedgersLemma == ASSUME NEW P PROVE P \in AllLedgers <=> IsLedger(P)
<1>1. ASSUME P \in AllLedgers PROVE IsLedger(P)
  <2>1. PICK D \in SUBSET Ids : P \in [D -> CodingConcern]
    BY <1>1 DEF AllLedgers
  <2> QED
    BY <2>1 DEF IsLedger
<1>2. ASSUME IsLedger(P) PROVE P \in AllLedgers
  BY <1>2 DEF IsLedger, AllLedgers
<1> QED
  BY <1>1, <1>2

(* What one event does to a ledger.                                        *)
LEMMA ApplyEventLemma ==
    ASSUME NEW P \in AllLedgers, NEW e \in LogEvent
    PROVE  /\ ApplyEvent(P, e) \in AllLedgers
           /\ e.type = "note" => ApplyEvent(P, e) = P
           /\ e.type = "set_status" => DOMAIN ApplyEvent(P, e) = DOMAIN P
           /\ e.type \in {"declare_concern", "revise_concern"} =>
                e.id \in Ids /\ DOMAIN ApplyEvent(P, e) = DOMAIN P \union {e.id}
<1>1. DOMAIN P \subseteq Ids /\ \A i \in DOMAIN P : P[i] \in CodingConcern
  BY AllLedgersLemma DEF IsLedger
<1>2. CASE e.type = "note"
  BY <1>2 DEF ApplyEvent
<1>3. CASE e.type = "set_status"
  <2>1. e.status \in Statuses /\ e.evidence \in SUBSET Texts
    BY <1>3 DEF LogEvent
  <2>2. \A i \in DOMAIN P :
            [P[i] EXCEPT !.status = e.status, !.evidence = @ \union e.evidence] \in CodingConcern
    BY <1>1, <2>1 DEF CodingConcern
  <2>3. ApplyEvent(P, e) =
            [i \in DOMAIN P |->
                IF i # e.id THEN P[i]
                ELSE [P[i] EXCEPT !.status = e.status, !.evidence = @ \union e.evidence]]
    BY <1>3 DEF ApplyEvent
  <2>4. IsLedger(ApplyEvent(P, e)) /\ DOMAIN ApplyEvent(P, e) = DOMAIN P
    BY <1>1, <2>2, <2>3 DEF IsLedger
  <2> QED
    BY <1>3, <2>4, AllLedgersLemma
<1>4. CASE e.type \in {"declare_concern", "revise_concern"}
  <2>1. e.id \in Ids /\ e.concern \in CodingConcern
    BY <1>4 DEF LogEvent
  <2>2. \A i \in DOMAIN P : [e.concern EXCEPT !.evidence = @ \union P[i].evidence] \in CodingConcern
    BY <1>1, <2>1 DEF CodingConcern
  <2>3. ApplyEvent(P, e) =
            [i \in DOMAIN P \union {e.id} |->
                IF i # e.id THEN P[i]
                ELSE IF i \notin DOMAIN P THEN e.concern
                ELSE [e.concern EXCEPT !.evidence = @ \union P[i].evidence]]
    BY <1>4 DEF ApplyEvent
  <2>4. /\ IsLedger(ApplyEvent(P, e))
        /\ DOMAIN ApplyEvent(P, e) = DOMAIN P \union {e.id}
    BY <1>1, <2>1, <2>2, <2>3 DEF IsLedger
  <2> QED
    BY <1>4, <2>1, <2>4, AllLedgersLemma
<1>5. e.type \in {"declare_concern", "revise_concern", "set_status", "note"}
  BY DEF LogEvent
<1> QED
  BY <1>2, <1>3, <1>4, <1>5

(* The projections of a log follow its events.                             *)
LEMMA FoldsLemma ==
    ASSUME NEW P \in AllLedgers, NEW l \in Seq(LogEvent)
    PROVE  /\ Folds(P, l) \in [0..Len(l) -> AllLedgers] /\ Folds(P, l)[0] = P
           /\ \A n \in 1..Len(l) : Folds(P, l)[n] = ApplyEvent(Folds(P, l)[n - 1], l[n])
           /\ After(P, l) \in AllLedgers
<1> DEFINE N == Len(l)
           next == [x \in (1..N) \X AllLedgers |-> ApplyEvent(x[2], l[x[1]])]
           Is(f) == f = [n \in 0..N |-> IF n = 0 THEN P ELSE ApplyEvent(f[n - 1], l[n])]
           F == Folds(P, l)
<1>1. N \in Nat /\ \A n \in 1..N : l[n] \in LogEvent
  OBVIOUS
<1>2. next \in [(1..N) \X AllLedgers -> AllLedgers]
  BY <1>1, ApplyEventLemma
<1>3. PICK g : Computes(g, AllLedgers, P, next, N)
  <2> HIDE DEF next, N
  <2> QED
    BY <1>1, <1>2, Recursion
<1>4. g \in [0..N -> AllLedgers] /\ g[0] = P
  BY <1>3 DEF Computes
<1>5. \A n \in 1..N : g[n] = ApplyEvent(g[n - 1], l[n])
  <2> SUFFICES ASSUME NEW n \in 1..N PROVE g[n] = ApplyEvent(g[n - 1], l[n])
    OBVIOUS
  <2>1. <<n, g[n - 1]>> \in (1..N) \X AllLedgers
    BY <1>1, <1>4
  <2>2. next[<<n, g[n - 1]>>] = ApplyEvent(g[n - 1], l[n])
    BY <2>1
  <2>3. g[n] = next[<<n, g[n - 1]>>]
    BY <1>3 DEF Computes
  <2> QED
    BY <2>2, <2>3
<1>6. Is(g)
  <2> HIDE DEF N
  <2>1. \A n \in 0..N : n # 0 => n \in 1..N
    BY <1>1
  <2> QED
    BY <1>4, <1>5, <2>1
<1>7. F = CHOOSE f : Is(f)
  BY DEF Folds
<1> HIDE DEF F
<1>8. Is(F)
  <2> HIDE DEF Is
  <2> QED
    BY <1>6, <1>7
<1>9. F[0] = P /\ \A n \in 1..N : F[n] = ApplyEvent(F[n - 1], l[n])
  BY <1>1, <1>8
<1>10. \A n \in 0..N : n \in {k \in 0..N : F[k] \in AllLedgers}
  <2> DEFINE S == {k \in 0..N : F[k] \in AllLedgers}
  <2>1. 0 \in S
    BY <1>1, <1>9
  <2>2. ASSUME NEW n \in 1..N, n - 1 \in S PROVE n \in S
    <3>1. F[n - 1] \in AllLedgers /\ l[n] \in LogEvent
      BY <1>1, <2>2
    <3>2. F[n] \in AllLedgers
      BY <1>9, <3>1, ApplyEventLemma
    <3> QED
      BY <3>2
  <2> HIDE DEF S, N
  <2> QED
    BY <1>1, <2>1, <2>2, InductUpTo DEF S
<1>11. DOMAIN F = 0..N /\ F = [n \in 0..N |-> F[n]]
  BY <1>8
<1>12. F \in [0..N -> AllLedgers] /\ F[N] \in AllLedgers
  BY <1>1, <1>10, <1>11
<1> QED
  BY <1>9, <1>12 DEF F, After

(* Folding one log after another folds the two in a row.                   *)
LEMMA AfterConcat ==
    ASSUME NEW P \in AllLedgers, NEW s \in Seq(LogEvent), NEW t \in Seq(LogEvent)
    PROVE  /\ s \o t \in Seq(LogEvent)
           /\ \A n \in 0..Len(s) : Folds(P, s \o t)[n] = Folds(P, s)[n]
           /\ \A n \in 0..Len(t) :
                Folds(P, s \o t)[Len(s) + n] = Folds(After(P, s), t)[n]
           /\ After(P, s \o t) = After(After(P, s), t)
<1> DEFINE l == s \o t
           Q == After(P, s)
           A == Folds(P, s)
           B == Folds(Q, t)
           C == Folds(P, l)
           M == Len(s)
           N == Len(t)
<1>1. /\ l \in Seq(LogEvent) /\ Len(l) = M + N /\ M \in Nat /\ N \in Nat
      /\ \A n \in 1..M : l[n] = s[n]
      /\ \A n \in 1..N : l[M + n] = t[n]
  OBVIOUS
<1>2. /\ A[0] = P /\ \A n \in 1..M : A[n] = ApplyEvent(A[n - 1], s[n])
      /\ Q \in AllLedgers /\ A[M] = Q
  BY FoldsLemma DEF After
<1>3. B[0] = Q /\ \A n \in 1..N : B[n] = ApplyEvent(B[n - 1], t[n])
  BY <1>2, FoldsLemma
<1> HIDE DEF l
<1>4. C[0] = P /\ \A n \in 1..(M + N) : C[n] = ApplyEvent(C[n - 1], l[n])
  BY <1>1, FoldsLemma, SMTT(30)
<1> HIDE DEF A, B, C, Q, M, N
<1>5. \A n \in 0..M : C[n] = A[n]
  <2> DEFINE S == {n \in 0..M : C[n] = A[n]}
  <2>1. 0 \in S
    BY <1>1, <1>2, <1>4
  <2>2. ASSUME NEW n \in 1..M, n - 1 \in S PROVE n \in S
    <3>1. n \in 1..(M + N) /\ C[n - 1] = A[n - 1]
      BY <1>1, <2>2
    <3> QED
      BY <1>1, <1>2, <1>4, <3>1
  <2>3. \A n \in 0..M : n \in S
    <3> HIDE DEF S
    <3> QED
      BY <1>1, <2>1, <2>2, InductUpTo
  <2> QED
    BY <2>3
<1>6. \A n \in 0..N : C[M + n] = B[n]
  <2> DEFINE S == {n \in 0..N : C[M + n] = B[n]}
  <2>1. 0 \in S
    <3>1. M \in 0..M /\ M + 0 = M
      BY <1>1
    <3> QED
      BY <1>1, <1>2, <1>3, <1>5, <3>1
  <2>2. ASSUME NEW n \in 1..N, n - 1 \in S PROVE n \in S
    <3>1. M + n \in 1..(M + N) /\ C[M + (n - 1)] = B[n - 1] /\ M + (n - 1) = (M + n) - 1
      BY <1>1, <2>2
    <3>2. C[M + n] = ApplyEvent(C[(M + n) - 1], l[M + n])
      BY <1>4, <3>1
    <3> QED
      BY <1>1, <1>3, <3>1, <3>2
  <2>3. \A n \in 0..N : n \in S
    <3> HIDE DEF S
    <3> QED
      BY <1>1, <2>1, <2>2, InductUpTo
  <2> QED
    BY <2>3
<1>7. C[M + N] = B[N]
  BY <1>1, <1>6
<1> QED
  BY <1>1, <1>5, <1>6, <1>7 DEF After, A, B, C, Q, M, N, l

(* A log without events, of one event, and with one more.                  *)
LEMMA AfterOne ==
    ASSUME NEW P \in AllLedgers
    PROVE  /\ After(P, << >>) = P
           /\ \A e \in LogEvent : After(P, <<e>>) = ApplyEvent(P, e)
<1>1. After(P, << >>) = P
  <2>1. << >> \in Seq(LogEvent) /\ Len(<< >>) = 0
    OBVIOUS
  <2> QED
    BY <2>1, FoldsLemma DEF After
<1>2. ASSUME NEW e \in LogEvent PROVE After(P, <<e>>) = ApplyEvent(P, e)
  <2> DEFINE l == <<e>>
  <2>1. l \in Seq(LogEvent) /\ Len(l) = 1 /\ l[1] = e
    OBVIOUS
  <2> HIDE DEF l
  <2>2. Folds(P, l)[0] = P /\ \A n \in 1..1 : Folds(P, l)[n] = ApplyEvent(Folds(P, l)[n - 1], l[n])
    BY <2>1, FoldsLemma
  <2>3. 1 \in 1..1 /\ 1 - 1 = 0
    OBVIOUS
  <2>4. Folds(P, l)[1] = ApplyEvent(P, e)
    BY <2>1, <2>2, <2>3
  <2> QED
    BY <2>1, <2>4 DEF After, l
<1> QED
  BY <1>1, <1>2

LEMMA AfterAppend ==
    ASSUME NEW P \in AllLedgers, NEW s \in Seq(LogEvent), NEW e \in LogEvent
    PROVE  /\ Append(s, e) = s \o <<e>> /\ Append(s, e) \in Seq(LogEvent)
           /\ After(P, Append(s, e)) = ApplyEvent(After(P, s), e)
<1> DEFINE l == <<e>>
<1>1. l \in Seq(LogEvent) /\ Append(s, e) = s \o l /\ Append(s, e) \in Seq(LogEvent)
  OBVIOUS
<1>2. After(P, s) \in AllLedgers
  BY FoldsLemma
<1>3. After(After(P, s), l) = ApplyEvent(After(P, s), e)
  BY <1>2, AfterOne
<1> HIDE DEF l
<1>4. After(P, s \o l) = After(After(P, s), l)
  BY <1>1, AfterConcat
<1> QED
  BY <1>1, <1>3, <1>4 DEF l

(* A log that declares what is new and revises what is not.                *)
FreshFrom(P, l) ==
    \A n \in 1..Len(l) :
        /\ l[n].type = "declare_concern" => l[n].id \notin DOMAIN Folds(P, l)[n - 1]
        /\ l[n].type = "revise_concern" => l[n].id \in DOMAIN Folds(P, l)[n - 1]

LEMMA FreshConcat ==
    ASSUME NEW P \in AllLedgers, NEW s \in Seq(LogEvent), NEW t \in Seq(LogEvent),
           FreshFrom(P, s), FreshFrom(After(P, s), t)
    PROVE  FreshFrom(P, s \o t)
<1> DEFINE l == s \o t
           M == Len(s)
           N == Len(t)
<1>1. /\ Len(l) = M + N /\ M \in Nat /\ N \in Nat
      /\ \A n \in 1..M : l[n] = s[n]
      /\ \A n \in 1..N : l[M + n] = t[n]
  OBVIOUS
<1>2. /\ \A n \in 0..M : Folds(P, l)[n] = Folds(P, s)[n]
      /\ \A n \in 0..N : Folds(P, l)[M + n] = Folds(After(P, s), t)[n]
  BY AfterConcat
<1> SUFFICES ASSUME NEW n \in 1..Len(l)
             PROVE  /\ l[n].type = "declare_concern" => l[n].id \notin DOMAIN Folds(P, l)[n - 1]
                    /\ l[n].type = "revise_concern" => l[n].id \in DOMAIN Folds(P, l)[n - 1]
  BY DEF FreshFrom
<1> HIDE DEF l
<1>3. CASE n \in 1..M
  <2>1. n - 1 \in 0..M
    BY <1>1, <1>3
  <2>2. l[n] = s[n] /\ Folds(P, l)[n - 1] = Folds(P, s)[n - 1]
    BY <1>1, <1>2, <1>3, <2>1
  <2> QED
    BY <1>3, <2>2 DEF FreshFrom
<1>4. CASE n \notin 1..M
  <2> DEFINE k == n - M
  <2>1. k \in 1..N /\ k - 1 \in 0..N /\ n = M + k /\ n - 1 = M + (k - 1)
    BY <1>1, <1>4
  <2>2. l[n] = t[k] /\ Folds(P, l)[n - 1] = Folds(After(P, s), t)[k - 1]
    BY <1>1, <1>2, <2>1
  <2> QED
    BY <2>1, <2>2 DEF FreshFrom
<1> QED
  BY <1>3, <1>4

LEMMA FreshOne ==
    ASSUME NEW P \in AllLedgers, NEW e \in LogEvent,
           e.type = "declare_concern" => e.id \notin DOMAIN P,
           e.type = "revise_concern" => e.id \in DOMAIN P
    PROVE  FreshFrom(P, << >>) /\ FreshFrom(P, <<e>>)
<1>1. FreshFrom(P, << >>)
  BY DEF FreshFrom
<1>2. <<e>> \in Seq(LogEvent) /\ Len(<<e>>) = 1 /\ <<e>>[1] = e
  OBVIOUS
<1>3. Folds(P, <<e>>)[0] = P
  BY <1>2, FoldsLemma
<1>4. \A n \in 1..1 : n = 1 /\ n - 1 = 0
  OBVIOUS
<1> HIDE DEF FreshFrom
<1>5. FreshFrom(P, <<e>>)
  BY <1>2, <1>3, <1>4 DEF FreshFrom
<1> QED
  BY <1>1, <1>5

(* The events of a change for one concern do to it what the projection     *)
(* kept step by step has done, and nothing to the others.                  *)
Mirrored(P, before, after, latest, i) ==
    IF i \notin DOMAIN before THEN after[i]
    ELSE MirrorConcern(P[i], before[i], after[i], latest)

Tells(P, d, before, after, latest, i) ==
    /\ d \in Seq(LogEvent) /\ FreshFrom(P, d)
    /\ After(P, d) = [j \in DOMAIN P \union {i} |->
                        IF j = i THEN Mirrored(P, before, after, latest, i) ELSE P[j]]

LEMMA DeltaEventsLemma ==
    ASSUME NEW P \in AllLedgers, NEW before \in AllLedgers, NEW after \in AllLedgers,
           NEW latest, NEW i \in DOMAIN after, i \in DOMAIN before <=> i \in DOMAIN P
    PROVE  Tells(P, DeltaEvents(i, before, after, latest), before, after, latest, i)
<1> DEFINE d == DeltaEvents(i, before, after, latest)
           R == [j \in DOMAIN P \union {i} |->
                    IF j = i THEN Mirrored(P, before, after, latest, i) ELSE P[j]]
<1>1. /\ i \in Ids /\ after[i] \in CodingConcern
      /\ IsLedger(P) /\ P = [j \in DOMAIN P |-> P[j]]
      /\ \A j \in DOMAIN P : P[j] \in CodingConcern
      /\ \A j \in DOMAIN before : before[j] \in CodingConcern
  BY AllLedgersLemma DEF IsLedger
<1>2. << >> \in Seq(LogEvent)
  OBVIOUS
<1>3. CASE i \notin DOMAIN before
  <2> DEFINE e == Declare(i, after[i])
  <2>1. e \in LogEvent /\ e.type = "declare_concern" /\ e.id = i /\ e.concern = after[i]
    BY <1>1 DEF Declare, LogEvent
  <2>2. d = <<e>>
    BY <1>3 DEF DeltaEvents
  <2> HIDE DEF e
  <2>3. d \in Seq(LogEvent)
    BY <2>1, <2>2
  <2>4. FreshFrom(P, d)
    BY <1>3, <2>1, <2>2, FreshOne
  <2>5. ApplyEvent(P, e) = R
    BY <1>3, <2>1 DEF ApplyEvent, Mirrored
  <2>6. After(P, d) = R
    BY <2>1, <2>2, <2>5, AfterOne
  <2> QED
    BY <2>3, <2>4, <2>6 DEF Tells
<1>4. CASE i \in DOMAIN before
  <2> DEFINE b == before[i]
             c == after[i]
             p == P[i]
             changed == b.status # c.status
             item == LastNew(c.evidence \ b.evidence, latest)
             e1 == SetStatus(i, c.status, item)
             e2 == Revise(i, c)
             d1 == IF changed THEN <<e1>> ELSE << >>
             d2 == IF NeedsRevise(b, c) THEN <<e2>> ELSE << >>
             marked == IF changed THEN [p EXCEPT !.status = c.status, !.evidence = @ \union item]
                       ELSE p
             Q == [j \in DOMAIN P |-> IF j = i THEN marked ELSE P[j]]
  <2>1. i \in DOMAIN P /\ p \in CodingConcern /\ b \in CodingConcern /\ c \in CodingConcern
    BY <1>1, <1>4
  <2>2. d = d1 \o d2
    BY <1>4 DEF DeltaEvents
  <2>3. item \subseteq c.evidence
    BY DEF LastNew
  <2>4. /\ e1 \in LogEvent /\ e1.type = "set_status" /\ e1.id = i
        /\ e1.status = c.status /\ e1.evidence = item
    <3>1. c.status \in Statuses /\ item \in SUBSET Texts
      BY <2>1, <2>3 DEF CodingConcern
    <3> HIDE DEF item, c
    <3> QED
      BY <1>1, <3>1 DEF SetStatus, LogEvent
  <2>5. e2 \in LogEvent /\ e2.type = "revise_concern" /\ e2.id = i /\ e2.concern = c
    <3> HIDE DEF c
    <3> QED
      BY <1>1, <2>1 DEF Revise, LogEvent
  <2>6. Mirrored(P, before, after, latest, i) =
            IF NeedsRevise(b, c) THEN [c EXCEPT !.evidence = @ \union marked.evidence]
            ELSE marked
    <3>1. CASE changed
      BY <1>4, <3>1 DEF Mirrored, MirrorConcern
    <3>2. CASE ~changed
      <4>1. [p EXCEPT !.status = p.status, !.evidence = @ \union {}] = p
        <5> HIDE DEF p
        <5> QED
          BY <2>1 DEF CodingConcern
      <4> QED
        BY <1>4, <3>2, <4>1 DEF Mirrored, MirrorConcern
    <3> QED
      BY <3>1, <3>2
  <2> HIDE DEF e1, e2, item, b, c, p, d
  <2>7. d1 \in Seq(LogEvent) /\ d2 \in Seq(LogEvent)
    BY <2>4, <2>5
  <2>8. FreshFrom(P, d1) /\ After(P, d1) = Q
    <3>1. CASE changed
      <4>1. FreshFrom(P, <<e1>>)
        BY <2>4, FreshOne
      <4>2. After(P, <<e1>>) = ApplyEvent(P, e1)
        BY <2>4, AfterOne
      <4>3. ApplyEvent(P, e1) = Q
        BY <2>4, <3>1 DEF ApplyEvent, p
      <4> QED
        BY <3>1, <4>1, <4>2, <4>3
    <3>2. CASE ~changed
      <4>1. FreshFrom(P, << >>)
        BY DEF FreshFrom
      <4>2. After(P, << >>) = P
        BY <2>4, AfterOne
      <4>3. Q = P
        BY <1>1, <3>2 DEF p
      <4> HIDE DEF Q
      <4> QED
        BY <3>2, <4>1, <4>2, <4>3
    <3> QED
      BY <3>1, <3>2
  <2>9. Q \in AllLedgers /\ DOMAIN Q = DOMAIN P /\ Q[i] = marked
    <3>1. Q \in AllLedgers
      <4> HIDE DEF Q, d1
      <4> QED
        BY <2>7, <2>8, FoldsLemma
    <3> QED
      BY <2>1, <3>1
  <2>10. FreshFrom(Q, d2) /\ After(Q, d2) = R
    <3>1. CASE NeedsRevise(b, c)
      <4>1. FreshFrom(Q, <<e2>>)
        <5> HIDE DEF Q
        <5> QED
          BY <2>1, <2>5, <2>9, FreshOne
      <4>2. After(Q, <<e2>>) = ApplyEvent(Q, e2)
        <5> HIDE DEF Q
        <5> QED
          BY <2>5, <2>9, AfterOne
      <4>3. ApplyEvent(Q, e2) = R
        <5>1. ApplyEvent(Q, e2) =
                [j \in DOMAIN Q \union {i} |->
                    IF j # i THEN Q[j]
                    ELSE [c EXCEPT !.evidence = @ \union Q[i].evidence]]
          <6> HIDE DEF Q
          <6> QED
            BY <2>1, <2>5, <2>9 DEF ApplyEvent
        <5>2. \A j \in DOMAIN P : j # i => Q[j] = P[j]
          OBVIOUS
        <5> HIDE DEF Q
        <5> QED
          BY <2>6, <2>9, <3>1, <5>1, <5>2
      <4> QED
        BY <3>1, <4>1, <4>2, <4>3
    <3>2. CASE ~NeedsRevise(b, c)
      <4>1. FreshFrom(Q, << >>)
        BY DEF FreshFrom
      <4>2. After(Q, << >>) = Q
        <5> HIDE DEF Q
        <5> QED
          BY <2>5, <2>9, AfterOne
      <4>3. R = Q
        BY <2>1, <2>6, <3>2
      <4> HIDE DEF Q, R
      <4> QED
        BY <3>2, <4>1, <4>2, <4>3
    <3> QED
      BY <3>1, <3>2
  <2> HIDE DEF Q, R, d1, d2
  <2>11. FreshFrom(P, d) /\ After(P, d) = R /\ d \in Seq(LogEvent)
    BY <2>2, <2>7, <2>8, <2>10, AfterConcat, FreshConcat
  <2> QED
    BY <2>11 DEF d, R, Tells
<1> QED
  BY <1>3, <1>4

(* The events of a change, one concern after the other.                    *)
Chained(before, after, latest, ids, D, N) ==
    /\ D[0] = << >>
    /\ \A n \in 1..N : D[n] = D[n - 1] \o DeltaEvents(ids[n], before, after, latest)

LEMMA DeltasLemma ==
    ASSUME NEW before \in AllLedgers, NEW after \in AllLedgers, NEW latest,
           NEW N \in Nat, NEW ids \in [1..N -> DOMAIN after]
    PROVE  Chained(before, after, latest, ids, Deltas(before, after, latest, ids), N)
<1> DEFINE V == Seq(LogEvent)
           next == [x \in (1..N) \X V |-> x[2] \o DeltaEvents(ids[x[1]], before, after, latest)]
           Is(f) == f = [n \in 0..N |-> IF n = 0 THEN << >>
                                        ELSE f[n - 1] \o DeltaEvents(ids[n], before, after, latest)]
           D == Deltas(before, after, latest, ids)
<1>1. Len(ids) = N
  OBVIOUS
<1>2. \A n \in 1..N : DeltaEvents(ids[n], before, after, latest) \in V
  <2> TAKE n \in 1..N
  <2>1. ids[n] \in DOMAIN after /\ before \in AllLedgers
    OBVIOUS
  <2> QED
    BY <2>1, DeltaEventsLemma DEF Tells
<1>3. next \in [(1..N) \X V -> V] /\ << >> \in V
  BY <1>2
<1>4. PICK g : Computes(g, V, << >>, next, N)
  <2> HIDE DEF next, V
  <2> QED
    BY <1>3, Recursion
<1>5. g \in [0..N -> V] /\ g[0] = << >>
  BY <1>4 DEF Computes
<1>6. \A n \in 1..N : g[n] = g[n - 1] \o DeltaEvents(ids[n], before, after, latest)
  <2> SUFFICES ASSUME NEW n \in 1..N
               PROVE  g[n] = g[n - 1] \o DeltaEvents(ids[n], before, after, latest)
    OBVIOUS
  <2> HIDE DEF V
  <2>1. <<n, g[n - 1]>> \in (1..N) \X V
    BY <1>5
  <2>2. next[<<n, g[n - 1]>>] = g[n - 1] \o DeltaEvents(ids[n], before, after, latest)
    BY <2>1
  <2>3. g[n] = next[<<n, g[n - 1]>>]
    BY <1>4 DEF Computes
  <2> QED
    BY <2>2, <2>3
<1>7. Is(g)
  <2> HIDE DEF V
  <2>1. \A n \in 0..N : n # 0 => n \in 1..N
    OBVIOUS
  <2> QED
    BY <1>5, <1>6, <2>1
<1>8. D = CHOOSE f : Is(f)
  BY <1>1 DEF Deltas
<1> HIDE DEF D
<1>9. Is(D)
  <2> HIDE DEF Is
  <2> QED
    BY <1>7, <1>8
<1>10. D[0] = << >> /\ \A n \in 1..N : D[n] = D[n - 1] \o DeltaEvents(ids[n], before, after, latest)
  <2> DEFINE E(x, n) == x \o DeltaEvents(ids[n], before, after, latest)
  <2>1. D = [n \in 0..N |-> IF n = 0 THEN << >> ELSE E(D[n - 1], n)]
    BY <1>9
  <2> HIDE DEF E
  <2>2. D[0] = << >> /\ \A n \in 1..N : D[n] = E(D[n - 1], n)
    BY <2>1
  <2> QED
    BY <2>2 DEF E
<1> QED
  BY <1>10 DEF D, Chained

(* Folding the events of a change is what MirrorDelta does in one step.    *)
LEMMA DeltaLogLemma ==
    ASSUME NEW P \in AllLedgers, NEW before \in AllLedgers, NEW after \in AllLedgers,
           NEW latest, DOMAIN P = DOMAIN before, IsFiniteSet(DOMAIN after)
    PROVE  LET d == DeltaLog(before, after, latest)
           IN /\ d \in Seq(LogEvent) /\ FreshFrom(P, d)
              /\ After(P, d) = MirrorDelta(P, before, after, latest)
<1> DEFINE ids == SetToSeq(DOMAIN after)
           N == Cardinality(DOMAIN after)
           D == Deltas(before, after, latest, ids)
           X(i) == Mirrored(P, before, after, latest, i)
           Upto(n) == {ids[k] : k \in 1..n}
           Mixed(n) == [j \in DOMAIN P \union Upto(n) |-> IF j \in Upto(n) THEN X(j) ELSE P[j]]
           S == {n \in 0..N : D[n] \in Seq(LogEvent) /\ FreshFrom(P, D[n])
                                /\ After(P, D[n]) = Mixed(n)}
<1>1. /\ N \in Nat /\ ids \in [1..N -> DOMAIN after]
      /\ \A x \in DOMAIN after : \E i \in 1..N : ids[i] = x
      /\ \A i, j \in 1..N : ids[i] = ids[j] => i = j
  BY SetToSeqLemma
<1> HIDE DEF ids, N
<1>2. /\ Len(ids) = N /\ D[0] = << >>
      /\ \A n \in 1..N : D[n] = D[n - 1] \o DeltaEvents(ids[n], before, after, latest)
  <2>1. Len(ids) = N
    BY <1>1
  <2>2. Chained(before, after, latest, ids, D, N)
    BY <1>1, DeltasLemma
  <2> HIDE DEF D
  <2> QED
    BY <2>1, <2>2 DEF Chained
<1>3. DeltaLog(before, after, latest) = D[N]
  BY <1>2 DEF DeltaLog, ids
<1> HIDE DEF D, X
<1>4. P = [j \in DOMAIN P |-> P[j]]
  BY AllLedgersLemma DEF IsLedger
<1>5. 0 \in S
  <2>1. Upto(0) = {}
    OBVIOUS
  <2>2. Mixed(0) = P
    <3> HIDE DEF Upto
    <3> QED
      BY <1>4, <2>1
  <2>3. << >> \in Seq(LogEvent) /\ FreshFrom(P, << >>)
    BY DEF FreshFrom
  <2>4. After(P, << >>) = P
    BY <2>3, FoldsLemma DEF After
  <2> HIDE DEF Mixed
  <2>5. D[0] \in Seq(LogEvent) /\ FreshFrom(P, D[0]) /\ After(P, D[0]) = Mixed(0)
    BY <1>2, <2>2, <2>3, <2>4
  <2>6. 0 \in 0..N
    BY <1>1
  <2> QED
    BY <2>5, <2>6
<1>6. ASSUME NEW n \in 1..N, n - 1 \in S PROVE n \in S
  <2> DEFINE i == ids[n]
             Q == Mixed(n - 1)
             d == DeltaEvents(i, before, after, latest)
             U == Upto(n - 1)
  <2>1. /\ D[n - 1] \in Seq(LogEvent) /\ FreshFrom(P, D[n - 1]) /\ After(P, D[n - 1]) = Q
        /\ D[n] = D[n - 1] \o d /\ i \in DOMAIN after
    <3> HIDE DEF Mixed, d
    <3>1. D[n - 1] \in Seq(LogEvent) /\ FreshFrom(P, D[n - 1]) /\ After(P, D[n - 1]) = Q
      BY <1>6
    <3>2. D[n] = D[n - 1] \o d /\ i \in DOMAIN after
      BY <1>1, <1>2 DEF d
    <3> QED
      BY <3>1, <3>2
  <2>2. Upto(n) = U \union {i} /\ i \notin U
    <3>1. 1..n = 1..(n - 1) \union {n}
      BY <1>1
    <3>2. Upto(n) = U \union {i}
      BY <3>1
    <3>3. ASSUME i \in U PROVE FALSE
      <4>1. PICK k \in 1..(n - 1) : ids[k] = ids[n]
        BY <3>3
      <4>2. k \in 1..N /\ k # n
        BY <1>1, <4>1
      <4> QED
        BY <1>1, <4>1, <4>2
    <3> QED
      BY <3>2, <3>3
  <2> HIDE DEF i, Upto, U
  <2>3. /\ Q = [j \in DOMAIN P \union U |-> IF j \in U THEN X(j) ELSE P[j]]
        /\ Mixed(n) = [j \in DOMAIN P \union (U \union {i}) |->
                            IF j \in U \union {i} THEN X(j) ELSE P[j]]
    BY <2>2 DEF U
  <2> HIDE DEF Mixed, d
  <2>4. Q \in AllLedgers
    BY <2>1, FoldsLemma
  <2>5. DOMAIN Q = DOMAIN P \union U /\ \A j \in DOMAIN P : j \notin U => Q[j] = P[j]
    BY <2>3
  <2>6. i \in DOMAIN before <=> i \in DOMAIN Q
    BY <2>2, <2>5
  <2>7. Mirrored(Q, before, after, latest, i) = X(i)
    <3>1. CASE i \notin DOMAIN before
      BY <3>1 DEF Mirrored, X
    <3>2. CASE i \in DOMAIN before
      <4>1. Q[i] = P[i]
        BY <2>2, <2>5, <3>2
      <4> QED
        BY <4>1 DEF Mirrored, X
    <3> QED
      BY <3>1, <3>2
  <2>8. /\ d \in Seq(LogEvent) /\ FreshFrom(Q, d)
        /\ After(Q, d) = [j \in DOMAIN Q \union {i} |-> IF j = i THEN X(i) ELSE Q[j]]
    <3>1. Tells(Q, DeltaEvents(i, before, after, latest), before, after, latest, i)
      <4> HIDE DEF Q
      <4> QED
        BY <2>1, <2>4, <2>6, DeltaEventsLemma
    <3> QED
      BY <2>7, <3>1 DEF d, Tells
  <2>9. After(Q, d) = Mixed(n)
    BY <2>2, <2>3, <2>5, <2>8
  <2>10. D[n] \in Seq(LogEvent) /\ FreshFrom(P, D[n]) /\ After(P, D[n]) = Mixed(n)
    BY <2>1, <2>8, <2>9, AfterConcat, FreshConcat
  <2> QED
    BY <1>1, <2>10
<1>7. N \in S
  <2> HIDE DEF S
  <2>1. \A n \in 0..N : n \in S
    BY <1>1, <1>5, <1>6, InductUpTo
  <2> QED
    BY <1>1, <2>1
<1>8. Upto(N) = DOMAIN after
  <2>1. \A x \in DOMAIN after : x \in Upto(N)
    BY <1>1
  <2>2. \A k \in 1..N : ids[k] \in DOMAIN after
    BY <1>1
  <2> QED
    BY <2>1, <2>2
<1>9. Mixed(N) = MirrorDelta(P, before, after, latest)
  <2>1. Mixed(N) = [j \in DOMAIN P \union DOMAIN after |->
                        IF j \in DOMAIN after THEN X(j) ELSE P[j]]
    <3> HIDE DEF Upto
    <3> QED
      BY <1>8
  <2>2. \A j \in DOMAIN P \union DOMAIN after :
            (IF j \in DOMAIN after THEN X(j) ELSE P[j]) =
                (IF j \notin DOMAIN after THEN P[j]
                 ELSE IF j \notin DOMAIN P THEN after[j]
                 ELSE IF j \notin DOMAIN before
                      THEN [after[j] EXCEPT !.evidence = @ \union P[j].evidence]
                 ELSE MirrorConcern(P[j], before[j], after[j], latest))
    BY DEF Mirrored, X
  <2> HIDE DEF Mixed, Upto
  <2> QED
    BY <2>1, <2>2 DEF MirrorDelta
<1> HIDE DEF Mixed
<1> QED
  BY <1>3, <1>7, <1>9

(* The declarations of a ledger come to that ledger.                       *)
LEMMA EventsFromLedgerLemma ==
    ASSUME NEW L \in AllLedgers, IsFiniteSet(DOMAIN L)
    PROVE  LET l == EventsFromLedger(L)
           IN /\ l \in Seq(LogEvent) /\ FreshFrom(<< >>, l) /\ After(<< >>, l) = L
              /\ \A n \in 1..Len(l) : l[n].type = "declare_concern" /\ l[n].id \in DOMAIN L
              /\ \A i \in DOMAIN L : \E n \in 1..Len(l) : l[n].id = i
<1> DEFINE ids == SetToSeq(DOMAIN L)
           N == Cardinality(DOMAIN L)
           l == EventsFromLedger(L)
           F(n) == Folds(<< >>, l)[n]
           Upto(n) == {ids[k] : k \in 1..n}
           S == {n \in 0..N : F(n) = [i \in Upto(n) |-> L[i]]}
<1>1. /\ N \in Nat /\ ids \in [1..N -> DOMAIN L]
      /\ \A x \in DOMAIN L : \E i \in 1..N : ids[i] = x
      /\ \A i, j \in 1..N : ids[i] = ids[j] => i = j
  BY SetToSeqLemma
<1>2. l = [n \in 1..N |-> Declare(ids[n], L[ids[n]])]
  BY <1>1 DEF EventsFromLedger
<1> HIDE DEF ids, N, l
<1>3. \A n \in 1..N : /\ l[n] \in LogEvent /\ l[n].type = "declare_concern"
                      /\ l[n].id = ids[n] /\ l[n].concern = L[ids[n]]
  <2> TAKE n \in 1..N
  <2>1. ids[n] \in Ids /\ L[ids[n]] \in CodingConcern
    BY <1>1, AllLedgersLemma DEF IsLedger
  <2>2. l[n] = [type |-> "declare_concern", id |-> ids[n], concern |-> L[ids[n]]]
    BY <1>2 DEF Declare
  <2> QED
    BY <2>1, <2>2 DEF LogEvent
<1>4. l \in Seq(LogEvent) /\ Len(l) = N
  BY <1>1, <1>2, <1>3
<1>5. << >> \in AllLedgers
  <2>1. << >> \in [{} -> CodingConcern]
    OBVIOUS
  <2> QED
    BY <2>1 DEF AllLedgers
<1>6. F(0) = << >> /\ \A n \in 1..N : F(n) = ApplyEvent(F(n - 1), l[n])
  BY <1>4, <1>5, FoldsLemma
<1> HIDE DEF F
<1>7. 0 \in S
  <2>1. Upto(0) = {}
    OBVIOUS
  <2>2. [i \in Upto(0) |-> L[i]] = << >>
    <3> HIDE DEF Upto
    <3> QED
      BY <2>1
  <2> HIDE DEF Upto
  <2>3. F(0) = [i \in Upto(0) |-> L[i]]
    BY <1>6, <2>2
  <2>4. 0 \in 0..N
    BY <1>1
  <2> QED
    BY <2>3, <2>4
<1>8. \A n \in 1..N : Upto(n) = Upto(n - 1) \union {ids[n]} /\ ids[n] \notin Upto(n - 1)
  <2> TAKE n \in 1..N
  <2>1. 1..n = 1..(n - 1) \union {n}
    BY <1>1
  <2>2. Upto(n) = Upto(n - 1) \union {ids[n]}
    BY <2>1
  <2>3. ASSUME ids[n] \in Upto(n - 1) PROVE FALSE
    <3>1. PICK k \in 1..(n - 1) : ids[k] = ids[n]
      BY <2>3
    <3>2. k \in 1..N /\ k # n
      BY <1>1, <3>1
    <3> QED
      BY <1>1, <3>1, <3>2
  <2> QED
    BY <2>2, <2>3
<1> HIDE DEF Upto
<1>9. ASSUME NEW n \in 1..N, n - 1 \in S PROVE n \in S
  <2>1. F(n - 1) = [i \in Upto(n - 1) |-> L[i]] /\ F(n) = ApplyEvent(F(n - 1), l[n])
    BY <1>6, <1>9
  <2>2. l[n].type = "declare_concern" /\ l[n].id = ids[n] /\ l[n].concern = L[ids[n]]
    BY <1>3
  <2>3. ids[n] \notin Upto(n - 1) /\ Upto(n) = Upto(n - 1) \union {ids[n]}
    BY <1>8
  <2>4. F(n) = [i \in Upto(n - 1) \union {ids[n]} |-> L[i]]
    BY <2>1, <2>2, <2>3 DEF ApplyEvent
  <2> QED
    BY <1>1, <2>3, <2>4
<1>10. \A n \in 0..N : n \in S
  <2> HIDE DEF S
  <2> QED
    BY <1>1, <1>7, <1>9, InductUpTo
<1>11. Upto(N) = DOMAIN L
  BY <1>1, SMTT(30) DEF Upto
<1>12. After(<< >>, l) = L
  <2>1. F(N) = [i \in DOMAIN L |-> L[i]]
    BY <1>1, <1>10, <1>11
  <2>2. L = [i \in DOMAIN L |-> L[i]]
    BY AllLedgersLemma DEF IsLedger
  <2> QED
    BY <1>4, <2>1, <2>2 DEF After, F
<1>13. FreshFrom(<< >>, l)
  <2> SUFFICES ASSUME NEW n \in 1..Len(l)
               PROVE  /\ l[n].type = "declare_concern" => l[n].id \notin DOMAIN F(n - 1)
                      /\ l[n].type = "revise_concern" => l[n].id \in DOMAIN F(n - 1)
    BY DEF FreshFrom, F
  <2>1. n \in 1..N /\ n - 1 \in 0..N
    BY <1>1, <1>4
  <2>2. DOMAIN F(n - 1) = Upto(n - 1)
    BY <1>10, <2>1
  <2> QED
    BY <1>3, <1>8, <2>1, <2>2
<1> QED
  BY <1>1, <1>3, <1>4, <1>12, <1>13 DEF l

-----------------------------------------------------------------------------

(* The log of a run folds to the projection, has grown from the first      *)
(* ledger's declarations, and declares no concern again.                   *)
LInv ==
    /\ turn \in 0..MaxTurns /\ observed \in 0..turn
    /\ Finite(working) /\ IsLedger(mirror) /\ DOMAIN mirror = DOMAIN working
    /\ log \in Seq(LogEvent) /\ After(<< >>, log) = mirror /\ FreshFrom(<< >>, log)
    /\ \E own \in Seq(LogEvent) : log = EventsFromLedger(FirstLedger) \o own

LEMMA EmptyLedger == << >> \in AllLedgers
<1>1. << >> \in [{} -> CodingConcern]
  OBVIOUS
<1> QED
  BY <1>1 DEF AllLedgers

LEMMA LogInitInv == LogInit => LInv
<1> SUFFICES ASSUME LogInit PROVE LInv
  OBVIOUS
<1>1. Finite(FirstLedger) /\ FirstLedger \in AllLedgers /\ MaxTurns \in Nat
  BY LogAssumption, AllLedgersLemma DEF Finite
<1> DEFINE l == EventsFromLedger(FirstLedger)
<1>2. l \in Seq(LogEvent) /\ FreshFrom(<< >>, l) /\ After(<< >>, l) = FirstLedger
  BY <1>1, EventsFromLedgerLemma DEF Finite
<1> HIDE DEF l
<1>3. l = l \o << >> /\ << >> \in Seq(LogEvent)
  BY <1>2
<1>4. turn = 0 /\ observed = 0 /\ log = l /\ working = FirstLedger /\ mirror = FirstLedger
  BY DEF LogInit, l
<1>5. \E own \in Seq(LogEvent) : log = l \o own
  BY <1>3, <1>4
<1>6. turn \in 0..MaxTurns /\ observed \in 0..turn
  BY <1>1, <1>4
<1>7. IsLedger(mirror) /\ DOMAIN mirror = DOMAIN working /\ Finite(working)
  BY <1>1, <1>4 DEF Finite
<1> QED
  BY <1>2, <1>4, <1>5, <1>6, <1>7 DEF LInv, l

(* A change of the ledger and its events, with a note before or after.     *)
LEMMA ChangeInv ==
    ASSUME LInv, NEW after, Finite(after), Extends(working, after), NEW latest,
           Change(after, latest), NEW kind \in {"record_action", "record_observation"},
           observed' \in {observed, observed + 1},
           LET d == DeltaLog(working, after, latest)
           IN log' = Append(log, Note(kind)) \o d \/ log' = Append(log \o d, Note(kind))
    PROVE  LInv'
<1> DEFINE d == DeltaLog(working, after, latest)
           e == Note(kind)
<1>1. /\ working \in AllLedgers /\ after \in AllLedgers /\ mirror \in AllLedgers
      /\ << >> \in AllLedgers
      /\ log \in Seq(LogEvent) /\ After(<< >>, log) = mirror /\ FreshFrom(<< >>, log)
  BY AllLedgersLemma, EmptyLedger DEF LInv, Finite
<1>2. /\ d \in Seq(LogEvent) /\ FreshFrom(mirror, d)
      /\ After(mirror, d) = MirrorDelta(mirror, working, after, latest)
  BY <1>1, DeltaLogLemma DEF LInv, Finite
<1>3. /\ turn < MaxTurns /\ turn' = turn + 1 /\ working' = after
      /\ mirror' = MirrorDelta(mirror, working, after, latest)
  BY DEF Change
<1>4. e \in LogEvent /\ e.type = "note"
  BY DEF Note, LogEvent
<1> HIDE DEF d, e
<1>5. mirror' \in AllLedgers
  BY <1>1, <1>2, <1>3, FoldsLemma
<1>6. \A P \in AllLedgers : /\ After(P, <<e>>) = P /\ FreshFrom(P, <<e>>)
                            /\ <<e>> \in Seq(LogEvent)
  <2> TAKE P \in AllLedgers
  <2>1. After(P, <<e>>) = P
    BY <1>4, AfterOne, ApplyEventLemma
  <2>2. FreshFrom(P, <<e>>)
    BY <1>4, FreshOne
  <2>3. <<e>> \in Seq(LogEvent)
    BY <1>4
  <2> QED
    BY <2>1, <2>2, <2>3
<1>7. PICK own \in Seq(LogEvent) : log = EventsFromLedger(FirstLedger) \o own
  BY DEF LInv
<1>8. EventsFromLedger(FirstLedger) \in Seq(LogEvent)
  BY LogAssumption, AllLedgersLemma, EventsFromLedgerLemma
<1>9. /\ log' \in Seq(LogEvent) /\ After(<< >>, log') = mirror' /\ FreshFrom(<< >>, log')
      /\ \E more \in Seq(LogEvent) : log' = EventsFromLedger(FirstLedger) \o more
  <2>1. CASE log' = Append(log, e) \o d
    <3>1. Append(log, e) = log \o <<e>>
      BY <1>1, <1>4, AfterAppend
    <3> DEFINE s == log \o <<e>>
    <3>2. s \in Seq(LogEvent) /\ After(<< >>, s) = mirror /\ FreshFrom(<< >>, s)
      BY <1>1, <1>6, AfterConcat, FreshConcat
    <3> HIDE DEF s
    <3>3. /\ s \o d \in Seq(LogEvent) /\ FreshFrom(<< >>, s \o d)
          /\ After(<< >>, s \o d) = After(mirror, d)
      BY <1>1, <1>2, <3>2, AfterConcat, FreshConcat
    <3>4. s \o d = EventsFromLedger(FirstLedger) \o (own \o <<e>> \o d)
          /\ own \o <<e>> \o d \in Seq(LogEvent)
      BY <1>2, <1>4, <1>7, <1>8 DEF s
    <3> QED
      BY <1>2, <1>3, <2>1, <3>1, <3>3, <3>4 DEF s
  <2>2. CASE log' = Append(log \o d, e)
    <3> DEFINE s == log \o d
    <3>1. s \in Seq(LogEvent) /\ After(<< >>, s) = mirror' /\ FreshFrom(<< >>, s)
      BY <1>1, <1>2, <1>3, AfterConcat, FreshConcat
    <3>2. s = EventsFromLedger(FirstLedger) \o (own \o d) /\ own \o d \in Seq(LogEvent)
      BY <1>2, <1>7, <1>8
    <3> HIDE DEF s
    <3>3. Append(s, e) = s \o <<e>>
      BY <1>1, <1>4, <3>1, AfterAppend
    <3>4. /\ s \o <<e>> \in Seq(LogEvent) /\ After(<< >>, s \o <<e>>) = mirror'
          /\ FreshFrom(<< >>, s \o <<e>>)
      BY <1>1, <1>5, <1>6, <3>1, AfterConcat, FreshConcat
    <3>5. s \o <<e>> = EventsFromLedger(FirstLedger) \o (own \o d \o <<e>>)
          /\ own \o d \o <<e>> \in Seq(LogEvent)
      BY <1>2, <1>4, <1>7, <1>8, <3>2
    <3> QED
      BY <2>2, <3>3, <3>4, <3>5 DEF s
  <2> QED
    BY <2>1, <2>2 DEF d, e
<1>10. IsLedger(mirror') /\ DOMAIN mirror' = DOMAIN working' /\ Finite(working')
  <2>1. DOMAIN mirror' = DOMAIN mirror \union DOMAIN after
    BY <1>3 DEF MirrorDelta
  <2>2. DOMAIN mirror = DOMAIN working /\ DOMAIN working \subseteq DOMAIN after
    BY DEF LInv, Extends
  <2> QED
    BY <1>3, <1>5, <2>1, <2>2, AllLedgersLemma
<1>11. turn' \in 0..MaxTurns /\ observed' \in 0..turn'
  <2>1. turn \in Nat /\ observed \in 0..turn /\ MaxTurns \in Nat
    BY LogAssumption DEF LInv
  <2> QED
    BY <1>3, <2>1
<1> QED
  BY <1>9, <1>10, <1>11 DEF LInv

LEMMA LogNextInv == LInv /\ [LogNext]_logVars => LInv'
<1> SUFFICES ASSUME LInv, [LogNext]_logVars PROVE LInv'
  OBVIOUS
<1>1. CASE RecordAction
  <2>1. PICK a \in Proposals :
            LET after == ApplyAction(working, a)
            IN /\ Change(after, a.rationale)
               /\ log' = Append(log, Note("record_action")) \o DeltaLog(working, after, a.rationale)
               /\ UNCHANGED observed
    BY <1>1 DEF RecordAction
  <2> DEFINE after == ApplyAction(working, a)
  <2>2. a \in Proposal
    BY LogAssumption
  <2>3. a.updates \subseteq [id: Ids, concern: CodingConcern] /\ a.rationale \subseteq Texts
    BY <2>2 DEF Proposal
  <2>4. Finite(after) /\ Extends(working, after)
    BY <2>3, ApplyActionLemma DEF LInv
  <2> HIDE DEF after
  <2> QED
    BY <2>1, <2>4, ChangeInv DEF after
<1>2. CASE RecordObservation
  <2>1. PICK o \in Observations :
            LET after == ApplyObservation(working, observed + 1, o)
            IN /\ Change(after, {o.message})
               /\ log' = Append(log \o DeltaLog(working, after, {o.message}),
                                Note("record_observation"))
               /\ observed' = observed + 1
    BY <1>2 DEF RecordObservation
  <2> DEFINE after == ApplyObservation(working, observed + 1, o)
  <2>2. o \in CodingObservation
    BY LogAssumption
  <2>3. Finite(working) /\ observed + 1 \in Nat
    BY LogAssumption DEF LInv
  <2>4. Finite(after) /\ Extends(working, after)
    BY <2>2, <2>3, ApplyObservationLemma
  <2> HIDE DEF after
  <2> QED
    BY <2>1, <2>4, ChangeInv DEF after
<1>3. CASE LogDone \/ UNCHANGED logVars
  BY <1>3 DEF LogDone, logVars, LInv
<1> QED
  BY <1>1, <1>2, <1>3 DEF LogNext

LEMMA AlwaysLInv == LogSpec => []LInv
BY LogInitInv, LogNextInv, PTL DEF LogSpec

(* For any actions and observations and any number of turns: the log is    *)
(* well formed, and folding its events in their order gives the projection *)
(* that is kept step by step.                                              *)
THEOREM LogAlwaysAgrees == LogSpec => []LogAgrees
<1>1. LInv => LogAgrees
  <2> SUFFICES ASSUME LInv PROVE LogAgrees
    OBVIOUS
  <2>1. log \in Seq(LogEvent)
    BY DEF LInv
  <2>2. \A n \in DOMAIN log :
            log[n].type \in {"declare_concern", "revise_concern", "set_status", "note"}
    BY <2>1 DEF LogEvent
  <2> QED
    BY <2>2 DEF LInv, LogAgrees, LogTypeOK, LogProjects, Project, After, Finite
<1> QED
  BY <1>1, AlwaysLInv, PTL

(* The branch a tournament makes of a log, event by event.                 *)
Extended(b, e) ==
    IF e.type = "declare_concern" /\ Declared(b, e) THEN b ELSE Append(b, e)

LEMMA BranchesLemma ==
    ASSUME NEW l \in Seq(LogEvent), Fork \in Seq(LogEvent)
    PROVE  /\ Branches(l)[0] = Fork
           /\ \A n \in 1..Len(l) : Branches(l)[n] = Extended(Branches(l)[n - 1], l[n])
<1> DEFINE V == Seq(LogEvent)
           N == Len(l)
           next == [x \in (1..N) \X V |-> Extended(x[2], l[x[1]])]
           Is(f) == f = [n \in 0..N |-> IF n = 0 THEN Fork ELSE Extended(f[n - 1], l[n])]
           B == Branches(l)
<1>1. N \in Nat /\ \A n \in 1..N : l[n] \in LogEvent
  OBVIOUS
<1>2. \A b \in V, e \in LogEvent : Extended(b, e) \in V
  BY DEF Extended
<1>3. next \in [(1..N) \X V -> V] /\ Fork \in V
  <2> HIDE DEF V, N
  <2> QED
    BY <1>1, <1>2 DEF V
<1>4. PICK g : Computes(g, V, Fork, next, N)
  <2> HIDE DEF next, V, N
  <2> QED
    BY <1>1, <1>3, Recursion
<1>5. g \in [0..N -> V] /\ g[0] = Fork
  BY <1>4 DEF Computes
<1>6. \A n \in 1..N : g[n] = Extended(g[n - 1], l[n])
  <2> SUFFICES ASSUME NEW n \in 1..N PROVE g[n] = Extended(g[n - 1], l[n])
    OBVIOUS
  <2> HIDE DEF V, N
  <2>1. <<n, g[n - 1]>> \in (1..N) \X V
    BY <1>1, <1>5
  <2>2. next[<<n, g[n - 1]>>] = Extended(g[n - 1], l[n])
    BY <2>1
  <2>3. g[n] = next[<<n, g[n - 1]>>]
    BY <1>4 DEF Computes
  <2> QED
    BY <2>2, <2>3
<1> HIDE DEF V, N
<1>7. Is(g)
  <2>1. \A n \in 0..N : n # 0 => n \in 1..N
    BY <1>1
  <2> QED
    BY <1>5, <1>6, <2>1
<1>8. B = CHOOSE f : Is(f)
  BY DEF Branches, Extended, N
<1> HIDE DEF B
<1>9. Is(B)
  <2> HIDE DEF Is
  <2> QED
    BY <1>7, <1>8
<1>10. B[0] = Fork /\ \A n \in 1..N : B[n] = Extended(B[n - 1], l[n])
  BY <1>1, <1>9
<1> QED
  BY <1>10 DEF B, N

(* A branch declares exactly the concerns it projects to.                  *)
Declares(b) ==
    \A i \in Ids : (\E n \in 1..Len(b) : b[n].type = "declare_concern" /\ b[n].id = i)
                        <=> i \in DOMAIN After(<< >>, b)

LEMMA DeclaresAppend ==
    ASSUME NEW b \in Seq(LogEvent), Declares(b), NEW e \in LogEvent,
           e.type = "revise_concern" => e.id \in DOMAIN After(<< >>, b)
    PROVE  Declares(Append(b, e))
<1> DEFINE P == After(<< >>, b)
           a == Append(b, e)
<1>1. P \in AllLedgers /\ After(<< >>, a) = ApplyEvent(P, e)
  BY EmptyLedger, FoldsLemma, AfterAppend
<1>2. /\ Len(a) = Len(b) + 1 /\ Len(b) \in Nat /\ a[Len(b) + 1] = e
      /\ \A n \in 1..Len(b) : a[n] = b[n]
  OBVIOUS
<1> HIDE DEF P, a
<1> SUFFICES ASSUME NEW i \in Ids
             PROVE  (\E n \in 1..Len(a) : a[n].type = "declare_concern" /\ a[n].id = i)
                        <=> i \in DOMAIN ApplyEvent(P, e)
  BY <1>1 DEF Declares, a
<1>3. (\E n \in 1..Len(a) : a[n].type = "declare_concern" /\ a[n].id = i) <=>
        \/ \E n \in 1..Len(b) : b[n].type = "declare_concern" /\ b[n].id = i
        \/ e.type = "declare_concern" /\ e.id = i
  <2>1. \A n \in 1..Len(a) : n \in 1..Len(b) \/ n = Len(b) + 1
    BY <1>2
  <2>2. \A n \in 1..Len(b) : n \in 1..Len(a)
    BY <1>2
  <2>3. Len(b) + 1 \in 1..Len(a)
    BY <1>2
  <2> QED
    BY <1>2, <2>1, <2>2, <2>3
<1>4. (\E n \in 1..Len(b) : b[n].type = "declare_concern" /\ b[n].id = i) <=> i \in DOMAIN P
  BY DEF Declares, P
<1>5. i \in DOMAIN ApplyEvent(P, e) <=>
        \/ i \in DOMAIN P
        \/ e.type = "declare_concern" /\ e.id = i
  <2>1. e.type = "revise_concern" => e.id \in DOMAIN P
    BY DEF P
  <2>2. e.type \in {"declare_concern", "revise_concern", "set_status", "note"}
    BY DEF LogEvent
  <2> QED
    BY <1>1, <2>1, <2>2, ApplyEventLemma
<1> QED
  BY <1>3, <1>4, <1>5

(* The branch projects to what the log does from where the log has told    *)
(* the first ledger, which the branch starts with.                         *)
LEMMA BranchLemma ==
    ASSUME NEW own \in Seq(LogEvent),
           FreshFrom(<< >>, EventsFromLedger(FirstLedger) \o own)
    PROVE  LET l == EventsFromLedger(FirstLedger) \o own
           IN After(<< >>, Branch(l)) = After(<< >>, l)
<1> DEFINE E == EventsFromLedger(FirstLedger)
           K == Len(E)
           l == E \o own
           N == Len(l)
           F == Folds(<< >>, l)
           B == Branches(l)
           Told(n) == IF n <= K THEN FirstLedger ELSE F[n]
           S == {n \in 0..N : /\ B[n] \in Seq(LogEvent) /\ Declares(B[n])
                              /\ After(<< >>, B[n]) = Told(n)}
<1>1. << >> \in AllLedgers /\ FirstLedger \in AllLedgers /\ IsFiniteSet(DOMAIN FirstLedger)
  BY LogAssumption, AllLedgersLemma, EmptyLedger
<1>2. /\ E \in Seq(LogEvent) /\ After(<< >>, E) = FirstLedger
      /\ \A n \in 1..K : E[n].type = "declare_concern" /\ E[n].id \in DOMAIN FirstLedger
      /\ \A i \in DOMAIN FirstLedger : \E n \in 1..K : E[n].id = i
  BY <1>1, EventsFromLedgerLemma
<1> HIDE DEF E
<1>3. /\ l \in Seq(LogEvent) /\ K \in Nat /\ N \in Nat /\ K <= N
      /\ \A n \in 1..K : l[n] = E[n]
  BY <1>2
<1>4. F[K] = FirstLedger
  <2>1. K \in 0..K
    BY <1>3
  <2>2. F[K] = Folds(<< >>, E)[K]
    BY <1>1, <1>2, <2>1, AfterConcat
  <2> QED
    BY <1>2, <2>2 DEF After
<1>5. /\ \A n \in 1..N : F[n] = ApplyEvent(F[n - 1], l[n]) /\ l[n] \in LogEvent
      /\ \A n \in 0..N : F[n] \in AllLedgers
      /\ After(<< >>, l) = F[N]
  <2> HIDE DEF l
  <2>1. /\ F \in [0..N -> AllLedgers]
        /\ \A n \in 1..N : F[n] = ApplyEvent(F[n - 1], l[n])
    BY <1>1, <1>3, FoldsLemma
  <2>2. \A n \in 1..N : l[n] \in LogEvent
    BY <1>3
  <2>3. After(<< >>, l) = F[N]
    BY DEF After
  <2> HIDE DEF F, N
  <2> QED
    BY <2>1, <2>2, <2>3
<1>6. \A n \in 1..N : /\ l[n].type = "declare_concern" => l[n].id \notin DOMAIN F[n - 1]
                      /\ l[n].type = "revise_concern" => l[n].id \in DOMAIN F[n - 1]
  BY DEF FreshFrom, E
<1> HIDE DEF l, F, K, N
<1>7. \A kind \in {"tournament_start", "fork_workspace"} :
            Note(kind) \in LogEvent /\ Note(kind).type = "note"
  BY DEF Note, LogEvent
<1>8. Fork \in Seq(LogEvent) /\ Declares(Fork) /\ After(<< >>, Fork) = FirstLedger
  <2>1. Declares(E)
    <3>1. \A i \in Ids : (\E n \in 1..K : E[n].type = "declare_concern" /\ E[n].id = i)
                            <=> i \in DOMAIN FirstLedger
      BY <1>2
    <3> QED
      BY <1>2, <3>1 DEF Declares, K
  <2>2. /\ Root \in Seq(LogEvent) /\ After(<< >>, Root) = FirstLedger
        /\ Declares(Root)
    <3> DEFINE e == Note("tournament_start")
    <3>1. e \in LogEvent /\ e.type = "note" /\ Root = Append(E, e)
      BY <1>7 DEF Root, E
    <3> HIDE DEF e
    <3>2. Root \in Seq(LogEvent) /\ After(<< >>, Root) = ApplyEvent(FirstLedger, e)
      BY <1>1, <1>2, <3>1, AfterAppend
    <3>3. Declares(Root)
      BY <1>2, <2>1, <3>1, DeclaresAppend
    <3> QED
      BY <1>1, <3>1, <3>2, <3>3, ApplyEventLemma
  <2> DEFINE e == Note("fork_workspace")
  <2>3. e \in LogEvent /\ e.type = "note" /\ Fork = Append(Root, e)
    BY <1>7 DEF Fork
  <2> HIDE DEF e
  <2>4. Fork \in Seq(LogEvent) /\ After(<< >>, Fork) = ApplyEvent(FirstLedger, e)
    BY <1>1, <2>2, <2>3, AfterAppend
  <2>5. Declares(Fork)
    BY <2>2, <2>3, DeclaresAppend
  <2> QED
    BY <1>1, <2>3, <2>4, <2>5, ApplyEventLemma
<1>9. B[0] = Fork /\ \A n \in 1..N : B[n] = Extended(B[n - 1], l[n])
  BY <1>3, <1>8, BranchesLemma DEF N
<1> HIDE DEF B
<1>10. 0 \in S
  <2>1. Told(0) = FirstLedger /\ 0 \in 0..N
    BY <1>3
  <2> QED
    BY <1>8, <1>9, <2>1
<1>11. ASSUME NEW n \in 1..N, n - 1 \in S PROVE n \in S
  <2> DEFINE b == B[n - 1]
             e == l[n]
  <2>1. b \in Seq(LogEvent) /\ Declares(b) /\ After(<< >>, b) = Told(n - 1)
    BY <1>11
  <2>2. B[n] = Extended(b, e) /\ e \in LogEvent
    BY <1>5, <1>9
  <2> HIDE DEF b, e
  <2>3. \A i \in Ids : (\E k \in 1..Len(b) : b[k].type = "declare_concern" /\ b[k].id = i)
                            <=> i \in DOMAIN Told(n - 1)
    BY <2>1 DEF Declares
  <2>4. DOMAIN b = 1..Len(b)
    BY <2>1
  <2>5. e.type = "declare_concern" => e.id \in Ids
    BY <2>2 DEF LogEvent
  <2>6. CASE n <= K
    <3>1. n \in 1..K
      BY <1>3, <2>6
    <3>2. e.type = "declare_concern" /\ e.id \in DOMAIN FirstLedger
      BY <1>2, <1>3, <3>1 DEF e
    <3>3. Told(n - 1) = FirstLedger /\ Told(n) = FirstLedger
      BY <1>3, <2>6
    <3> HIDE DEF Told
    <3>4. Declared(b, e)
      BY <2>3, <2>4, <2>5, <3>2, <3>3 DEF Declared
    <3>5. B[n] = b
      BY <2>2, <3>2, <3>4 DEF Extended
    <3> QED
      BY <2>1, <3>3, <3>5
  <2>7. CASE ~(n <= K)
    <3>1. Told(n - 1) = F[n - 1] /\ Told(n) = F[n]
      BY <1>3, <1>4, <2>7
    <3>2. F[n] = ApplyEvent(F[n - 1], e)
      BY <1>5 DEF e
    <3> HIDE DEF Told
    <3>3. /\ e.type = "declare_concern" => e.id \notin DOMAIN F[n - 1]
          /\ e.type = "revise_concern" => e.id \in DOMAIN F[n - 1]
      BY <1>6 DEF e
    <3>4. e.type = "declare_concern" => ~Declared(b, e)
      BY <2>3, <2>4, <2>5, <3>1, <3>3 DEF Declared
    <3>5. B[n] = Append(b, e)
      BY <2>2, <3>4 DEF Extended
    <3>6. B[n] \in Seq(LogEvent) /\ After(<< >>, B[n]) = F[n]
      <4>1. /\ Append(b, e) \in Seq(LogEvent)
            /\ After(<< >>, Append(b, e)) = ApplyEvent(After(<< >>, b), e)
        BY <1>1, <2>1, <2>2, AfterAppend
      <4> QED
        BY <2>1, <3>1, <3>2, <3>5, <4>1
    <3>7. Declares(B[n])
      BY <2>1, <2>2, <3>1, <3>3, <3>5, DeclaresAppend
    <3> QED
      BY <3>1, <3>6, <3>7
  <2> QED
    BY <2>6, <2>7
<1>12. N \in S
  <2> HIDE DEF S
  <2>1. \A n \in 0..N : n \in S
    BY <1>3, <1>10, <1>11, InductUpTo
  <2> QED
    BY <1>3, <2>1
<1>13. Told(N) = F[N]
  BY <1>3, <1>4
<1>14. Branch(l) = B[N]
  BY DEF Branch, B, N
<1> HIDE DEF Told
<1>15. After(<< >>, Branch(l)) = After(<< >>, l)
  BY <1>5, <1>12, <1>13, <1>14
<1> QED
  BY <1>15 DEF l, E

(* A candidate's branch of the tournament's log projects to the concerns   *)
(* of the candidate's own log, whatever the candidate did.                 *)
THEOREM BranchAlwaysProjects == LogSpec => []BranchProjects
<1>1. LInv => BranchProjects
  <2> SUFFICES ASSUME LInv PROVE BranchProjects
    OBVIOUS
  <2>1. PICK own \in Seq(LogEvent) : log = EventsFromLedger(FirstLedger) \o own
    BY DEF LInv
  <2>2. After(<< >>, Branch(log)) = After(<< >>, log)
    BY <2>1, BranchLemma DEF LInv
  <2> QED
    BY <2>2 DEF BranchProjects, Project, After
<1> QED
  BY <1>1, AlwaysLInv, PTL
=============================================================================
