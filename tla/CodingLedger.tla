---------------------------- MODULE CodingLedger ----------------------------
(***************************************************************************)
(* The concern ledger of the coding harness (lbah/coding/ledger.py) as a   *)
(* value and the operators that change it.  A ledger is a function from    *)
(* concern ids to concerns.  An id such as "test_2" is the pair            *)
(* <<"test", 2>>, a concern level such as 0.85 the integer 85, a list of   *)
(* evidence the set of its items (CodingEvents says where their order      *)
(* matters), and texts and messages are members of small sets.             *)
(***************************************************************************)
EXTENDS Naturals, FiniteSets

CONSTANTS
    Texts,         \* texts of concerns, messages of observations, rationales
    TestsPassed,   \* message of a passing test run
    TestsFailed,   \* message of a failing one
    Verified,      \* message of a finish whose checks all pass
    Feedback,      \* message of a finish with failed checks
    DoneText,      \* message of another action that succeeded
    ErrorText,     \* message of an action or a proposal that raised or failed
    GateText       \* message of a finish the contamination gate blocked

ASSUME TextsAssumption ==
    {TestsPassed, TestsFailed, Verified, Feedback,
     DoneText, ErrorText, GateText} \subseteq Texts

Kinds    == {"fact", "hypothesis", "risk", "file", "test", "question", "evidence"}
Statuses == {"open", "addressed", "rejected", "deferred"}
IdRoots  == {"task", "success", "risk", "test", "verification_failure", "note",
             "child_evidence"}
Ids      == IdRoots \X Nat

CodingConcern == [kind: Kinds, text: Texts, concern: 0..100,
                  status: Statuses, evidence: SUBSET Texts]

IsLedger(L) == DOMAIN L \subseteq Ids /\ L \in [DOMAIN L -> CodingConcern]

ActionTypes == {"inspect", "search", "read_file", "edit_file",
                "run_command", "run_tests", "finish"}

CodingObservation == [type: ActionTypes, success: BOOLEAN, message: Texts]

-----------------------------------------------------------------------------

(* Variant: a known concern is replaced, its evidence included.            *)
AppendConcernForgetful(L, id, c) ==
    [i \in DOMAIN L \union {id} |->
        IF i # id THEN L[i]
        ELSE IF id \in DOMAIN L /\ c.concern < L[id].concern THEN L[id]
        ELSE c]

(* A new id is appended; a known one is overwritten when the new level is  *)
(* at least the old one, its evidence united, and left alone otherwise.    *)
AppendConcern(L, id, c) ==
    [i \in DOMAIN L \union {id} |->
        IF i # id THEN L[i]
        ELSE IF id \notin DOMAIN L THEN c
        ELSE IF c.concern < L[id].concern THEN L[id]
        ELSE [c EXCEPT !.evidence = @ \union L[id].evidence]]

(* Concerns in S become addressed and gain the evidence E.                 *)
Address(L, S, E) ==
    [i \in DOMAIN L |->
        IF i \in S THEN [L[i] EXCEPT !.status = "addressed", !.evidence = @ \union E]
        ELSE L[i]]

(* An action's ledger_updates (none or one: a set of at most one pair of   *)
(* id and concern), then its concerns_addressed; the rationale is a set of *)
(* at most one text.                                                       *)
ApplyUpdates(L, updates) ==
    IF updates = {} THEN L
    ELSE LET u == CHOOSE u \in updates : TRUE IN AppendConcern(L, u.id, u.concern)

ApplyAction(L, a) == Address(ApplyUpdates(L, a.updates), a.addressed, a.rationale)

OpenOfKind(L, k) == {i \in DOMAIN L : L[i].kind = k /\ L[i].status = "open"}

OpenFailures(L) ==
    {i \in DOMAIN L : i[1] = "verification_failure" /\ L[i].status = "open"}

(* The id of the next test concern counts the concerns of kind "test".     *)
TestId(L) == <<"test", Cardinality({i \in DOMAIN L : L[i].kind = "test"})>>

FailureId(n) == <<"verification_failure", n>>

RecordTests(L, o) ==
    LET tested == AppendConcern(L, TestId(L),
                    [kind |-> "test", text |-> o.message, concern |-> 90,
                     status |-> IF o.success THEN "addressed" ELSE "open",
                     evidence |-> {o.message}])
    IN IF o.success THEN Address(tested, OpenOfKind(tested, "evidence"), {o.message})
       ELSE tested

CloseFailures(L, o) == Address(L, OpenFailures(L), {o.message})

RecordFailure(L, n, o) ==
    AppendConcern(L, FailureId(n),
        [kind |-> "risk", text |-> o.message, concern |-> 95,
         status |-> "open", evidence |-> {o.message}])

(* Variant: any finish closes the open failures.                           *)
ApplyObservationEager(L, n, o) ==
    LET tested == IF o.type = "run_tests" THEN RecordTests(L, o) ELSE L
        closed == IF o.success \/ o.type = "finish"
                  THEN CloseFailures(tested, o) ELSE tested
    IN IF o.type = "finish" /\ ~o.success THEN RecordFailure(closed, n, o) ELSE closed

(* apply_observation: n is the number of events with this observation.     *)
ApplyObservation(L, n, o) ==
    LET tested == IF o.type = "run_tests" THEN RecordTests(L, o) ELSE L
        closed == IF o.success /\ o.type \in {"run_tests", "finish"}
                  THEN CloseFailures(tested, o) ELSE tested
    IN IF o.type = "finish" /\ ~o.success THEN RecordFailure(closed, n, o) ELSE closed

(* Open concerns of level 0.7 or more: the ones a finish must not leave.   *)
Unresolved(L) == {i \in DOMAIN L : L[i].status = "open" /\ L[i].concern >= 70}

(* from_task: the task, its success criteria, its known risks, then the    *)
(* concerns the task's metadata adds (given with distinct fresh ids).      *)
FromTask(instruction, criteria, risks, extra) ==
    LET Fresh(k, text, level) == [kind |-> k, text |-> text, concern |-> level,
                                  status |-> "open", evidence |-> {}]
    IN [i \in {<<"task", 0>>} \union {<<"success", n>> : n \in DOMAIN criteria}
              \union {<<"risk", n>> : n \in DOMAIN risks} \union DOMAIN extra |->
          CASE i \in DOMAIN extra -> extra[i]
            [] i \notin DOMAIN extra /\ i[1] = "task" -> Fresh("hypothesis", instruction, 90)
            [] i \notin DOMAIN extra /\ i[1] = "success" -> Fresh("evidence", criteria[i[2]], 85)
            [] OTHER -> Fresh("risk", risks[i[2]], 80)]
=============================================================================
