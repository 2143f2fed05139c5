---------------------------- MODULE RecursiveRun ----------------------------
(***************************************************************************)
(* RecursiveCodingHarnessRunner.run (lbah/coding/recursive.py): child      *)
(* agents work through their tasks one after the other, the validated      *)
(* output of each is reduced into the parent's ledger, and the parent's    *)
(* run, CodingRun, starts from that ledger.  Children see the workspace    *)
(* and do not touch it.                                                    *)
(***************************************************************************)
EXTENDS CodingRun, Sequences

CONSTANTS
    ChildTasks,     \* the child tasks in order, each the outputs its child may return
    FailFast        \* fail_fast_on_child_error

(* ok: the output validates against its task, its ledger_updates included. *)
ChildResult == [ok: BOOLEAN, updates: SUBSET [id: Ids, concern: CodingConcern],
                evidence: SUBSET Texts, summary: Texts]

ASSUME RecursiveAssumption ==
    /\ ChildTasks \in Seq(SUBSET ChildResult)
    /\ FailFast \in BOOLEAN

VARIABLES
    child,    \* number of children that have returned
    passed    \* number of those whose output validated

rvars == <<vars, child, passed>>

ChildCheck == "recursive_child"

RTypeOK ==
    /\ pc \in {"children", "propose", "execute", "gate", "exhausted", "fail_closed",
               "returned", "raised"}
    /\ child \in 0..Len(ChildTasks) /\ passed \in 0..child
    /\ step \in 0..MaxSteps /\ events \in passed..(passed + step + 2)
    /\ IsLedger(ledger) /\ IsLedger(projection)
    /\ result.failed \subseteq CheckNames \union {ChildCheck}

-----------------------------------------------------------------------------

EvidenceId(n) == <<"child_evidence", n>>

(* The concerns of a child's evidence, at most one item here: addressed,   *)
(* and named after the child.                                              *)
AppendEvidence(L, n, r) ==
    IF r.evidence = {} THEN L
    ELSE AppendConcern(L, EvidenceId(n),
            [kind |-> "evidence", text |-> CHOOSE t \in r.evidence : TRUE, concern |-> 60,
             status |-> "addressed", evidence |-> {r.summary}])

(* apply_child_result: an observation, the child's ledger_updates, then    *)
(* its evidence.                                                           *)
ApplyChildResult(L, n, r) ==
    LET o == [type |-> "inspect", success |-> TRUE, message |-> r.summary]
    IN AppendEvidence(ApplyUpdates(ApplyObservation(L, events + 1, o), r.updates), n, r)

(* The parent runs without a contamination gate.                           *)
RInit ==
    /\ ~ContaminationGate
    /\ pc = "children" /\ child = 0 /\ passed = 0
    /\ step = 0 /\ tree = Baseline
    /\ ledger = InitialLedger /\ events = 0
    /\ projection = << >> /\ trail = 0
    /\ action = NoAction /\ observation = NoObservation
    /\ checks = {} /\ result = NoResult

ChildPasses ==
    /\ pc = "children" /\ child < Len(ChildTasks)
    /\ \E r \in ChildTasks[child + 1] :
        r.ok /\ ledger' = ApplyChildResult(ledger, child, r)
    /\ events' = events + 1
    /\ child' = child + 1 /\ passed' = passed + 1
    /\ UNCHANGED <<pc, step, tree, projection, trail, action, observation, checks, result>>

(* The run fails with the first child that does, or goes on to the next.   *)
ChildFails ==
    /\ pc = "children" /\ child < Len(ChildTasks)
    /\ \E r \in ChildTasks[child + 1] : ~r.ok
    /\ child' = child + 1
    /\ IF FailFast THEN Return(FALSE, {ChildCheck}, tree) ELSE UNCHANGED <<pc, result>>
    /\ UNCHANGED <<step, tree, ledger, events, projection, trail, action, observation,
                   checks, passed>>

(* Nothing guards a child that raises or returns no child result.          *)
ChildRaises ==
    /\ pc = "children" /\ child < Len(ChildTasks)
    /\ pc' = "raised"
    /\ UNCHANGED <<step, tree, ledger, events, projection, trail, action, observation,
                   checks, result, child, passed>>

(* Variant: the run fails only if every child does.                        *)
ChildrenFailIfAll ==
    /\ pc = "children" /\ child = Len(ChildTasks) /\ passed = 0 /\ child > 0
    /\ Return(FALSE, {ChildCheck}, tree)
    /\ UNCHANGED <<step, tree, ledger, events, projection, trail, action, observation,
                   checks, child, passed>>

ChildrenFail ==
    /\ pc = "children" /\ child = Len(ChildTasks) /\ passed < child
    /\ Return(FALSE, {ChildCheck}, tree)
    /\ UNCHANGED <<step, tree, ledger, events, projection, trail, action, observation,
                   checks, child, passed>>

(* run_with_ledger: the parent's log is built from the ledger it is given, *)
(* and its first observation, of the children, enters both.                *)
Summary == [type |-> "inspect", success |-> TRUE, message |-> DoneText]

HandOver(P) ==
    LET after == ApplyObservation(ledger, events + 1, Summary)
    IN /\ pc' = "propose"
       /\ observation' = Summary
       /\ ledger' = after
       /\ events' = events + 1
       /\ projection' = MirrorDelta(P, ledger, after, {DoneText})
       /\ trail' = events + 1
       /\ UNCHANGED <<step, tree, action, checks, result, child, passed>>

(* Variant: the parent starts whatever the children returned.              *)
StartParentAnyway ==
    /\ pc = "children" /\ child = Len(ChildTasks)
    /\ HandOver(ledger)

(* Variant: the parent's log is built from the task.                       *)
StartParentAfresh ==
    /\ pc = "children" /\ child = Len(ChildTasks) /\ passed = child
    /\ HandOver(InitialLedger)

StartParent ==
    /\ pc = "children" /\ child = Len(ChildTasks) /\ passed = child
    /\ HandOver(ledger)

ParentStep == Next /\ UNCHANGED <<child, passed>>

RNext ==
    \/ ChildPasses \/ ChildFails \/ ChildRaises \/ ChildrenFail \/ StartParent
    \/ ParentStep

(* One thread: children that answer let every step happen.                 *)
RSpec == RInit /\ [][RNext]_rvars /\ WF_rvars(RNext)
-----------------------------------------------------------------------------

(* A recursive run succeeds only when every child's output validated and   *)
(* the parent's tree is verified, the concerns of high level that children *)
(* raised being answered like the task's own.                              *)
SuccessNeedsChildren ==
    pc = "returned" /\ result.success =>
        passed = Len(ChildTasks) /\ Verifiable(tree) /\ Unresolved(ledger) = {}

(* From the hand-over on, the parent's log has the concerns the children   *)
(* put into the ledger as well as the task's, and their observations.      *)
HandoverMirrors ==
    pc \in {"propose", "execute", "gate"} => MirrorAgrees /\ trail = events

(* What the children did counts in the parent: in its verdict, and in its  *)
(* log as in its ledger.                                                   *)
ChildrenAreHeard == RTypeOK /\ SuccessNeedsChildren /\ HandoverMirrors

(* What a child reported stays in the ledger to the end, whatever other    *)
(* children and the parent's agent write.                                  *)
ReportsSurvive == LedgerRemembers

(* Every recursive run ends.                                               *)
RTermination == <>(pc \in {"returned", "raised"})
=============================================================================
