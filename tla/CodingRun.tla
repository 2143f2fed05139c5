----------------------------- MODULE CodingRun ------------------------------
(***************************************************************************)
(* CodingHarnessRunner.run (lbah/coding/runner.py): a coding agent         *)
(* proposes one action at a time, the harness executes it in a workspace,  *)
(* records it in the concern ledger and in the event log, and answers with *)
(* an observation, until a finish is verified or the step budget is gone.  *)
(*                                                                         *)
(* The agent is any chooser of actions, and its commands are external      *)
(* processes.  The run alternates between the agent, the workspace and the *)
(* gate; pc names the point reached.                                       *)
(***************************************************************************)
EXTENDS CodingEvents, Verifier

CONSTANTS
    MaxSteps,           \* task.max_steps
    ContaminationGate,  \* the runner's contamination_gate option
    HasMarker,          \* the task's metadata names a synthetic leak marker
    AgentActions,       \* the actions an agent may propose
    InitialLedger       \* CodingLedger.from_task(task)

GateCheck == "contamination_gate_fail_closed"

(* malformed: some ledger_update is not a valid concern.                   *)
CodingAction == [type: ActionTypes, updates: SUBSET [id: Ids, concern: CodingConcern],
                 addressed: SUBSET Ids, rationale: SUBSET Texts, malformed: BOOLEAN]

ASSUME RunAssumption ==
    /\ MaxSteps \in Nat
    /\ ContaminationGate \in BOOLEAN /\ HasMarker \in BOOLEAN
    /\ AgentActions \subseteq CodingAction
    /\ IsLedger(InitialLedger) /\ IsFiniteSet(DOMAIN InitialLedger)

VARIABLES
    pc,          \* where the loop is
    step,        \* the loop counter, and the length of the trace
    tree,        \* the files of the workspace
    ledger,      \* the concerns of the working ledger
    events,      \* number of observations in ledger.events
    projection,  \* the concerns of log.project()
    trail,       \* number of record_observation events in the log
    action,      \* the action being executed
    observation, \* the last observation
    checks,      \* names of the failed checks of the last verification
    result       \* the CodingRunResult once there is one

vars == <<pc, step, tree, ledger, events, projection, trail,
          action, observation, checks, result>>

NoAction == [type |-> "inspect", updates |-> {}, addressed |-> {},
             rationale |-> {}, malformed |-> FALSE]
NoObservation == [type |-> "inspect", success |-> TRUE, message |-> ErrorText]
NoResult == [success |-> FALSE, failed |-> {}, files |-> {}, diff |-> {}]

TypeOK ==
    /\ pc \in {"propose", "execute", "gate", "exhausted", "fail_closed", "returned", "raised"}
    /\ step \in 0..MaxSteps
    /\ tree \in Trees
    /\ IsLedger(ledger) /\ IsLedger(projection)
    /\ IsFiniteSet(DOMAIN ledger)
    /\ events \in Nat /\ trail \in Nat
    /\ action \in CodingAction
    /\ observation \in CodingObservation
    /\ checks \subseteq CheckNames
    /\ result \in [success: BOOLEAN, failed: SUBSET (CheckNames \union {GateCheck}),
                   files: SUBSET Files, diff: SUBSET Files]

-----------------------------------------------------------------------------

GateOn == ContaminationGate /\ HasMarker

(* An observation enters the ledger, and its delta and itself the log.     *)
Observe(o) ==
    LET after == ApplyObservation(ledger, events + 1, o)
    IN /\ observation' = o
       /\ ledger' = after
       /\ events' = events + 1
       /\ projection' = MirrorDelta(projection, ledger, after, {o.message})
       /\ trail' = trail + 1

Return(success, failed, t) ==
    /\ pc' = "returned"
    /\ result' = [success |-> success, failed |-> failed,
                  files |-> ModifiedFiles(t), diff |-> DiffFiles(t)]

Init ==
    /\ pc = "propose" /\ step = 0
    /\ tree = Baseline
    /\ ledger = InitialLedger /\ events = 0
    /\ projection = InitialLedger /\ trail = 0
    /\ action = NoAction
    /\ observation = NoObservation
    /\ checks = {}
    /\ result = NoResult

(* The proposed action is applied to the ledger before it is executed.     *)
Propose ==
    /\ pc = "propose" /\ step < MaxSteps
    /\ \E a \in AgentActions :
        LET after == ApplyAction(ledger, a)
        IN /\ ~a.malformed
           /\ action' = a
           /\ ledger' = after
           /\ projection' = MirrorDelta(projection, ledger, after, a.rationale)
    /\ pc' = "execute"
    /\ UNCHANGED <<step, tree, events, trail, observation, checks, result>>

(* Variant: the agent is asked again, in the same turn.                    *)
ProposeMalformedRetried ==
    /\ pc = "propose" /\ step < MaxSteps
    /\ \E a \in AgentActions : a.malformed /\ action' = a
    /\ UNCHANGED <<pc, step, tree, ledger, events, projection, trail, observation, checks, result>>

(* A ledger_update that does not validate raises out of the run: only the  *)
(* proposal and the execution of an action are guarded.                    *)
ProposeMalformed ==
    /\ pc = "propose" /\ step < MaxSteps
    /\ \E a \in AgentActions : a.malformed /\ action' = a
    /\ pc' = "raised"
    /\ UNCHANGED <<step, tree, ledger, events, projection, trail, observation, checks, result>>

(* Variant: the budget is compared with <=.                                 *)
ProposalErrorUnbounded ==
    /\ pc = "propose" /\ step <= MaxSteps
    /\ Observe([type |-> "inspect", success |-> FALSE, message |-> ErrorText])
    /\ step' = step + 1
    /\ UNCHANGED <<pc, tree, action, checks, result>>

(* The agent raises, or its action does not parse: a failed observation.   *)
ProposalError ==
    /\ pc = "propose" /\ step < MaxSteps
    /\ Observe([type |-> "inspect", success |-> FALSE, message |-> ErrorText])
    /\ step' = step + 1
    /\ UNCHANGED <<pc, tree, action, checks, result>>

ExhaustBudget ==
    /\ pc = "propose" /\ step = MaxSteps
    /\ pc' = "exhausted"
    /\ UNCHANGED <<step, tree, ledger, events, projection, trail,
                   action, observation, checks, result>>

(* An action other than finish has been executed, with this outcome.       *)
Executed(success, message) ==
    /\ Observe([type |-> action.type, success |-> success, message |-> message])
    /\ step' = step + 1
    /\ pc' = "propose"
    /\ UNCHANGED <<action, checks, result>>

(* inspect, search and read_file leave the tree alone; any action may      *)
(* raise inside _execute and become a failed observation.                  *)
ExecuteRead ==
    /\ pc = "execute" /\ action.type \in {"inspect", "search", "read_file"}
    /\ Executed(TRUE, DoneText) \/ Executed(FALSE, ErrorText)
    /\ tree' = tree

ExecuteEdit ==
    /\ pc = "execute" /\ action.type = "edit_file"
    /\ \/ /\ \E f \in Files, c \in Contents :
                tree[f] # Binary /\ tree' = EditFile(tree, f, c)
          /\ Executed(TRUE, DoneText)
       \/ tree' = tree /\ Executed(FALSE, ErrorText)

(* A command may leave any tree, whether it succeeds or not.               *)
ExecuteCommand ==
    /\ pc = "execute" /\ action.type = "run_command"
    /\ \E t \in Trees, success \in BOOLEAN :
        tree' = t /\ Executed(success, IF success THEN DoneText ELSE ErrorText)

TestMessage(outcome) ==
    CASE outcome = "pass" -> TestsPassed
      [] outcome = "fail" -> TestsFailed
      [] OTHER            -> ErrorText

(* run_tests runs the commands its payload names, the configured ones only *)
(* when it names none: it may pass, or change files, where those do not.   *)
ExecuteTests ==
    /\ pc = "execute" /\ action.type = "run_tests"
    /\ \E outcome \in Outcomes, t \in Trees :
        tree' = t /\ Executed(outcome = "pass", TestMessage(outcome))

(* Variant: the checks read the tree from before the tests.                *)
ExecuteFinishEarlyChecks ==
    /\ pc = "execute" /\ action.type = "finish"
    /\ \E run \in TestRuns[tree] :
        LET failed == FailedChecks(tree, run[1], Unresolved(ledger))
        IN /\ tree' = run[2]
           /\ checks' = IF run[1] = "error" THEN {} ELSE failed
           /\ Observe([type |-> "finish", success |-> run[1] # "error" /\ failed = {},
                       message |-> IF run[1] = "error" THEN ErrorText
                                   ELSE IF failed = {} THEN Verified ELSE Feedback])
    /\ pc' = "gate"
    /\ UNCHANGED <<step, action, result>>

(* finish runs the verifier: the tests first, then the checks that read    *)
(* the tree they left and the ledger.  A run of the tests that raises      *)
(* leaves an observation without checks.                                   *)
ExecuteFinish ==
    /\ pc = "execute" /\ action.type = "finish"
    /\ \E run \in TestRuns[tree] :
        LET failed == FailedChecks(run[2], run[1], Unresolved(ledger))
        IN /\ tree' = run[2]
           /\ checks' = IF run[1] = "error" THEN {} ELSE failed
           /\ Observe([type |-> "finish", success |-> run[1] # "error" /\ failed = {},
                       message |-> IF run[1] = "error" THEN ErrorText
                                   ELSE IF failed = {} THEN Verified ELSE Feedback])
    /\ pc' = "gate"
    /\ UNCHANGED <<step, action, result>>

(* Variant: the blocked finish is observed in the log alone.               *)
GateBlockLogOnly ==
    /\ pc = "gate" /\ GateOn /\ Marked(tree)
    /\ observation' = [type |-> "finish", success |-> FALSE, message |-> GateText]
    /\ trail' = trail + 1
    /\ step' = step + 1
    /\ pc' = "propose"
    /\ UNCHANGED <<tree, ledger, events, projection, action, checks, result>>

(* The contamination gate looks at the diff whether or not the finish was  *)
(* verified, and turns it into a failed one.                               *)
GateBlock ==
    /\ pc = "gate" /\ GateOn /\ Marked(tree)
    /\ Observe([type |-> "finish", success |-> FALSE, message |-> GateText])
    /\ step' = step + 1
    /\ pc' = "propose"
    /\ UNCHANGED <<tree, action, checks, result>>

(* Variant: the gate is asked only about a finish that failed.             *)
AcceptUngated ==
    /\ pc = "gate"
    /\ observation.success
    /\ Return(TRUE, checks, tree)
    /\ step' = step + 1
    /\ UNCHANGED <<tree, ledger, events, projection, trail, action, observation, checks>>

Accept ==
    /\ pc = "gate" /\ ~(GateOn /\ Marked(tree))
    /\ observation.success
    /\ Return(TRUE, checks, tree)
    /\ step' = step + 1
    /\ UNCHANGED <<tree, ledger, events, projection, trail, action, observation, checks>>

Refuse ==
    /\ pc = "gate" /\ ~(GateOn /\ Marked(tree))
    /\ ~observation.success
    /\ step' = step + 1
    /\ pc' = "propose"
    /\ UNCHANGED <<tree, ledger, events, projection, trail, action, observation, checks, result>>

(* Variant: the diff is taken before the wipe.                             *)
FailClosedStaleDiff ==
    /\ pc = "fail_closed" /\ GateOn /\ Marked(tree)
    /\ tree' = RestoreBaseline(tree)
    /\ trail' = trail + 1
    /\ Return(FALSE, checks \union {GateCheck}, tree)
    /\ UNCHANGED <<step, ledger, events, projection, action, observation, checks>>

(* Variant: the wipe runs only when the budget's verification failed.      *)
ReturnAtBudgetVerified ==
    /\ pc = "fail_closed" /\ (checks = {} \/ ~(GateOn /\ Marked(tree)))
    /\ Return(checks = {}, checks, tree)
    /\ UNCHANGED <<step, tree, ledger, events, projection, trail, action, observation, checks>>

(* Out of steps, the workspace is verified once more, finish or no finish. *)
(* Nothing guards this verification: tests that raise end the run.         *)
VerifyAtBudget ==
    /\ pc = "exhausted"
    /\ \E run \in TestRuns[tree] :
        /\ tree' = run[2]
        /\ \/ /\ run[1] # "error"
              /\ checks' = FailedChecks(run[2], run[1], Unresolved(ledger))
              /\ pc' = "fail_closed"
           \/ /\ run[1] = "error"
              /\ checks' = checks
              /\ pc' = "raised"
    /\ UNCHANGED <<step, ledger, events, projection, trail, action, observation, result>>

(* A marker still in the diff is wiped and the run fails; the wipe is      *)
(* observed in the log alone.                                              *)
FailClosed ==
    /\ pc = "fail_closed" /\ GateOn /\ Marked(tree)
    /\ tree' = RestoreBaseline(tree)
    /\ trail' = trail + 1
    /\ Return(FALSE, checks \union {GateCheck}, RestoreBaseline(tree))
    /\ UNCHANGED <<step, ledger, events, projection, action, observation, checks>>

ReturnAtBudget ==
    /\ pc = "fail_closed" /\ ~(GateOn /\ Marked(tree))
    /\ Return(checks = {}, checks, tree)
    /\ UNCHANGED <<step, tree, ledger, events, projection, trail, action, observation, checks>>

Terminated == pc \in {"returned", "raised"} /\ UNCHANGED vars

Next ==
    \/ Propose \/ ProposeMalformed \/ ProposalError \/ ExhaustBudget
    \/ ExecuteRead \/ ExecuteEdit \/ ExecuteCommand \/ ExecuteTests \/ ExecuteFinish
    \/ GateBlock \/ Accept \/ Refuse
    \/ VerifyAtBudget \/ FailClosed \/ ReturnAtBudget
    \/ Terminated

(* The loop is one thread: an agent that answers and commands that end,    *)
(* each by its own timeout, let every step happen.                         *)
Spec == Init /\ [][Next]_vars /\ WF_vars(Next)
-----------------------------------------------------------------------------

(* A successful result submits a tree on which the configured tests passed *)
(* as the last thing that touched it, that changes something, only allowed *)
(* files and without weakening a test, and leaves no high concern open:    *)
(* nothing the loop does between the verification and the return           *)
(* invalidates what was verified.                                          *)
CommitIsVerified ==
    pc = "returned" /\ result.success => Verifiable(tree) /\ Unresolved(ledger) = {}

(* With the contamination gate on, no returned result, successful or not,  *)
(* submits a diff with the synthetic marker, even when the tests, a        *)
(* command or a last edit put it there at the end of the budget.           *)
NoMarkedSubmission ==
    pc = "returned" /\ GateOn => ~Marked(tree)

(* The result describes the workspace it leaves: its files and its diff    *)
(* are the tree's, and a run that failed closed submits nothing.           *)
ResultIsTheTree ==
    pc = "returned" =>
        /\ result.files = ModifiedFiles(tree) /\ result.diff = DiffFiles(tree)
        /\ GateCheck \in result.failed => result.files = {} /\ ~result.success

(* What a result submits is the tree it leaves, and has no marker.         *)
SubmissionIsSound == NoMarkedSubmission /\ ResultIsTheTree

(* The projection of the event log has the concerns of the working ledger, *)
(* with the same kind, text, level and status, and no evidence that the    *)
(* ledger lacks, after every step of the run.                              *)
MirrorAgrees ==
    /\ DOMAIN projection = DOMAIN ledger
    /\ \A i \in DOMAIN ledger :
        /\ projection[i] = [ledger[i] EXCEPT !.evidence = projection[i].evidence]
        /\ projection[i].evidence \subseteq ledger[i].evidence

(* The ledger never forgets: whatever the agent updates, reopens or        *)
(* overwrites, no concern and no evidence once recorded is ever lost.      *)
LedgerRemembers ==
    [][\A i \in DOMAIN ledger :
        i \in DOMAIN ledger' /\ ledger[i].evidence \subseteq ledger'[i].evidence]_vars

(* The feedback of a failed or blocked finish, a high concern, stays open  *)
(* until a proposal of the agent closes it or a test run passes: no finish *)
(* is verified while it is open, so no finish ever closes it.              *)
FeedbackOutlivesFinish ==
    [][\A i \in OpenFailures(ledger) \intersect Unresolved(ledger) :
        \/ i \in OpenFailures(ledger')
        \/ pc = "propose" /\ pc' = "execute"
        \/ pc = "execute" /\ action.type = "run_tests" /\ observation'.success]_vars

(* Every turn of the loop leaves an observation in the ledger, a blocked   *)
(* finish two, and the log has as many: it is ahead of the ledger only by  *)
(* the wipe of a run that failed closed, which nothing else records.       *)
EveryTurnObserved ==
    /\ pc = "propose" => events >= step /\ events <= 2 * step
    /\ trail = events + (IF pc = "returned" /\ GateCheck \in result.failed THEN 1 ELSE 0)

(* The run implements the abstract commit: see VerifiedCommit.             *)
Commit == INSTANCE VerifiedCommit
    WITH Trees <- Trees, Start <- Baseline,
         Acceptable <- {t \in Trees : Verifiable(t)},
         Submittable <- {t \in Trees : ~(GateOn /\ Marked(t))},
         commit <- tree,
         verdict <- CASE pc = "raised" -> "aborted"
                      [] pc = "returned" -> IF result.success THEN "accepted" ELSE "rejected"
                      [] OTHER -> "undecided"

(* Seen from outside, the run only ever works on the tree, then accepts    *)
(* the verified tree, rejects it after any wipe, or aborts: every step of  *)
(* the loop is a step of VerifiedCommit or changes nothing it sees.        *)
ImplementsVerifiedCommit == Commit!Spec

(* Every run ends: every turn of the loop consumes a step of the budget,   *)
(* the error paths and the blocked finishes included.                      *)
Termination == <>(pc \in {"returned", "raised"})
=============================================================================
