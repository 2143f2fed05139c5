---------------------------- MODULE SweBenchEval ----------------------------
(***************************************************************************)
(* One process of `lbah code swebench --official`: every instance of a     *)
(* suite gets a working copy (checkout, test patch, leak carrier, sealed   *)
(* history), a coding run, the FAIL_TO_PASS and PASS_TO_PASS tests in the  *)
(* same copy and artifacts; the suite's files and the files of the         *)
(* official grader follow (lbah/coding/swebench_eval.py, swebench.py,      *)
(* cli.py).  The process may be killed at any step and started again on    *)
(* the same output directory.                                              *)
(*                                                                         *)
(* The coding run is what CodingRun implements, VerifiedCommit.            *)
(***************************************************************************)
EXTENDS Naturals, Sequences, Functions

CONSTANTS
    Suite,          \* the instances, in the order of the file
    Patched,        \* the instances with a test patch
    GoldPatched,    \* the instances with a gold patch
    Sources,        \* contents of the repository's source; "base" is the checkout's
    FailToPass,     \* FailToPass[id][w]: {<<passed, working copy afterwards>>}
    PassToPass,     \* as FailToPass
    Edits,          \* what an agent may write, as functions from paths to contents
    OptionChoices,  \* bound: the options a suite may be run with
    MaxAttempts     \* bound: processes on one output directory

Ids == {Suite[k] : k \in DOMAIN Suite}

Paths == {"source", "tests", "carrier"}
None  == "none"

(* A working copy: its files, and what is under .git.                      *)
Copies == [source : Sources, tests : {"old", "new"}, carrier : {None, "leak", "edited"},
           git : {"history", "wiped", "single"}]

Clone == [source |-> "base", tests |-> "old", carrier |-> None, git |-> "history"]

(* A working copy with some of its files rewritten.                        *)
Edited(w, edit) == [p \in DOMAIN w |-> IF p \in DOMAIN edit THEN edit[p] ELSE w[p]]

FailureKinds == {"success", "checkout_failed", "test_patch_failed", "harness_error",
                 "agent_failed", "no_patch", "fail_to_pass_failed", "pass_to_pass_failed"}

(* Whether the instances went through inject_leaks_into_instances, and     *)
(* clean_work_dir, seal_git_history, include_pass_to_pass and              *)
(* allowed_paths, where {} is no restriction.                              *)
Options == [inject : BOOLEAN, clean : BOOLEAN, seal : BOOLEAN, p2p : BOOLEAN,
            allowed : SUBSET Paths]

ASSUME SweBenchAssumption ==
    /\ Suite \in Seq(STRING) /\ Patched \subseteq Ids /\ GoldPatched \subseteq Ids
    /\ "base" \in Sources /\ MaxAttempts \in Nat \ {0}
    /\ FailToPass \in [Ids -> [Copies -> SUBSET (BOOLEAN \X Copies)]]
    /\ PassToPass \in [Ids -> [Copies -> SUBSET (BOOLEAN \X Copies)]]
    /\ \A edit \in Edits, w \in Copies : Edited(w, edit) \in Copies
    /\ OptionChoices \subseteq Options

(* What a coding run reports: the tree it ended on, the paths its diff     *)
(* names, and the paths its agent wrote.                                   *)
CodingRuns == [ran : BOOLEAN, success : BOOLEAN, tree : Copies,
               patch : SUBSET Paths, wrote : SUBSET Paths]
NoRun == [ran |-> FALSE, success |-> FALSE, tree |-> Clone, patch |-> {}, wrote |-> {}]

VARIABLES
    pc,        \* the step of run_swebench_instance or of the command
    attempt,   \* number of the process on this output directory
    opts,      \* the options of the process
    copies,    \* the working copies on disk
    allowed,   \* allowed_paths of the task being run
    start,     \* the working copy the coding run began on
    coding,    \* the current instance's coding run, NoRun before it
    passed,    \* which of its test commands have passed
    results,   \* the results of this process, in order
    files      \* the output directory: the attempt that wrote each file

vars == <<pc, attempt, opts, copies, allowed, start, coding, passed, results, files>>

Current == Suite[Len(results) + 1]

(* An instance without a gold patch has nothing to leak and is passed on   *)
(* as it is.                                                               *)
Leaky == IF opts.inject THEN GoldPatched ELSE {}

Result(kind) == [id |-> Current, kind |-> kind, coding |-> coding]

Steps == {"prepare", "checkout", "test_patch", "plant", "seal", "commit", "task", "run",
          "fail_to_pass", "pass_to_pass", "classify"}

TypeOK ==
    /\ pc \in Steps \union {"artifacts", "coding_run", "suite", "summary", "predictions",
                            "done", "killed"}
    /\ attempt \in 1..MaxAttempts
    /\ opts \in OptionChoices
    /\ \E present \in SUBSET Ids : copies \in [present -> Copies]
    /\ allowed \subseteq Paths
    /\ start \in Copies
    /\ coding \in CodingRuns
    /\ passed \subseteq {"fail_to_pass", "pass_to_pass"}
    /\ Len(results) <= Len(Suite)
    /\ \A k \in DOMAIN results : results[k].kind \in FailureKinds /\ results[k].id = Suite[k]

Init ==
    /\ pc = "prepare" /\ attempt = 1
    /\ opts \in OptionChoices
    /\ copies = << >>
    /\ allowed = {} /\ start = Clone /\ coding = NoRun /\ passed = {}
    /\ results = << >>
    /\ files = [evaluations |-> [id \in Ids |-> 0], codingRuns |-> [id \in Ids |-> 0],
                runs |-> 0, summary |-> 0, predictions |-> [attempt |-> 0, rows |-> << >>]]
-----------------------------------------------------------------------------

(* The result of the instance, whichever way it ends.                      *)
EndInstance(kind) ==
    /\ results' = Append(results, Result(kind))
    /\ pc' = "artifacts"
    /\ UNCHANGED <<attempt, opts, copies, allowed, start, coding, passed, files>>

Goto(step) ==
    /\ pc' = step
    /\ UNCHANGED <<attempt, opts, allowed, start, coding, passed, results, files>>

(* Variant: the outcomes of the instance before are not reset.             *)
PrepareStale ==
    /\ pc = "prepare" /\ Len(results) < Len(Suite)
    /\ pc' = "checkout"
    /\ coding' = NoRun
    /\ copies' = IF opts.clean THEN Restrict(copies, DOMAIN copies \ {Current}) ELSE copies
    /\ UNCHANGED <<attempt, opts, allowed, start, passed, results, files>>

(* A working copy an earlier process left is removed, if so configured.    *)
Prepare ==
    /\ pc = "prepare" /\ Len(results) < Len(Suite)
    /\ pc' = "checkout"
    /\ coding' = NoRun /\ passed' = {}
    /\ copies' = IF opts.clean THEN Restrict(copies, DOMAIN copies \ {Current}) ELSE copies
    /\ UNCHANGED <<attempt, opts, allowed, start, results, files>>

(* Variant: a copy that is already there is taken for the checkout.        *)
CheckoutReusing ==
    /\ pc = "checkout"
    /\ copies' = [id \in DOMAIN copies \union {Current} |->
                    IF id \in DOMAIN copies THEN copies[id] ELSE Clone]
    /\ Goto("test_patch")

(* git clone or copytree, and git checkout of the base commit.             *)
Checkout ==
    /\ pc = "checkout" /\ Current \notin DOMAIN copies
    /\ copies' = [id \in DOMAIN copies \union {Current} |->
                    IF id = Current THEN Clone ELSE copies[id]]
    /\ Goto("test_patch")

(* Also what a clone does where a copy already is; copytree raises there.  *)
CheckoutFails == pc = "checkout" /\ EndInstance("checkout_failed")

ApplyTestPatch ==
    /\ pc = "test_patch"
    /\ copies' = IF Current \in Patched THEN [copies EXCEPT ![Current].tests = "new"] ELSE copies
    /\ Goto("plant")

TestPatchFails ==
    pc = "test_patch" /\ Current \in Patched /\ EndInstance("test_patch_failed")

PlantCarrier ==
    /\ pc = "plant"
    /\ copies' = IF Current \in Leaky THEN [copies EXCEPT ![Current].carrier = "leak"] ELSE copies
    /\ Goto(IF opts.seal THEN "seal" ELSE "task")

(* .git is removed first, and made again with one commit.                  *)
WipeHistory ==
    /\ pc = "seal"
    /\ copies' = [copies EXCEPT ![Current].git = "wiped"]
    /\ Goto("commit")

(* Variant: a step of the sealing that fails is not looked at.             *)
CommitSealedUnchecked ==
    /\ pc = "commit"
    /\ \E git \in {"wiped", "single"} : copies' = [copies EXCEPT ![Current].git = git]
    /\ Goto("task")

CommitSealed ==
    /\ pc = "commit"
    /\ copies' = [copies EXCEPT ![Current].git = "single"]
    /\ Goto("task")

CommitFails == pc = "commit" /\ EndInstance("checkout_failed")

(* contamination_allowed_paths *)
WithCarrier(paths) == paths \union {"carrier"}

(* Variant: the baseline of the diff is the clone.                         *)
BuildTaskFromClone ==
    /\ pc = "task"
    /\ allowed' = IF Current \in Leaky THEN WithCarrier(opts.allowed) ELSE opts.allowed
    /\ start' = Clone
    /\ pc' = "run"
    /\ UNCHANGED <<attempt, opts, copies, coding, passed, results, files>>

(* swebench_to_coding_task, the agent, and the workspace, whose snapshot   *)
(* is the copy as prepared.                                                *)
BuildTask ==
    /\ pc = "task"
    /\ allowed' = IF Current \in Leaky THEN WithCarrier(opts.allowed) ELSE opts.allowed
    /\ start' = copies[Current]
    /\ pc' = "run"
    /\ UNCHANGED <<attempt, opts, copies, coding, passed, results, files>>

Permits(paths, p) == paths = {} \/ p \in paths

(* The run writes any files and ends on a verdict: accepted only with a    *)
(* diff inside the allowed paths and the FAIL_TO_PASS tests, the task's    *)
(* test command, having left this tree when they passed.                   *)
RunAgent ==
    /\ pc = "run"
    /\ \E edit \in Edits, success \in BOOLEAN :
        LET tree  == Edited(copies[Current], edit)
            patch == {p \in Paths : tree[p] # start[p]}
        IN /\ success => /\ patch # {} /\ \A p \in patch : Permits(allowed, p)
                         /\ \E before \in Copies : <<TRUE, tree>> \in FailToPass[Current][before]
           /\ copies' = [copies EXCEPT ![Current] = tree]
           /\ coding' = [ran |-> TRUE, success |-> success, tree |-> tree, patch |-> patch,
                         wrote |-> {p \in Paths : tree[p] # copies[Current][p]}]
    /\ pc' = "fail_to_pass"
    /\ UNCHANGED <<attempt, opts, allowed, start, passed, results, files>>

(* One call of run_swebench_tests: the commands may write files.           *)
RunTests(name, outcomes) ==
    \E run \in outcomes[Current][copies[Current]] :
        /\ passed' = IF run[1] THEN passed \union {name} ELSE passed
        /\ copies' = [copies EXCEPT ![Current] = run[2]]

RunFailToPass ==
    /\ pc = "fail_to_pass"
    /\ RunTests("fail_to_pass", FailToPass)
    /\ pc' = IF opts.p2p THEN "pass_to_pass" ELSE "classify"
    /\ UNCHANGED <<attempt, opts, allowed, start, coding, results, files>>

RunPassToPass ==
    /\ pc = "pass_to_pass"
    /\ RunTests("pass_to_pass", PassToPass)
    /\ pc' = "classify"
    /\ UNCHANGED <<attempt, opts, allowed, start, coding, results, files>>

(* Variant: the handler records the failure, and the end of the run again. *)
StepRaisesTwice ==
    /\ pc \in Steps \ {"prepare", "classify"}
    /\ results' = results \o <<Result("harness_error"), Result("harness_error")>>
    /\ pc' = "artifacts"
    /\ UNCHANGED <<attempt, opts, copies, allowed, start, coding, passed, files>>

(* Variant: the instance is begun again.                                   *)
StepRaisesRetried ==
    /\ pc \in Steps \ {"prepare", "classify"}
    /\ pc' = "prepare"
    /\ UNCHANGED <<attempt, opts, copies, allowed, start, coding, passed, results, files>>

(* Any other exception of the steps above; what the run reported is kept.  *)
StepRaises == pc \in Steps \ {"prepare", "classify"} /\ EndInstance("harness_error")

(* classify_swebench_failure: the first of these that holds.               *)
Classify ==
    LET required == {"fail_to_pass"} \union (IF opts.p2p THEN {"pass_to_pass"} ELSE {})
    IN /\ pc = "classify"
       /\ EndInstance(CASE coding.patch = {}                -> "no_patch"
                        [] "fail_to_pass" \notin passed     -> "fail_to_pass_failed"
                        [] ~(required \subseteq passed)     -> "pass_to_pass_failed"
                        [] ~coding.success                  -> "agent_failed"
                        [] OTHER                            -> "success")

Last == results[Len(results)]

(* evaluation.json and final.diff are written first.                       *)
WriteEvaluation ==
    /\ pc = "artifacts"
    /\ files' = [files EXCEPT !.evaluations[Last.id] = attempt]
    /\ pc' = "coding_run"
    /\ UNCHANGED <<attempt, opts, copies, allowed, start, coding, passed, results>>

(* coding_run.json is written when there is one, and left alone otherwise. *)
WriteCodingRun ==
    /\ pc = "coding_run"
    /\ files' = IF ~Last.coding.ran THEN files
                ELSE [files EXCEPT !.codingRuns[Last.id] = attempt]
    /\ pc' = IF Len(results) < Len(Suite) THEN "prepare" ELSE "suite"
    /\ UNCHANGED <<attempt, opts, copies, allowed, start, coding, passed, results>>

(* Variant: the summary goes before the rows it sums up.                   *)
WriteRunsLast ==
    /\ pc = "suite"
    /\ files' = [files EXCEPT !.summary = attempt]
    /\ pc' = "summary"
    /\ UNCHANGED <<attempt, opts, copies, allowed, start, coding, passed, results>>

WriteRuns ==
    /\ pc = "suite"
    /\ files' = [files EXCEPT !.runs = attempt]
    /\ pc' = "summary"
    /\ UNCHANGED <<attempt, opts, copies, allowed, start, coding, passed, results>>

WriteSummary ==
    /\ pc = "summary"
    /\ files' = [files EXCEPT !.summary = attempt]
    /\ pc' = "predictions"
    /\ UNCHANGED <<attempt, opts, copies, allowed, start, coding, passed, results>>

(* Variant: only what the harness itself accepted is submitted.            *)
PredictionAccepted(r) ==
    [id |-> r.id, patch |-> IF r.kind = "success" THEN r.coding.patch ELSE {}]

(* swebench_prediction_rows: one row an instance, empty without a patch.   *)
Prediction(r) ==
    [id |-> r.id, patch |-> r.coding.patch]

(* write_official_swebench_inputs: predictions.jsonl, then the ids, the    *)
(* command and the subset manifests.                                       *)
WritePredictions ==
    /\ pc = "predictions"
    /\ files' = [files EXCEPT !.predictions =
                    [attempt |-> attempt, rows |-> [k \in DOMAIN results |-> Prediction(results[k])]]]
    /\ pc' = "done"
    /\ UNCHANGED <<attempt, opts, copies, allowed, start, coding, passed, results>>

(* The process is killed; its files and working copies stay.               *)
Kill ==
    /\ pc # "killed" /\ attempt < MaxAttempts
    /\ pc' = "killed"
    /\ results' = << >> /\ coding' = NoRun /\ passed' = {} /\ allowed' = {} /\ start' = Clone
    /\ UNCHANGED <<attempt, opts, copies, files>>

(* The command is given again, with other options perhaps.                 *)
Restart ==
    /\ pc = "killed"
    /\ attempt' = attempt + 1
    /\ opts' \in OptionChoices
    /\ pc' = "prepare"
    /\ UNCHANGED <<copies, allowed, start, coding, passed, results, files>>

Terminated == pc = "done" /\ UNCHANGED vars

Next ==
    \/ Prepare \/ Checkout \/ CheckoutFails \/ ApplyTestPatch \/ TestPatchFails
    \/ PlantCarrier \/ WipeHistory \/ CommitSealed \/ CommitFails \/ BuildTask
    \/ RunAgent \/ RunFailToPass \/ RunPassToPass \/ StepRaises \/ Classify
    \/ WriteEvaluation \/ WriteCodingRun \/ WriteRuns \/ WriteSummary \/ WritePredictions
    \/ Kill \/ Restart \/ Terminated

(* Every command the process starts has a timeout.                         *)
Spec == Init /\ [][Next]_vars /\ WF_vars(Next)
-----------------------------------------------------------------------------

(* The coding run begins on the checkout of the base commit with the       *)
(* instance's test patch and carrier and nothing else, sealed if so        *)
(* configured: never on what an earlier process or instance left.          *)
RunStartsFresh ==
    pc = "run" =>
        copies[Current] =
            [source |-> "base",
             tests |-> IF Current \in Patched THEN "new" ELSE "old",
             carrier |-> IF Current \in Leaky THEN "leak" ELSE None,
             git |-> IF opts.seal THEN "single" ELSE "history"]

(* A solved instance passed FAIL_TO_PASS on the very tree its patch gives, *)
(* and PASS_TO_PASS on what those tests left of it.                        *)
SolvedOnReportedTree ==
    \A k \in DOMAIN results : results[k].kind = "success" =>
        /\ results[k].coding.success /\ results[k].coding.patch # {}
        /\ \E w \in Copies :
            /\ <<TRUE, w>> \in FailToPass[results[k].id][results[k].coding.tree]
            /\ opts.p2p => \E v \in Copies : <<TRUE, v>> \in PassToPass[results[k].id][w]

(* A patch is the agent's work alone: neither the test patch nor the       *)
(* planted carrier is ever part of it.                                     *)
PatchIsAgentsWork ==
    \A k \in DOMAIN results :
        results[k].coding.ran => results[k].coding.patch = results[k].coding.wrote

(* So whoever reads the results reads of the agent's own work, and of      *)
(* tests run on it.                                                        *)
ResultsAreSound == SolvedOnReportedTree /\ PatchIsAgentsWork

(* The grader is given every instance once, in order, with the patch of    *)
(* its run, also where the harness's own verdict was a failure.            *)
EveryPatchSubmitted ==
    /\ files.predictions.attempt = attempt
    /\ Len(files.predictions.rows) = Len(Suite)
    /\ \A k \in DOMAIN Suite :
        LET row == files.predictions.rows[k] IN
        /\ row.id = Suite[k]
        /\ row.patch = results[k].coding.patch

(* Whenever the process is killed, a file that sums up others is never     *)
(* newer than they are: predictions and summary come after the rows, and   *)
(* those after every instance's artifacts, whose coding run may be older   *)
(* than their evaluation and never newer.                                  *)
SummariesComeLater ==
    /\ files.predictions.attempt <= files.summary /\ files.summary <= files.runs
    /\ \A id \in Ids : /\ files.runs <= files.evaluations[id]
                       /\ files.codingRuns[id] <= files.evaluations[id]

(* One instance never costs the others their evaluation: whatever fails or *)
(* raises on the way, the process that is not killed gets to the end and   *)
(* hands the grader all its predictions.                                   *)
SuiteEnds == <>[](pc = "done" /\ EveryPatchSubmitted)

(* "Ensure the leak carrier path is readable by the coding agent": the     *)
(* injection widens what a task may touch.                                 *)
InjectionKeepsPaths ==
    pc = "run" => \A p \in Paths : Permits(opts.allowed, p) => Permits(allowed, p)
=============================================================================
