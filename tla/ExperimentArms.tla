--------------------------- MODULE ExperimentArms ---------------------------
(***************************************************************************)
(* The experiment scripts that compare arms of SWE-bench runs:             *)
(* run_leak_control_matrix.py, run_sealed_unsealed.py, run_wrap_matrix.py  *)
(* and run_head_to_head.py, with modal_lbah_swebench_generate.py and       *)
(* run_official_swebench.py, which they start.  An arm is a directory that *)
(* prepare, launch, reuse and summarize work on from processes of their    *)
(* own; launches of several arms run side by side and may be killed at any *)
(* point.  The official grader leaves its report in the working directory  *)
(* all of them share.                                                      *)
(***************************************************************************)
EXTENDS Naturals, Sequences, FiniteSets

CONSTANTS
    Scripts,      \* the scripts to model, see ScriptNames
    Arms,         \* the arms, or the cells of the wrap matrix
    Gated,        \* the arms on leaky instances: gated, gate
    Ids,          \* the instances
    MaxPrepares,  \* bound: prepare commands
    MaxLaunches   \* bound: launches and reuses

ScriptNames == {"leak_control", "sealed_unsealed", "wrap_matrix", "head_to_head"}

ASSUME ArmsAssumption ==
    /\ Scripts \subseteq ScriptNames /\ Gated \subseteq Arms
    /\ IsFiniteSet(Ids) /\ MaxPrepares \in Nat /\ MaxLaunches \in Nat

VARIABLES
    script,    \* the script all commands are given to
    prepares,  \* number of prepare commands
    launches,  \* what each launch generated and how it was graded, in order
    dirs,      \* the directory of each arm
    cwd,       \* the launches whose report lies in the working directory
    running,   \* step and number of the launch that runs on each arm
    complete   \* the last launch of each arm, if it was graded and ran to its end

armsVars == <<script, prepares, launches, dirs, cwd, running, complete>>

Nothing == 0

(* A launch predicts the instances it was given; some patches carry the    *)
(* leak marker, and the grader resolves some.                              *)
Launch == [arm : Arms, ids : SUBSET Ids, marked : SUBSET Ids, resolved : SUBSET Ids]

(* The files of an arm, each by the number of the launch it is about:      *)
(* modal_generation_results.json, official/predictions.jsonl,              *)
(* official/official-report.json; the instances and those with a marker,   *)
(* with the copy of the markers next to the predictions; and the rows of   *)
(* contamination_probe.jsonl that are resolved, and flagged.               *)
Dir == [instances : SUBSET Ids, markers : SUBSET Ids,
        results : Nat, predictions : Nat, report : Nat,
        copied : SUBSET Ids, probed : SUBSET Ids, flagged : SUBSET Ids]

EmptyDir == [instances |-> {}, markers |-> {}, results |-> 0, predictions |-> 0, report |-> 0,
             copied |-> {}, probed |-> {}, flagged |-> {}]

Steps == {"idle", "predictions", "grade", "probe", "move", "summarize"}

ArmsTypeOK ==
    /\ script \in Scripts
    /\ prepares \in 0..MaxPrepares
    /\ launches \in Seq(Launch) /\ Len(launches) <= MaxLaunches
    /\ dirs \in [Arms -> Dir]
    /\ \A a \in Arms : {dirs[a].results, dirs[a].predictions, dirs[a].report}
                            \subseteq {Nothing} \union DOMAIN launches
    /\ cwd \subseteq DOMAIN launches
    /\ running \in [Arms -> [step : Steps, launch : {Nothing} \union DOMAIN launches]]
    /\ complete \in [Arms -> {Nothing} \union DOMAIN launches]

IdleArm == [step |-> "idle", launch |-> Nothing]

ArmsInit ==
    /\ script \in Scripts
    /\ prepares = 0 /\ launches = << >> /\ cwd = {}
    /\ dirs = [a \in Arms |-> EmptyDir]
    /\ running = [a \in Arms |-> IdleArm]
    /\ complete = [a \in Arms |-> Nothing]
-----------------------------------------------------------------------------

(* prepare: instances and markers of every arm.  What an arm holds of      *)
(* earlier launches stays.                                                 *)
Prepare ==
    /\ prepares < MaxPrepares
    /\ \A a \in Arms : running[a] = IdleArm
    /\ prepares' = prepares + 1
    /\ \E ids \in SUBSET Ids \ {{}} :
        dirs' = [a \in Arms |-> [dirs[a] EXCEPT !.instances = ids, !.markers = ids]]
    /\ UNCHANGED <<script, launches, cwd, running, complete>>

(* The patches that can carry the marker: the scripts other than the leak  *)
(* control matrix probe gated arms only, whose finish gate lets no patch   *)
(* with the marker through.                                                *)
Markable(a) == IF script = "leak_control" THEN dirs[a].instances ELSE {}

(* Workers generate a patch for each instance; the result of all of them   *)
(* is written only when none failed.                                       *)
StartLaunch(a) ==
    /\ running[a] = IdleArm /\ dirs[a].instances # {}
    /\ Len(launches) < MaxLaunches
    /\ \E marked \in SUBSET Markable(a), resolved \in SUBSET dirs[a].instances :
        launches' = Append(launches, [arm |-> a, ids |-> dirs[a].instances,
                                      marked |-> marked, resolved |-> resolved])
    /\ dirs' = [dirs EXCEPT ![a].results = Len(launches')]
    /\ running' = [running EXCEPT ![a] = [step |-> "predictions", launch |-> Len(launches')]]
    /\ complete' = [complete EXCEPT ![a] = Nothing]
    /\ UNCHANGED <<script, prepares, cwd>>

(* A worker that fails, or gives no prediction, ends the command with      *)
(* nothing written.                                                        *)
GenerationFails(a) ==
    /\ running[a] = IdleArm /\ dirs[a].instances # {}
    /\ complete' = [complete EXCEPT ![a] = Nothing]
    /\ UNCHANGED <<script, prepares, launches, dirs, cwd, running>>

Continue(a, step) == running' = [running EXCEPT ![a].step = step]

WriteLaunchPredictions(a) ==
    /\ running[a].step = "predictions"
    /\ dirs' = [dirs EXCEPT ![a].predictions = running[a].launch]
    /\ Continue(a, "grade")
    /\ UNCHANGED <<script, prepares, launches, cwd, complete>>

(* Whether the launch asks run_official_swebench for the probe.            *)
Probes(a) == script = "leak_control" \/ (script \in {"wrap_matrix", "head_to_head"} /\ a \in Gated)

(* The official grader writes its report where it is run.                  *)
GradeLaunch(a) ==
    /\ running[a].step = "grade"
    /\ \E graded \in BOOLEAN : cwd' = IF graded THEN cwd \union {running[a].launch} ELSE cwd
    /\ Continue(a, IF Probes(a) THEN "probe" ELSE "move")
    /\ UNCHANGED <<script, prepares, launches, dirs, complete>>

(* plan_ and run_contamination_probe_on_artifacts: without a report every  *)
(* prediction counts as resolved; the rows that are resolved and have a    *)
(* marker are flagged if it is in the patch.                               *)
ProbeRows(dir, report, markers) ==
    LET ids  == launches[dir.predictions].ids
        rows == IF report = Nothing THEN ids ELSE ids \intersect launches[report].resolved
    IN [resolved |-> rows,
        flagged  |-> rows \intersect markers \intersect launches[dir.predictions].marked]

(* The probe of the grading process: the report is not in the arm yet.     *)
Probe(a) ==
    /\ running[a].step = "probe"
    /\ LET probe == ProbeRows(dirs[a], dirs[a].report, dirs[a].markers)
       IN dirs' = [dirs EXCEPT ![a].probed = probe.resolved, ![a].flagged = probe.flagged]
    /\ Continue(a, "move")
    /\ UNCHANGED <<script, prepares, launches, cwd, complete>>

Finish(a) ==
    /\ running' = [running EXCEPT ![a] = IdleArm]
    /\ complete' = [complete EXCEPT ![a] =
                        IF dirs'[a].report = running[a].launch THEN running[a].launch ELSE Nothing]

(* Variant: a report that is already there is kept.                        *)
MoveReportOnce(a) ==
    /\ running[a].step = "move"
    /\ dirs' = IF running[a].launch \in cwd /\ dirs[a].report = Nothing
               THEN [dirs EXCEPT ![a].report = running[a].launch] ELSE dirs
    /\ cwd' = cwd \ {running[a].launch}
    /\ running' = [running EXCEPT ![a] = IdleArm]
    /\ complete' = [complete EXCEPT ![a] =
                        IF running[a].launch \in cwd THEN running[a].launch ELSE Nothing]
    /\ UNCHANGED <<script, prepares, launches>>

(* The report of this run id, if there is one, becomes the arm's.          *)
MoveReport(a) ==
    /\ running[a].step = "move"
    /\ dirs' = IF running[a].launch \in cwd THEN [dirs EXCEPT ![a].report = running[a].launch]
               ELSE dirs
    /\ cwd' = cwd \ {running[a].launch}
    /\ IF script = "leak_control" THEN Continue(a, "summarize") /\ UNCHANGED complete ELSE Finish(a)
    /\ UNCHANGED <<script, prepares, launches>>

(* Variant: with the fallback to the working directory everywhere.         *)
FindReportAnywhere(dir) ==
    IF dir.report # Nothing THEN {dir.report} ELSE IF cwd # {} THEN cwd ELSE {Nothing}

(* _find_report: the arm's report; the leak control matrix looks in the    *)
(* working directory when there is none.                                   *)
FindReport(dir) ==
    IF dir.report # Nothing THEN {dir.report}
    ELSE IF script = "leak_control" /\ cwd # {} THEN cwd
    ELSE {Nothing}

(* The arm after a probe with this report, which is copied to it.          *)
ProbedDir(dir, report) ==
    LET probe == ProbeRows(dir, report, dir.copied)
    IN [dir EXCEPT !.report = report, !.probed = probe.resolved, !.flagged = probe.flagged]

(* The end of a launch of the leak control matrix: the markers are copied  *)
(* next to the predictions and the arm is summarized.                      *)
SummarizeLaunch(a) ==
    /\ running[a].step = "summarize"
    /\ LET dir == [dirs[a] EXCEPT !.copied = dirs[a].markers]
       IN \E report \in FindReport(dir) : dirs' = [dirs EXCEPT ![a] = ProbedDir(dir, report)]
    /\ Finish(a)
    /\ UNCHANGED <<script, prepares, launches, cwd>>

(* Variant: a killed launch leaves a step of its own.                      *)
KillMarked(a) ==
    /\ running[a] # IdleArm
    /\ running' = [running EXCEPT ![a].step = "killed"]
    /\ UNCHANGED <<script, prepares, launches, dirs, cwd, complete>>

(* The generator, the grader or the script is killed.                      *)
KillLaunch(a) ==
    /\ running[a] # IdleArm
    /\ running' = [running EXCEPT ![a] = IdleArm]
    /\ UNCHANGED <<script, prepares, launches, dirs, cwd, complete>>

(* reuse: the arm's modal directory is removed, and a graded one of        *)
(* another experiment with the same instances is copied in its place.      *)
ReuseRemove(a) ==
    /\ script # "sealed_unsealed" /\ running[a] = IdleArm
    /\ dirs[a].instances # {} /\ dirs[a].predictions # Nothing
    /\ dirs' = [dirs EXCEPT ![a] = [EmptyDir EXCEPT !.instances = dirs[a].instances,
                                                  !.markers = dirs[a].markers]]
    /\ complete' = [complete EXCEPT ![a] = Nothing]
    /\ UNCHANGED <<script, prepares, launches, cwd, running>>

ReuseCopy(a) ==
    /\ script # "sealed_unsealed" /\ running[a] = IdleArm
    /\ dirs[a].instances # {} /\ dirs[a].predictions = Nothing /\ dirs[a].results = Nothing
    /\ Len(launches) < MaxLaunches
    /\ \E resolved \in SUBSET dirs[a].instances :
        launches' = Append(launches, [arm |-> a, ids |-> dirs[a].instances,
                                      marked |-> {}, resolved |-> resolved])
    /\ LET n == Len(launches') IN
        dirs' = [dirs EXCEPT ![a] =
            [@ EXCEPT !.results = n, !.predictions = n, !.report = n,
                      !.copied = IF script = "leak_control" THEN dirs[a].markers ELSE {}]]
    /\ UNCHANGED <<script, prepares, cwd, running, complete>>

(* summarize on one arm of the leak control matrix: the probe is run       *)
(* again, with markers copied only where there are none.                   *)
ProbeAgain(a) ==
    /\ script = "leak_control" /\ dirs[a].predictions # Nothing
    /\ LET dir == IF dirs[a].copied = {} THEN [dirs[a] EXCEPT !.copied = dirs[a].markers]
                  ELSE dirs[a]
       IN \E report \in FindReport(dir) : dirs' = [dirs EXCEPT ![a] = ProbedDir(dir, report)]
    /\ UNCHANGED <<script, prepares, launches, cwd, running, complete>>

(* summarize on one arm of the others: a report that is found becomes the  *)
(* arm's, and what the launch left of the probe is read.                   *)
SummarizeArm(a) ==
    /\ script # "leak_control" /\ dirs[a].predictions # Nothing
    /\ \E report \in FindReport(dirs[a]) : dirs' = [dirs EXCEPT ![a].report = report]
    /\ UNCHANGED <<script, prepares, launches, cwd, running, complete>>

ArmsNext ==
    \/ Prepare
    \/ \E a \in Arms :
        \/ StartLaunch(a) \/ GenerationFails(a) \/ WriteLaunchPredictions(a) \/ GradeLaunch(a) \/ Probe(a)
        \/ MoveReport(a) \/ SummarizeLaunch(a) \/ KillLaunch(a)
        \/ ReuseRemove(a) \/ ReuseCopy(a) \/ ProbeAgain(a) \/ SummarizeArm(a)

ArmsSpec == ArmsInit /\ [][ArmsNext]_armsVars
-----------------------------------------------------------------------------

(* After a launch that was graded and ran to its end, whatever was         *)
(* launched, killed or prepared before, the arm's generation, predictions  *)
(* and report are those of that launch, and in the leak control matrix so  *)
(* are the markers and the probe.                                          *)
CompleteArmAgrees ==
    \A a \in Arms : complete[a] # Nothing =>
        LET n == complete[a] IN
        /\ dirs[a].results = n /\ dirs[a].predictions = n /\ dirs[a].report = n
        /\ script = "leak_control" =>
            /\ launches[n].ids \subseteq dirs[a].copied
            /\ dirs[a].probed = launches[n].resolved
            /\ dirs[a].flagged = launches[n].resolved \intersect launches[n].marked

(* A report stays with its arm: outside the leak control matrix no arm is  *)
(* ever given the report of another one, or one of a launch later than its *)
(* predictions.                                                            *)
OwnReports ==
    script # "leak_control" =>
        \A a \in Arms : dirs[a].report # Nothing =>
            launches[dirs[a].report].arm = a /\ dirs[a].report <= dirs[a].predictions
=============================================================================
