-------------------------- MODULE CandidateMatrix --------------------------
(***************************************************************************)
(* Several candidate patches for each SWE-bench instance:                  *)
(* modal_lbah_swebench_tournament.py generates them,                       *)
(* write_swebench_candidate_matrix packages one column for each candidate, *)
(* the official grader is run on a column with the command packaged for    *)
(* it, and summarize_swebench_candidate_reports selects a candidate for    *)
(* each instance from whatever reports it is given.  The output directory  *)
(* is the same from one matrix to the next.                                *)
(***************************************************************************)
EXTENDS Naturals, Sequences, FiniteSets, SequencesExt

CONSTANTS
    Count,        \* the number of candidates
    Instances,
    MaxMatrices,  \* bound: matrices written to the directory
    MaxFaults     \* bound: jobs of a matrix that go wrong

ASSUME MatrixAssumption ==
    Count \in Nat \ {0} /\ IsFiniteSet(Instances) /\ MaxMatrices \in Nat /\ MaxFaults \in Nat

Candidates == 1..Count

(* How a worker ends: with a prediction, with one and a return code that   *)
(* is not 0, or with none.                                                 *)
Jobs == [Candidates \X Instances -> {"predicted", "late", "none"}]

(* The official statuses, an error being one of error, empty patch and     *)
(* incomplete; and the one of an instance no report is about.              *)
Verdicts == {"resolved", "unresolved", "error"}

VARIABLES
    matrices,     \* the jobs of each matrix and whether it was strict
    results,      \* the matrix candidate_generation_results.json is about
    predictions,  \* for each candidate, that of its predictions.jsonl
    instanceIds,  \* that of its instance_ids.txt
    commands,     \* that of its run_evaluation_command.json
    subsets,      \* that of its subset manifests, the files of one call
    manifest,     \* that of candidate_matrix_manifest.json
    reports,      \* the last official report of each candidate
    writing,      \* the next file of the matrix being written
    torn          \* a matrix was killed and none was finished since

files == <<predictions, instanceIds, commands, subsets>>
vars == <<matrices, results, files, manifest, reports, writing, torn>>

Idle == 0
LastWrite == 4 * Count + 1
Numbers == 0..Len(matrices)
NoReport == [matrix |-> 0, verdicts |-> << >>]

TypeOK ==
    /\ matrices \in Seq([jobs : Jobs, strict : BOOLEAN]) /\ Len(matrices) <= MaxMatrices
    /\ results = Len(matrices) /\ manifest \in Numbers
    /\ predictions \in [Candidates -> Numbers] /\ instanceIds \in [Candidates -> Numbers]
    /\ commands \in [Candidates -> Numbers] /\ subsets \in [Candidates -> Numbers]
    /\ \A c \in Candidates :
        /\ reports[c].matrix \in 0..predictions[c]
        /\ DOMAIN reports[c].verdicts \subseteq Instances
        /\ Range(reports[c].verdicts) \subseteq Verdicts
    /\ writing \in 0..LastWrite /\ torn \in BOOLEAN

Init ==
    /\ matrices = << >> /\ results = 0 /\ manifest = 0
    /\ predictions = [c \in Candidates |-> 0] /\ instanceIds = [c \in Candidates |-> 0]
    /\ commands = [c \in Candidates |-> 0] /\ subsets = [c \in Candidates |-> 0]
    /\ reports = [c \in Candidates |-> NoReport]
    /\ writing = Idle /\ torn = FALSE
-----------------------------------------------------------------------------

(* _group_prediction_lines: the instances a candidate has a prediction     *)
(* for, whatever the return code.                                          *)
Lines(matrix, c) == {i \in Instances : matrix.jobs[<<c, i>>] # "none"}

(* _failed_generation_keys and _missing_prediction_keys.                   *)
Failed(matrix)  == {job \in Candidates \X Instances : matrix.jobs[job] # "predicted"}
Missing(matrix) == {job \in Candidates \X Instances : job[2] \notin Lines(matrix, job[1])}

(* Variant: only what is missing makes a strict matrix incomplete.         *)
RefusedIfMissing(matrix) == matrix.strict /\ Missing(matrix) # {}

Refused(matrix) == matrix.strict /\ (Failed(matrix) # {} \/ Missing(matrix) # {})

(* Variant: the results of a refused matrix are not written.               *)
StartMatrixRefusedFirst ==
    /\ writing = Idle /\ Len(matrices) < MaxMatrices
    /\ \E jobs \in Jobs, strict \in BOOLEAN :
        LET matrix == [jobs |-> jobs, strict |-> strict] IN
        /\ Cardinality(Failed(matrix)) <= MaxFaults
        /\ matrices' = Append(matrices, matrix)
        /\ writing' = IF Refused(matrix) THEN Idle ELSE 1
        /\ results' = IF Refused(matrix) THEN results ELSE Len(matrices')
    /\ UNCHANGED <<files, manifest, reports, torn>>

(* All jobs have ended and none has raised.  A strict matrix that is       *)
(* incomplete is refused with nothing but the results written.             *)
StartMatrix ==
    /\ writing = Idle /\ Len(matrices) < MaxMatrices
    /\ \E jobs \in Jobs, strict \in BOOLEAN :
        LET matrix == [jobs |-> jobs, strict |-> strict] IN
        /\ Cardinality(Failed(matrix)) <= MaxFaults
        /\ matrices' = Append(matrices, matrix)
        /\ writing' = IF Refused(matrix) THEN Idle ELSE 1
    /\ results' = Len(matrices')
    /\ UNCHANGED <<files, manifest, reports, torn>>

(* The four writes of each candidate, in the order of its loop.  The       *)
(* command names the instances itself: nothing reads instance_ids.txt.     *)
Turn(c) == 4 * c - 3

WritePredictions(c) ==
    /\ writing = Turn(c)
    /\ predictions' = [predictions EXCEPT ![c] = results]
    /\ writing' = writing + 1
    /\ UNCHANGED <<matrices, results, instanceIds, commands, subsets, manifest, reports, torn>>

WriteInstanceIds(c) ==
    /\ writing = Turn(c) + 1
    /\ instanceIds' = [instanceIds EXCEPT ![c] = results]
    /\ writing' = writing + 1
    /\ UNCHANGED <<matrices, results, predictions, commands, subsets, manifest, reports, torn>>

WriteCommand(c) ==
    /\ writing = Turn(c) + 2
    /\ commands' = [commands EXCEPT ![c] = results]
    /\ writing' = writing + 1
    /\ UNCHANGED <<matrices, results, predictions, instanceIds, subsets, manifest, reports, torn>>

WriteSubsets(c) ==
    /\ writing = Turn(c) + 3
    /\ subsets' = [subsets EXCEPT ![c] = results]
    /\ writing' = writing + 1
    /\ UNCHANGED <<matrices, results, predictions, instanceIds, commands, manifest, reports, torn>>

(* Variant: the manifest is written before the last candidate's files.     *)
WriteManifestEarly ==
    /\ writing \in {Turn(Count), LastWrite}
    /\ manifest' = results
    /\ writing' = IF writing = LastWrite THEN Idle ELSE writing
    /\ torn' = (torn /\ writing # LastWrite)
    /\ UNCHANGED <<matrices, results, files, reports>>

WriteManifest ==
    /\ writing = LastWrite
    /\ manifest' = results
    /\ writing' = Idle /\ torn' = FALSE
    /\ UNCHANGED <<matrices, results, files, reports>>

Kill ==
    /\ writing # Idle
    /\ writing' = Idle /\ torn' = TRUE
    /\ UNCHANGED <<matrices, results, files, manifest, reports>>

(* The grader takes the instances from the command and their patches from  *)
(* the predictions, and replaces the report of this run id.                *)
Grade(c) ==
    /\ commands[c] # 0
    /\ \E verdicts \in [Lines(matrices[commands[c]], c) \intersect Lines(matrices[predictions[c]], c)
                            -> Verdicts] :
        reports' = [reports EXCEPT ![c] = [matrix |-> predictions[c], verdicts |-> verdicts]]
    /\ UNCHANGED <<matrices, results, files, manifest, writing, torn>>

Next ==
    \/ StartMatrix \/ WriteManifest \/ Kill
    \/ \E c \in Candidates :
        \/ WritePredictions(c) \/ WriteInstanceIds(c) \/ WriteCommand(c) \/ WriteSubsets(c)
        \/ Grade(c)

Spec == Init /\ [][Next]_vars
-----------------------------------------------------------------------------

(* summarize_swebench_candidate_reports, given the reports of the          *)
(* candidates in given.  It changes nothing but the summary file, which    *)
(* nothing reads.                                                          *)

(* Variant: a candidate without a report counts as unresolved.             *)
StatusUnresolved(given, c, i) ==
    IF c \notin given THEN "unresolved"
    ELSE IF i \in DOMAIN reports[c].verdicts THEN reports[c].verdicts[i] ELSE "missing"

Status(given, c, i) ==
    IF c \in given /\ i \in DOMAIN reports[c].verdicts THEN reports[c].verdicts[i] ELSE "missing"

StatusOrder == <<"resolved", "unresolved", "error", "missing">>

WithStatus(given, i, status) == {c \in Candidates : Status(given, c, i) = status}

(* Variant: the first candidate that is not missing is selected.           *)
OutcomeFirst(given, i) ==
    LET known == Candidates \ WithStatus(given, i, "missing")
        first == IF known = {} THEN 1 ELSE CHOOSE c \in known : \A d \in known : c <= d
    IN [selected |-> first, status |-> Status(given, first, i)]

(* The selected status is the first of the order that some candidate has,  *)
(* and the selected candidate the first that has it.  The instances the    *)
(* summary counts as resolved are those with the outcome "resolved".       *)
Outcome(given, i) ==
    LET best == CHOOSE k \in 1..4 :
                    /\ WithStatus(given, i, StatusOrder[k]) # {}
                    /\ \A j \in 1..(k - 1) : WithStatus(given, i, StatusOrder[j]) = {}
        having == WithStatus(given, i, StatusOrder[best])
    IN [selected |-> CHOOSE c \in having : \A d \in having : c <= d,
        status |-> StatusOrder[best]]

Reported == {c \in Candidates : reports[c].matrix # 0}
-----------------------------------------------------------------------------

(* The manifest is written last: no file it names is ever older than it,   *)
(* wherever a matrix is killed, and but for a killed one all of them are   *)
(* of the same matrix.  A strict matrix that is refused after it changes   *)
(* none of them.                                                           *)
ManifestIsLast ==
    /\ \A c \in Candidates :
        /\ manifest <= subsets[c] /\ subsets[c] <= commands[c]
        /\ commands[c] <= instanceIds[c] /\ instanceIds[c] <= predictions[c]
    /\ writing = Idle /\ ~torn =>
        \A c \in Candidates :
            {predictions[c], instanceIds[c], commands[c], subsets[c]} = {manifest}

(* A strict manifest promises a prediction of a generation that succeeded  *)
(* for every candidate and instance, whatever was written before it.       *)
StrictIsComplete ==
    manifest # 0 /\ matrices[manifest].strict =>
        \A c \in Candidates, i \in Instances : matrices[manifest].jobs[<<c, i>>] = "predicted"

(* What a reader of the manifest may rely on.                              *)
ManifestIsSound == ManifestIsLast /\ StrictIsComplete

(* Reports of the manifest's own matrix: a selected candidate has          *)
(* submitted a prediction for the instance, and an instance no candidate   *)
(* resolved is never counted as resolved.                                  *)
SelectedWasPredicted ==
    manifest # 0 =>
      \A given \in SUBSET {c \in Reported : reports[c].matrix = manifest} : \A i \in Instances :
        LET outcome == Outcome(given, i) IN
        outcome.status # "missing" =>
            /\ outcome.selected \in given
            /\ i \in Lines(matrices[manifest], outcome.selected)

(* One more report never makes the summary worse: no resolved instance is  *)
(* lost, and no selected status steps back in the order, that of an        *)
(* instance with an error to a missing one included.                       *)
MoreReportsNoWorse ==
    \A given \in SUBSET Reported : \A more \in SUBSET given : \A i \in Instances :
        LET before == Outcome(more, i).status
            after == Outcome(given, i).status
        IN \A k \in 1..4 :
            before = StatusOrder[k] => \E j \in 1..k : after = StatusOrder[j]

(* What a reader of the summary may rely on.                               *)
SelectionIsSound == SelectedWasPredicted /\ MoreReportsNoWorse
=============================================================================
