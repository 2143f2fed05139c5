-------------------------- MODULE SweBenchEval_proofs --------------------------
(***************************************************************************)
(* Theorems about SweBenchEval, for any suite, agent and tests, with       *)
(* processes killed at any step and started again any number of times.     *)
(*                                                                         *)
(* None of the invariants is inductive.  EInv says besides what the        *)
(* working copy of the instance at hand is at every step of its            *)
(* preparation (Prepared), what the tests have shown of it so far (Tested) *)
(* and which files are of this process already (Saved).                    *)
(***************************************************************************)
EXTENDS SweBenchEval, TLAPS

Outcome == [id : Ids, kind : FailureKinds, coding : CodingRuns]

Rows == [attempt : Nat, rows : Seq([id : Ids, patch : SUBSET Paths])]

OutputFiles == [evaluations : [Ids -> Nat], codingRuns : [Ids -> Nat],
                runs : Nat, summary : Nat, predictions : Rows]

Typed ==
    /\ pc \in Steps \union {"artifacts", "coding_run", "suite", "summary", "predictions",
                            "done", "killed"}
    /\ attempt \in 1..MaxAttempts /\ (pc = "killed" => attempt < MaxAttempts)
    /\ opts \in OptionChoices
    /\ DOMAIN copies \subseteq Ids /\ copies \in [DOMAIN copies -> Copies]
    /\ allowed \subseteq Paths /\ start \in Copies /\ coding \in CodingRuns
    /\ passed \subseteq {"fail_to_pass", "pass_to_pass"}
    /\ results \in Seq(Outcome) /\ files \in OutputFiles

(* The steps between an instance's preparation and its result.             *)
AtWork == Steps \ {"prepare"}

(* The results are of the first instances of the suite, in its order.      *)
Placed ==
    /\ Len(results) <= Len(Suite)
    /\ \A k \in DOMAIN results : results[k].id = Suite[k]
    /\ pc \in AtWork => Len(results) < Len(Suite)
    /\ pc \in {"artifacts", "coding_run"} => results # << >>
    /\ pc \in {"suite", "summary", "predictions", "done"} => Len(results) = Len(Suite)
    /\ pc = "killed" => results = << >>

TestsOf(id)   == IF id \in Patched THEN "new" ELSE "old"
CarrierOf(id) == IF id \in Leaky THEN "leak" ELSE None

(* The working copy, step by step.                                         *)
Prepared ==
    /\ pc \in AtWork \ {"checkout"} => Current \in DOMAIN copies
    /\ pc = "test_patch" => copies[Current] = Clone
    /\ pc = "plant" => copies[Current] = [Clone EXCEPT !.tests = TestsOf(Current)]
    /\ pc \in {"seal", "commit"} => opts.seal
    /\ pc \in {"seal", "commit", "task", "run"} =>
        \E git \in {"history", "wiped", "single"} :
            /\ copies[Current] = [source |-> "base", tests |-> TestsOf(Current),
                                  carrier |-> CarrierOf(Current), git |-> git]
            /\ pc \in {"task", "run"} => git = IF opts.seal THEN "single" ELSE "history"
    /\ pc = "run" => start = copies[Current]

(* What the tests that passed so far have been run on.                     *)
Tested ==
    /\ pc \in {"checkout", "test_patch", "plant", "seal", "commit", "task", "run",
               "fail_to_pass"} => passed = {}
    /\ pc = "fail_to_pass" => copies[Current] = coding.tree
    /\ pc = "pass_to_pass" =>
        /\ passed \subseteq {"fail_to_pass"}
        /\ "fail_to_pass" \in passed => <<TRUE, copies[Current]>> \in FailToPass[Current][coding.tree]
    /\ pc = "classify" /\ "fail_to_pass" \in passed =>
        \E w \in Copies :
            /\ <<TRUE, w>> \in FailToPass[Current][coding.tree]
            /\ "pass_to_pass" \in passed => \E v \in Copies : <<TRUE, v>> \in PassToPass[Current][w]
    /\ coding.ran => coding.patch = coding.wrote

(* The files of this process.                                              *)
Saved ==
    /\ files.predictions.attempt <= files.summary /\ files.summary <= files.runs
    /\ files.runs <= attempt
    /\ \A id \in Ids : /\ files.runs <= files.evaluations[id]
                       /\ files.codingRuns[id] <= files.evaluations[id]
                       /\ files.evaluations[id] <= attempt
    /\ \A k \in DOMAIN results :
        k < Len(results) \/ pc # "artifacts" => files.evaluations[results[k].id] = attempt
    /\ pc \in {"summary", "predictions", "done"} => files.runs = attempt
    /\ pc \in {"predictions", "done"} => files.summary = attempt
    /\ pc = "done" => EveryPatchSubmitted

EInv == Typed /\ Placed /\ Prepared /\ Tested /\ ResultsAreSound /\ Saved
-----------------------------------------------------------------------------

(* The instance at hand is one of the suite.                               *)
LEMMA SuiteLemma ==
    /\ Len(Suite) \in Nat /\ Suite \in [1..Len(Suite) -> Ids]
    /\ Typed /\ Len(results) < Len(Suite) =>
            Current \in Ids /\ Len(results) + 1 \in 1..Len(Suite)
BY SweBenchAssumption DEF Ids, Typed, Current

(* A result is appended behind those of the earlier instances.             *)
LEMMA AppendLemma ==
    ASSUME NEW S, NEW s \in Seq(S), NEW e \in S
    PROVE  /\ Append(s, e) \in Seq(S) /\ Len(Append(s, e)) = Len(s) + 1 /\ Len(s) \in Nat
           /\ DOMAIN s = 1..Len(s) /\ DOMAIN Append(s, e) = 1..(Len(s) + 1)
           /\ \A k \in 1..Len(s) : Append(s, e)[k] = s[k]
           /\ Append(s, e)[Len(s) + 1] = e
OBVIOUS

LEMMA CloneLemma ==
    /\ Clone \in Copies
    /\ \A id : TestsOf(id) \in {"old", "new"} /\ CarrierOf(id) \in {None, "leak", "edited"}
    /\ NoRun \in CodingRuns
BY SweBenchAssumption DEF Clone, Copies, TestsOf, CarrierOf, None, NoRun, CodingRuns, Paths

LEMMA InitInv == Init => EInv
<1> SUFFICES ASSUME Init PROVE EInv
  OBVIOUS
<1> USE SweBenchAssumption DEF Init
<1>1. Typed
  BY CloneLemma DEF Typed, OutputFiles, Rows, Steps
<1>2. Placed
  BY SuiteLemma DEF Placed, AtWork, Steps
<1>3. Prepared /\ Tested
  BY DEF Prepared, Tested, AtWork, Steps, NoRun
<1>4. ResultsAreSound
  BY DEF ResultsAreSound, SolvedOnReportedTree, PatchIsAgentsWork
<1>5. Saved
  BY DEF Saved
<1> QED
  BY <1>1, <1>2, <1>3, <1>4, <1>5 DEF EInv

(* A step of the work on an instance leaves the results and the files.     *)
LEMMA WorkLemma ==
    ASSUME EInv, pc \in Steps, Len(results) < Len(Suite), pc' \in AtWork,
           UNCHANGED <<attempt, opts, results, files>>
    PROVE  Placed' /\ ResultsAreSound' /\ Saved' /\ Current' = Current
<1>1. Placed'
  BY DEF EInv, Placed, AtWork, Steps
<1>2. ResultsAreSound'
  BY DEF EInv, ResultsAreSound, SolvedOnReportedTree, PatchIsAgentsWork
<1>3. Saved'
  BY DEF EInv, Saved, AtWork, Steps
<1> QED
  BY <1>1, <1>2, <1>3 DEF Current

LEMMA LastLemma ==
    Typed =>
        /\ \A k \in DOMAIN results :
            /\ k \in 1..Len(results) /\ results[k] \in Outcome
            /\ results[k].id \in Ids /\ results[k].coding \in CodingRuns
        /\ results # << >> =>
            Len(results) \in DOMAIN results /\ Last = results[Len(results)] /\ Last \in Outcome
<1>1. Typed => \A k \in DOMAIN results : k \in 1..Len(results) /\ results[k] \in Outcome
  BY DEF Typed
<1>2. \A r \in Outcome : r.id \in Ids /\ r.coding \in CodingRuns
  BY DEF Outcome
<1> QED
  BY <1>1, <1>2 DEF Typed, Last

(* A step that writes a file leaves the work, which is done.               *)
LEMMA FilesLemma ==
    ASSUME EInv, pc \notin Steps, pc' \in {"prepare", "coding_run", "suite", "summary", "predictions", "done"},
           files' \in OutputFiles,
           UNCHANGED <<attempt, opts, copies, allowed, start, coding, passed, results>>
    PROVE  Typed' /\ Prepared' /\ Tested' /\ ResultsAreSound'
<1>1. Typed'
  BY DEF EInv, Typed, Steps
<1>2. Prepared' /\ Tested'
  BY DEF EInv, Prepared, Tested, AtWork, Steps
<1>3. ResultsAreSound'
  BY DEF EInv, ResultsAreSound, SolvedOnReportedTree, PatchIsAgentsWork
<1> QED
  BY <1>1, <1>2, <1>3

LEMMA WriteSummaryInv == ASSUME EInv, WriteSummary PROVE EInv'
<1>1. pc = "summary" /\ pc' = "predictions" /\ files' = [files EXCEPT !.summary = attempt]
      /\ attempt \in Nat /\ UNCHANGED <<attempt, opts, copies, allowed, start, coding, passed, results>>
  BY SweBenchAssumption DEF WriteSummary, EInv, Typed
<1>2. files' \in OutputFiles
  BY <1>1 DEF EInv, Typed, OutputFiles
<1>3. Placed'
  BY <1>1 DEF EInv, Placed, AtWork, Steps
<1>4. Saved'
  BY <1>1, <1>2 DEF EInv, Typed, OutputFiles, Rows, Saved
<1> QED
  BY <1>1, <1>2, <1>3, <1>4, FilesLemma DEF EInv, Steps

LEMMA WriteRunsInv == ASSUME EInv, WriteRuns PROVE EInv'
<1>1. pc = "suite" /\ pc' = "summary" /\ files' = [files EXCEPT !.runs = attempt]
      /\ attempt \in Nat /\ UNCHANGED <<attempt, opts, copies, allowed, start, coding, passed, results>>
  BY SweBenchAssumption DEF WriteRuns, EInv, Typed
<1>2. files' \in OutputFiles
  BY <1>1 DEF EInv, Typed, OutputFiles
<1>3. Placed'
  BY <1>1 DEF EInv, Placed, AtWork, Steps
<1>4. \A id \in Ids : files.evaluations[id] = attempt
  <2>1. DOMAIN results = DOMAIN Suite
    BY <1>1, SweBenchAssumption DEF EInv, Placed, Typed
  <2>2. \A k \in DOMAIN results : results[k].id = Suite[k] /\ files.evaluations[results[k].id] = attempt
    BY <1>1 DEF EInv, Placed, Saved
  <2> QED
    BY <2>1, <2>2 DEF Ids
<1>5. Saved'
  BY <1>1, <1>2, <1>4 DEF EInv, Typed, OutputFiles, Rows, Saved
<1> QED
  BY <1>1, <1>2, <1>3, <1>5, FilesLemma DEF EInv, Steps

LEMMA WriteEvaluationInv == ASSUME EInv, WriteEvaluation PROVE EInv'
<1>1. pc = "artifacts" /\ pc' = "coding_run" /\ files' = [files EXCEPT !.evaluations[Last.id] = attempt]
      /\ attempt \in Nat /\ UNCHANGED <<attempt, opts, copies, allowed, start, coding, passed, results>>
  BY SweBenchAssumption DEF WriteEvaluation, EInv, Typed
<1>2. results # << >> /\ Len(results) \in DOMAIN results /\ Last = results[Len(results)] /\ Last.id \in Ids
  BY <1>1, LastLemma DEF EInv, Placed, Outcome
<1>3. files' \in OutputFiles
  BY <1>1, <1>2 DEF EInv, Typed, OutputFiles
<1>4. Placed'
  BY <1>1 DEF EInv, Placed, AtWork, Steps
<1>5. files' = [files EXCEPT !.evaluations = files'.evaluations]
      /\ \A id \in Ids : files'.evaluations[id] = IF id = Last.id THEN attempt ELSE files.evaluations[id]
  BY <1>1, <1>2 DEF EInv, Typed, OutputFiles
<1>6. \A k \in DOMAIN results : results[k].id \in Ids /\ (k < Len(results) \/ k = Len(results))
  BY LastLemma, Len(results) \in Nat DEF EInv, Typed
<1>7. /\ files'.runs = files.runs /\ files'.summary = files.summary
      /\ files'.predictions = files.predictions /\ files'.codingRuns = files.codingRuns
      /\ files.runs \in Nat /\ files.runs <= attempt
      /\ \A id \in Ids : files.runs <= files.evaluations[id] /\ files.evaluations[id] <= attempt
                        /\ files.codingRuns[id] <= files.evaluations[id]
                        /\ files.evaluations[id] \in Nat /\ files.codingRuns[id] \in Nat
  BY <1>5 DEF EInv, Typed, OutputFiles, Saved
<1>8. Saved'
  <2>1. \A id \in Ids : /\ files'.runs <= files'.evaluations[id]
                        /\ files'.codingRuns[id] <= files'.evaluations[id]
                        /\ files'.evaluations[id] <= attempt'
    BY <1>1, <1>5, <1>7
  <2>2. \A k \in DOMAIN results' : files'.evaluations[results'[k].id] = attempt'
    BY <1>1, <1>2, <1>5, <1>6 DEF EInv, Saved
  <2> QED
    BY <1>1, <1>7, <2>1, <2>2 DEF EInv, Saved
<1> QED
  BY <1>1, <1>3, <1>4, <1>8, FilesLemma DEF EInv, Steps

LEMMA WriteCodingRunInv == ASSUME EInv, WriteCodingRun PROVE EInv'
<1>1. pc = "coding_run" /\ pc' \in {"prepare", "suite"}
      /\ files' = (IF ~Last.coding.ran THEN files ELSE [files EXCEPT !.codingRuns[Last.id] = attempt])
      /\ pc' = (IF Len(results) < Len(Suite) THEN "prepare" ELSE "suite")
      /\ attempt \in Nat /\ UNCHANGED <<attempt, opts, copies, allowed, start, coding, passed, results>>
  BY SweBenchAssumption DEF WriteCodingRun, EInv, Typed
<1>2. results # << >> /\ Len(results) \in DOMAIN results /\ Last = results[Len(results)] /\ Last.id \in Ids
  BY <1>1, LastLemma DEF EInv, Placed, Outcome
<1>3. files' \in OutputFiles
  BY <1>1, <1>2 DEF EInv, Typed, OutputFiles
<1>4. Placed'
  BY <1>1, SuiteLemma DEF EInv, Typed, Placed, AtWork, Steps
<1>5. Saved'
  BY <1>1, <1>2, <1>3, SMTT(30) DEF EInv, Typed, OutputFiles, Rows, Saved, Last, Outcome
<1> QED
  BY <1>1, <1>3, <1>4, <1>5, FilesLemma DEF EInv, Steps

LEMMA WritePredictionsInv == ASSUME EInv, WritePredictions PROVE EInv'
<1> DEFINE rows == [k \in DOMAIN results |-> Prediction(results[k])]
<1>1. pc = "predictions" /\ pc' = "done"
      /\ files' = [files EXCEPT !.predictions = [attempt |-> attempt, rows |-> rows]]
      /\ attempt \in Nat /\ UNCHANGED <<attempt, opts, copies, allowed, start, coding, passed, results>>
  BY SweBenchAssumption DEF WritePredictions, EInv, Typed
<1>2. DOMAIN results = 1..Len(results) /\ Len(results) \in Nat /\ Len(results) = Len(Suite)
      /\ DOMAIN Suite = 1..Len(Suite)
  BY <1>1, SweBenchAssumption DEF EInv, Placed, Typed
<1>3. rows \in Seq([id : Ids, patch : SUBSET Paths]) /\ Len(rows) = Len(results)
      /\ \A k \in DOMAIN results : rows[k] = Prediction(results[k])
  <2>1. \A k \in DOMAIN results : Prediction(results[k]) \in [id : Ids, patch : SUBSET Paths]
    <3>1. \A k \in DOMAIN results : results[k] \in Outcome
      BY DEF EInv, Typed
    <3> QED
      BY <3>1 DEF Outcome, CodingRuns, Prediction
  <2> QED
    BY <1>2, <2>1
<1> HIDE DEF rows
<1>4. files' \in OutputFiles /\ files'.predictions = [attempt |-> attempt, rows |-> rows]
  BY <1>1, <1>3 DEF EInv, Typed, OutputFiles, Rows
<1>5. Placed'
  BY <1>1 DEF EInv, Placed, AtWork, Steps
<1>6. EveryPatchSubmitted'
  <2>1. \A k \in DOMAIN Suite : rows[k].id = Suite[k] /\ rows[k].patch = results[k].coding.patch
    <3>1. \A r : Prediction(r).id = r.id /\ Prediction(r).patch = r.coding.patch
      BY DEF Prediction
    <3> QED
      BY <1>2, <1>3, <3>1 DEF EInv, Placed
  <2> QED
    BY <1>1, <1>2, <1>3, <1>4, <2>1 DEF EveryPatchSubmitted
<1>7. Saved'
  BY <1>1, <1>4, <1>6 DEF EInv, Typed, OutputFiles, Rows, Saved
<1> QED
  BY <1>1, <1>4, <1>5, <1>7, FilesLemma DEF EInv, Steps

(* Killed, the process leaves its files and working copies.                *)
LEMMA KillInv == ASSUME EInv, Kill PROVE EInv'
<1>1. pc # "killed" /\ attempt < MaxAttempts /\ pc' = "killed" /\ results' = << >> /\ coding' = NoRun
      /\ passed' = {} /\ allowed' = {} /\ start' = Clone /\ UNCHANGED <<attempt, opts, copies, files>>
  BY DEF Kill
<1>2. Typed'
  BY <1>1, CloneLemma DEF EInv, Typed, Steps
<1>3. Placed'
  BY <1>1, SuiteLemma DEF EInv, Placed, AtWork, Steps
<1>4. Prepared' /\ Tested'
  BY <1>1 DEF Prepared, Tested, AtWork, Steps, NoRun
<1>5. ResultsAreSound'
  BY <1>1 DEF ResultsAreSound, SolvedOnReportedTree, PatchIsAgentsWork
<1>6. Saved'
  BY <1>1 DEF EInv, Saved
<1> QED
  BY <1>2, <1>3, <1>4, <1>5, <1>6 DEF EInv

LEMMA RestartInv == ASSUME EInv, Restart PROVE EInv'
<1>1. pc = "killed" /\ attempt' = attempt + 1 /\ opts' \in OptionChoices /\ pc' = "prepare"
      /\ results = << >> /\ attempt \in Nat
      /\ UNCHANGED <<copies, allowed, start, coding, passed, results, files>>
  BY SweBenchAssumption DEF Restart, EInv, Typed, Placed
<1>2. Typed'
  BY <1>1, SweBenchAssumption DEF EInv, Typed, Steps
<1>3. Placed'
  BY <1>1 DEF EInv, Placed, AtWork, Steps
<1>4. Prepared' /\ Tested'
  BY <1>1 DEF EInv, Prepared, Tested, AtWork, Steps
<1>5. ResultsAreSound'
  BY <1>1 DEF ResultsAreSound, SolvedOnReportedTree, PatchIsAgentsWork
<1>6. Saved'
  BY <1>1 DEF EInv, Typed, OutputFiles, Rows, Saved
<1> QED
  BY <1>2, <1>3, <1>4, <1>5, <1>6 DEF EInv

(* However an instance ends, its result joins the earlier ones.            *)
LEMMA EndInstanceLemma ==
    ASSUME EInv, pc \in AtWork, NEW kind \in FailureKinds, EndInstance(kind),
           kind = "success" =>
                /\ coding.success /\ coding.patch # {}
                /\ \E w \in Copies :
                    /\ <<TRUE, w>> \in FailToPass[Current][coding.tree]
                    /\ opts.p2p => \E v \in Copies : <<TRUE, v>> \in PassToPass[Current][w]
    PROVE  EInv'
<1>1. results' = Append(results, Result(kind)) /\ pc' = "artifacts"
      /\ UNCHANGED <<attempt, opts, copies, allowed, start, coding, passed, files>>
  BY DEF EndInstance
<1>2. Len(results) < Len(Suite) /\ Current \in Ids /\ Len(Suite) \in Nat
      /\ DOMAIN results = 1..Len(results) /\ Len(results) \in Nat
  BY SuiteLemma DEF EInv, Placed, Typed
<1>3. Result(kind) = [id |-> Current, kind |-> kind, coding |-> coding] /\ Result(kind) \in Outcome
  BY <1>2 DEF Result, Outcome, EInv, Typed
<1>4. /\ results' \in Seq(Outcome) /\ Len(results') = Len(results) + 1
      /\ DOMAIN results' = 1..(Len(results) + 1)
      /\ \A k \in 1..Len(results) : results'[k] = results[k]
      /\ results'[Len(results) + 1] = Result(kind)
  BY <1>1, <1>3, AppendLemma DEF EInv, Typed
<1>5. \A k \in DOMAIN results' : k \in DOMAIN results \/ k = Len(results) + 1
  BY <1>2, <1>4
<1>6. Typed'
  BY <1>1, <1>4 DEF EInv, Typed
<1>7. Placed'
  BY <1>1, <1>2, <1>3, <1>4, <1>5 DEF EInv, Placed, Current, AtWork, Steps
<1>8. Prepared' /\ Tested'
  BY <1>1 DEF EInv, Prepared, Tested, AtWork, Steps
<1>9. SolvedOnReportedTree'
  <2> DEFINE Solved(r) ==
        /\ r.coding.success /\ r.coding.patch # {}
        /\ \E w \in Copies :
            /\ <<TRUE, w>> \in FailToPass[r.id][r.coding.tree]
            /\ opts.p2p => \E v \in Copies : <<TRUE, v>> \in PassToPass[r.id][w]
  <2>1. \A k \in DOMAIN results : results[k].kind = "success" => Solved(results[k])
    BY DEF EInv, ResultsAreSound, SolvedOnReportedTree
  <2>2. Result(kind).kind = "success" => Solved(Result(kind))
    <3>1. Result(kind).id = Current /\ Result(kind).kind = kind /\ Result(kind).coding = coding
      BY DEF Result
    <3> QED
      BY <3>1
  <2> HIDE DEF Solved
  <2>3. \A k \in DOMAIN results' : results'[k].kind = "success" => Solved(results'[k])
    BY <1>2, <1>4, <1>5, <2>1, <2>2
  <2> QED
    BY <1>1, <2>3 DEF SolvedOnReportedTree, Solved
<1>10. PatchIsAgentsWork'
  BY <1>1, <1>2, <1>3, <1>4, <1>5 DEF EInv, Tested, ResultsAreSound, PatchIsAgentsWork
<1>11. Saved'
  BY <1>1, <1>2, <1>4, <1>5 DEF EInv, Saved, AtWork, Steps
<1> QED
  BY <1>6, <1>7, <1>8, <1>9, <1>10, <1>11 DEF EInv, ResultsAreSound

(* Whatever fails in the preparation or raises, the instance ends.         *)
LEMMA EndsInv ==
    ASSUME EInv, CheckoutFails \/ TestPatchFails \/ CommitFails \/ StepRaises
    PROVE  EInv'
<1>1. pc \in AtWork
  BY DEF CheckoutFails, TestPatchFails, CommitFails, StepRaises, AtWork, Steps
<1>2. \E kind \in FailureKinds : kind # "success" /\ EndInstance(kind)
  BY DEF CheckoutFails, TestPatchFails, CommitFails, StepRaises, FailureKinds
<1> QED
  BY <1>1, <1>2, EndInstanceLemma

LEMMA ClassifyInv == ASSUME EInv, Classify PROVE EInv'
<1>1. pc = "classify" /\ pc \in AtWork
  BY DEF Classify, AtWork, Steps
<1>2. PICK kind \in FailureKinds :
        /\ EndInstance(kind)
        /\ kind = "success" =>
            /\ coding.patch # {} /\ coding.success /\ "fail_to_pass" \in passed
            /\ opts.p2p => "pass_to_pass" \in passed
  BY DEF Classify, FailureKinds
<1>3. kind = "success" =>
        \E w \in Copies :
            /\ <<TRUE, w>> \in FailToPass[Current][coding.tree]
            /\ opts.p2p => \E v \in Copies : <<TRUE, v>> \in PassToPass[Current][w]
  BY <1>1, <1>2 DEF EInv, Tested
<1> QED
  BY <1>1, <1>2, <1>3, EndInstanceLemma

(* The instance at hand has one working copy, which one step changes.      *)
LEMMA CopiesLemma ==
    ASSUME EInv, pc \in AtWork, pc # "checkout", NEW w \in Copies,
           copies' = [copies EXCEPT ![Current] = w]
    PROVE  /\ Current \in DOMAIN copies /\ copies[Current] \in Copies
           /\ DOMAIN copies' = DOMAIN copies /\ copies' \in [DOMAIN copies -> Copies]
           /\ copies'[Current] = w
BY DEF EInv, Typed, Prepared

LEMMA PrepareInv == ASSUME EInv, Prepare PROVE EInv'
<1>1. /\ pc = "prepare" /\ pc' = "checkout" /\ Len(results) < Len(Suite)
      /\ coding' = NoRun /\ passed' = {}
      /\ UNCHANGED <<attempt, opts, allowed, start, results, files>>
  BY DEF Prepare
<1>2. DOMAIN copies' \subseteq Ids /\ copies' \in [DOMAIN copies' -> Copies]
  BY DEF Prepare, Restrict, EInv, Typed
<1>3. Typed'
  BY <1>1, <1>2, CloneLemma DEF EInv, Typed, Steps
<1>4. Prepared' /\ Tested'
  BY <1>1 DEF Prepared, Tested, AtWork, Steps, NoRun
<1> QED
  BY <1>1, <1>3, <1>4, WorkLemma DEF EInv, AtWork, Steps

LEMMA CheckoutInv == ASSUME EInv, Checkout PROVE EInv'
<1>1. /\ pc = "checkout" /\ pc' = "test_patch" /\ Len(results) < Len(Suite)
      /\ UNCHANGED <<attempt, opts, allowed, start, coding, passed, results, files>>
  BY DEF Checkout, Goto, EInv, Placed, AtWork, Steps
<1>2. Current \in Ids /\ Current' = Current
  BY <1>1, SuiteLemma DEF EInv, Current
<1>3. /\ Current \in DOMAIN copies' /\ copies'[Current] = Clone
      /\ DOMAIN copies' \subseteq Ids /\ copies' \in [DOMAIN copies' -> Copies]
  BY <1>2, CloneLemma DEF Checkout, EInv, Typed
<1>4. Typed'
  BY <1>1, <1>3 DEF EInv, Typed, Steps
<1>5. Prepared'
  BY <1>1, <1>2, <1>3 DEF Prepared, AtWork, Steps
<1>6. Tested'
  BY <1>1 DEF EInv, Tested
<1> QED
  BY <1>1, <1>4, <1>5, <1>6, WorkLemma DEF EInv, AtWork, Steps

LEMMA ApplyTestPatchInv == ASSUME EInv, ApplyTestPatch PROVE EInv'
<1> DEFINE w == [Clone EXCEPT !.tests = TestsOf(Current)]
<1>1. /\ pc = "test_patch" /\ pc' = "plant" /\ Len(results) < Len(Suite) /\ copies[Current] = Clone
      /\ UNCHANGED <<attempt, opts, allowed, start, coding, passed, results, files>>
  BY DEF ApplyTestPatch, Goto, EInv, Placed, Prepared, AtWork, Steps
<1>2. Current \in DOMAIN copies /\ Current' = Current /\ TestsOf(Current)' = TestsOf(Current)
  BY <1>1 DEF EInv, Prepared, Current, AtWork, Steps, TestsOf
<1>3. w \in Copies
  BY CloneLemma DEF Copies
<1>4. copies' = [copies EXCEPT ![Current] = w]
  BY <1>1, <1>2 DEF ApplyTestPatch, EInv, Typed, TestsOf, Clone
<1>5. DOMAIN copies' = DOMAIN copies /\ copies' \in [DOMAIN copies -> Copies] /\ copies'[Current] = w
  BY <1>1, <1>3, <1>4, CopiesLemma DEF AtWork, Steps
<1>6. Typed'
  BY <1>1, <1>5 DEF EInv, Typed, Steps
<1>7. Prepared'
  BY <1>1, <1>2, <1>5 DEF Prepared, AtWork, Steps
<1>8. Tested'
  BY <1>1 DEF EInv, Tested
<1> QED
  BY <1>1, <1>6, <1>7, <1>8, WorkLemma DEF EInv, AtWork, Steps

LEMMA PlantCarrierInv == ASSUME EInv, PlantCarrier PROVE EInv'
<1> DEFINE w == [source |-> "base", tests |-> TestsOf(Current),
                 carrier |-> CarrierOf(Current), git |-> "history"]
<1>1. /\ pc = "plant" /\ pc' = (IF opts.seal THEN "seal" ELSE "task") /\ Len(results) < Len(Suite)
      /\ copies[Current] = [Clone EXCEPT !.tests = TestsOf(Current)]
      /\ UNCHANGED <<attempt, opts, allowed, start, coding, passed, results, files>>
  BY DEF PlantCarrier, Goto, EInv, Placed, Prepared, AtWork, Steps
<1>2. Current \in DOMAIN copies /\ Current' = Current
      /\ TestsOf(Current)' = TestsOf(Current) /\ CarrierOf(Current)' = CarrierOf(Current)
  BY <1>1 DEF EInv, Prepared, Current, AtWork, Steps, TestsOf, CarrierOf, Leaky
<1>3. w \in Copies
  BY CloneLemma, SweBenchAssumption DEF Copies
<1>4. copies' = [copies EXCEPT ![Current] = w]
  <2>1. copies[Current] = [source |-> "base", tests |-> TestsOf(Current),
                           carrier |-> None, git |-> "history"]
    BY <1>1 DEF Clone
  <2>2. CASE Current \in Leaky
    <3>1. CarrierOf(Current) = "leak"
      BY <2>2 DEF CarrierOf
    <3>2. [copies[Current] EXCEPT !.carrier = "leak"] = w
      BY <2>1, <3>1
    <3>3. copies' = [copies EXCEPT ![Current].carrier = "leak"]
      BY <2>2 DEF PlantCarrier
    <3> QED
      BY <1>2, <3>2, <3>3
  <2>3. CASE Current \notin Leaky
    <3>1. copies' = copies /\ copies[Current] = w
      BY <2>1, <2>3 DEF PlantCarrier, CarrierOf
    <3> QED
      BY <1>2, <3>1 DEF EInv, Typed
  <2> QED
    BY <2>2, <2>3
<1>5. DOMAIN copies' = DOMAIN copies /\ copies' \in [DOMAIN copies -> Copies] /\ copies'[Current] = w
  BY <1>1, <1>3, <1>4, CopiesLemma DEF AtWork, Steps
<1>6. Typed'
  BY <1>1, <1>5 DEF EInv, Typed, Steps
<1>7. Prepared'
  BY <1>1, <1>2, <1>5 DEF Prepared, AtWork, Steps
<1>8. Tested'
  BY <1>1 DEF EInv, Tested
<1> QED
  BY <1>1, <1>6, <1>7, <1>8, WorkLemma DEF EInv, AtWork, Steps

(* Sealing touches only the history.                                       *)
LEMMA SealInv == ASSUME EInv, WipeHistory \/ CommitSealed PROVE EInv'
<1>1. PICK git \in {"wiped", "single"} :
      /\ pc \in {"seal", "commit"} /\ pc' \in {"commit", "task"} /\ (pc' = "task" => git = "single")
      /\ copies' = [copies EXCEPT ![Current].git = git]
      /\ UNCHANGED <<attempt, opts, allowed, start, coding, passed, results, files>>
  BY DEF WipeHistory, CommitSealed, Goto
<1> DEFINE w == [source |-> "base", tests |-> TestsOf(Current),
                 carrier |-> CarrierOf(Current), git |-> git]
<1>2. /\ Len(results) < Len(Suite) /\ opts.seal /\ Current \in DOMAIN copies /\ Current' = Current
      /\ TestsOf(Current)' = TestsOf(Current) /\ CarrierOf(Current)' = CarrierOf(Current)
  BY <1>1 DEF EInv, Placed, Prepared, Current, AtWork, Steps, TestsOf, CarrierOf, Leaky
<1>3. w \in Copies
  BY CloneLemma, SweBenchAssumption DEF Copies
<1>4. copies' = [copies EXCEPT ![Current] = w]
  <2>1. PICK before \in {"history", "wiped", "single"} :
            copies[Current] = [source |-> "base", tests |-> TestsOf(Current),
                               carrier |-> CarrierOf(Current), git |-> before]
    BY <1>1 DEF EInv, Prepared
  <2>2. [copies[Current] EXCEPT !.git = git] = w
    BY <2>1
  <2> QED
    BY <1>1, <1>2, <2>2
<1>5. DOMAIN copies' = DOMAIN copies /\ copies' \in [DOMAIN copies -> Copies] /\ copies'[Current] = w
  BY <1>1, <1>3, <1>4, CopiesLemma DEF AtWork, Steps
<1>6. Typed'
  BY <1>1, <1>5 DEF EInv, Typed, Steps
<1>7. Prepared'
  BY <1>1, <1>2, <1>5 DEF Prepared, AtWork, Steps
<1>8. Tested'
  BY <1>1 DEF EInv, Tested
<1> QED
  BY <1>1, <1>2, <1>6, <1>7, <1>8, WorkLemma DEF EInv, AtWork, Steps

LEMMA BuildTaskInv == ASSUME EInv, BuildTask PROVE EInv'
<1>1. /\ pc = "task" /\ pc' = "run" /\ Len(results) < Len(Suite) /\ start' = copies[Current]
      /\ UNCHANGED <<attempt, opts, copies, coding, passed, results, files>>
  BY DEF BuildTask, EInv, Placed, AtWork, Steps
<1>2. /\ Current \in DOMAIN copies /\ copies[Current] \in Copies /\ Current' = Current
      /\ TestsOf(Current)' = TestsOf(Current) /\ CarrierOf(Current)' = CarrierOf(Current)
  BY <1>1 DEF EInv, Typed, Prepared, Current, AtWork, Steps, TestsOf, CarrierOf, Leaky
<1>3. allowed' \subseteq Paths
  BY SweBenchAssumption DEF BuildTask, EInv, Typed, WithCarrier, Options, Paths
<1>4. Typed'
  BY <1>1, <1>2, <1>3 DEF EInv, Typed, Steps
<1>5. Prepared'
  BY <1>1, <1>2 DEF EInv, Prepared, AtWork, Steps
<1>6. Tested'
  BY <1>1 DEF EInv, Tested
<1> QED
  BY <1>1, <1>4, <1>5, <1>6, WorkLemma DEF EInv, AtWork, Steps

LEMMA RunAgentInv == ASSUME EInv, RunAgent PROVE EInv'
<1>1. PICK edit \in Edits, success \in BOOLEAN :
        /\ copies' = [copies EXCEPT ![Current] = Edited(copies[Current], edit)]
        /\ coding' = [ran |-> TRUE, success |-> success, tree |-> Edited(copies[Current], edit),
                      patch |-> {p \in Paths : Edited(copies[Current], edit)[p] # start[p]},
                      wrote |-> {p \in Paths : Edited(copies[Current], edit)[p] # copies[Current][p]}]
  BY DEF RunAgent
<1> DEFINE w == Edited(copies[Current], edit)
<1>2. /\ pc = "run" /\ pc' = "fail_to_pass" /\ Len(results) < Len(Suite)
      /\ UNCHANGED <<attempt, opts, allowed, start, passed, results, files>>
      /\ Current' = Current /\ copies[Current] \in Copies /\ start = copies[Current] /\ passed = {}
  BY DEF RunAgent, EInv, Typed, Placed, Prepared, Tested, AtWork, Steps, Current
<1>3. w \in Copies
  BY <1>2, SweBenchAssumption
<1> HIDE DEF w
<1>4. /\ Current \in DOMAIN copies
      /\ DOMAIN copies' = DOMAIN copies /\ copies' \in [DOMAIN copies -> Copies] /\ copies'[Current] = w
  BY <1>1, <1>2, <1>3, CopiesLemma DEF AtWork, Steps, w
<1>5. coding' \in CodingRuns /\ coding'.tree = w /\ coding'.patch = coding'.wrote
  BY <1>1, <1>2, <1>3 DEF CodingRuns, w
<1>6. Typed'
  BY <1>2, <1>4, <1>5 DEF EInv, Typed, Steps
<1>7. Prepared' /\ Tested'
  BY <1>2, <1>4, <1>5 DEF Prepared, Tested, AtWork, Steps
<1> QED
  BY <1>2, <1>6, <1>7, WorkLemma DEF EInv, AtWork, Steps

(* What test commands make of a copy.                                      *)
LEMMA TestsLemma ==
    ASSUME NEW id \in Ids, NEW w \in Copies
    PROVE  \A r \in FailToPass[id][w] \union PassToPass[id][w] :
                r = <<r[1], r[2]>> /\ r[1] \in BOOLEAN /\ r[2] \in Copies
<1>1. FailToPass[id][w] \subseteq BOOLEAN \X Copies /\ PassToPass[id][w] \subseteq BOOLEAN \X Copies
  BY SweBenchAssumption
<1> QED
  BY <1>1

LEMMA RunFailToPassInv == ASSUME EInv, RunFailToPass PROVE EInv'
<1>1. /\ pc = "fail_to_pass" /\ pc' = (IF opts.p2p THEN "pass_to_pass" ELSE "classify")
      /\ Len(results) < Len(Suite) /\ Current' = Current /\ Current \in Ids
      /\ Current \in DOMAIN copies /\ copies[Current] \in Copies /\ copies[Current] = coding.tree
      /\ passed = {} /\ UNCHANGED <<attempt, opts, allowed, start, coding, results, files>>
  BY SuiteLemma DEF RunFailToPass, EInv, Typed, Placed, Prepared, Tested, AtWork, Steps, Current
<1>2. PICK run \in FailToPass[Current][copies[Current]] :
        /\ passed' = IF run[1] THEN {"fail_to_pass"} ELSE {}
        /\ copies' = [copies EXCEPT ![Current] = run[2]]
  BY <1>1 DEF RunFailToPass, RunTests
<1>3. run = <<run[1], run[2]>> /\ run[1] \in BOOLEAN /\ run[2] \in Copies
  BY <1>1, <1>2, TestsLemma
<1>4. DOMAIN copies' = DOMAIN copies /\ copies' \in [DOMAIN copies -> Copies] /\ copies'[Current] = run[2]
  BY <1>1, <1>2, <1>3, CopiesLemma DEF AtWork, Steps
<1>5. /\ passed' \subseteq {"fail_to_pass"}
      /\ "fail_to_pass" \in passed' => <<TRUE, copies'[Current]>> \in FailToPass[Current][coding.tree]
  BY <1>1, <1>2, <1>3, <1>4
<1>6. Typed'
  BY <1>1, <1>4, <1>5 DEF EInv, Typed, Steps
<1>7. Prepared'
  BY <1>1, <1>4 DEF Prepared, AtWork, Steps
<1>8. Tested'
  BY <1>1, <1>4, <1>5 DEF EInv, Tested
<1> QED
  BY <1>1, <1>6, <1>7, <1>8, WorkLemma DEF EInv, AtWork, Steps

LEMMA RunPassToPassInv == ASSUME EInv, RunPassToPass PROVE EInv'
<1>1. /\ pc = "pass_to_pass" /\ pc' = "classify"
      /\ Len(results) < Len(Suite) /\ Current' = Current /\ Current \in Ids
      /\ Current \in DOMAIN copies /\ copies[Current] \in Copies /\ passed \subseteq {"fail_to_pass"}
      /\ "fail_to_pass" \in passed => <<TRUE, copies[Current]>> \in FailToPass[Current][coding.tree]
      /\ UNCHANGED <<attempt, opts, allowed, start, coding, results, files>>
  BY SuiteLemma DEF RunPassToPass, EInv, Typed, Placed, Prepared, Tested, AtWork, Steps, Current
<1>2. PICK run \in PassToPass[Current][copies[Current]] :
        /\ passed' = IF run[1] THEN passed \union {"pass_to_pass"} ELSE passed
        /\ copies' = [copies EXCEPT ![Current] = run[2]]
  BY <1>1 DEF RunPassToPass, RunTests
<1>3. run = <<run[1], run[2]>> /\ run[1] \in BOOLEAN /\ run[2] \in Copies
  BY <1>1, <1>2, TestsLemma
<1>4. DOMAIN copies' = DOMAIN copies /\ copies' \in [DOMAIN copies -> Copies]
  BY <1>1, <1>2, <1>3, CopiesLemma DEF AtWork, Steps
<1>5. /\ passed' \subseteq {"fail_to_pass", "pass_to_pass"}
      /\ "fail_to_pass" \in passed' => <<TRUE, copies[Current]>> \in FailToPass[Current][coding.tree]
      /\ "pass_to_pass" \in passed' => <<TRUE, run[2]>> \in PassToPass[Current][copies[Current]]
  BY <1>1, <1>2, <1>3
<1>6. Typed'
  BY <1>1, <1>4, <1>5 DEF EInv, Typed, Steps
<1>7. Prepared'
  BY <1>1, <1>4 DEF Prepared, AtWork, Steps
<1>8. Tested'
  BY <1>1, <1>3, <1>5 DEF EInv, Tested
<1> QED
  BY <1>1, <1>6, <1>7, <1>8, WorkLemma DEF EInv, AtWork, Steps

LEMMA StutterInv == ASSUME EInv, UNCHANGED vars PROVE EInv'
<1> USE DEF vars
<1>1. Typed'
  BY DEF EInv, Typed
<1>2. Placed'
  BY DEF EInv, Placed
<1>3. Prepared'
  BY DEF EInv, Prepared, TestsOf, CarrierOf, Leaky, Current
<1>4. Tested'
  BY DEF EInv, Tested, Current
<1>5. ResultsAreSound'
  BY DEF EInv, ResultsAreSound, SolvedOnReportedTree, PatchIsAgentsWork
<1>6. Saved'
  BY DEF EInv, Saved, EveryPatchSubmitted
<1> QED
  BY <1>1, <1>2, <1>3, <1>4, <1>5, <1>6 DEF EInv

LEMMA EInvStep == ASSUME EInv, [Next]_vars PROVE EInv'
<1>1. CASE Next
  BY <1>1, PrepareInv, CheckoutInv, EndsInv, ApplyTestPatchInv, PlantCarrierInv, SealInv,
     BuildTaskInv, RunAgentInv, RunFailToPassInv, RunPassToPassInv, ClassifyInv,
     WriteEvaluationInv, WriteCodingRunInv, WriteRunsInv, WriteSummaryInv,
     WritePredictionsInv, KillInv, RestartInv, StutterInv DEF Next, Terminated
<1> QED
  BY <1>1, StutterInv

(* What every state of every suite satisfies.                              *)
THEOREM AlwaysEInv == Spec => []EInv
<1>1. Init => EInv
  BY InitInv
<1>2. EInv /\ [Next]_vars => EInv'
  BY EInvStep
<1> QED
  BY <1>1, <1>2, PTL DEF Spec

(* Every variable keeps its type, and the results are those of the first   *)
(* instances of the suite, in its order.                                   *)
THEOREM AlwaysTyped == Spec => []TypeOK
<1>1. EInv => TypeOK
  <2> SUFFICES ASSUME EInv PROVE TypeOK
    OBVIOUS
  <2>1. \A k \in DOMAIN results : results[k].kind \in FailureKinds
    BY LastLemma DEF EInv, Typed, Outcome
  <2>2. \E present \in SUBSET Ids : copies \in [present -> Copies]
    BY DEF EInv, Typed
  <2> QED
    BY <2>1, <2>2 DEF EInv, Typed, Placed, TypeOK
<1> QED
  BY <1>1, AlwaysEInv, PTL

(* Every coding run of every process begins on the checkout with the       *)
(* instance's test patch and carrier and nothing else.                     *)
THEOREM RunsStartFresh == Spec => []RunStartsFresh
<1>1. EInv => RunStartsFresh
  BY DEF EInv, Prepared, RunStartsFresh, TestsOf, CarrierOf
<1> QED
  BY <1>1, AlwaysEInv, PTL

(* A solved instance passed its tests on the tree of its patch, and every  *)
(* patch is the agent's work alone.                                        *)
THEOREM AlwaysSound == Spec => []ResultsAreSound
<1>1. EInv => ResultsAreSound
  BY DEF EInv
<1> QED
  BY <1>1, AlwaysEInv, PTL

(* Killed wherever it may be, a process never leaves a file that sums up   *)
(* others newer than they are.                                             *)
THEOREM SummariesAlwaysLater == Spec => []SummariesComeLater
<1>1. EInv => SummariesComeLater
  BY DEF EInv, Saved, SummariesComeLater
<1> QED
  BY <1>1, AlwaysEInv, PTL

(* A process that gets to its end has handed the grader every instance     *)
(* once, in order, with the patch of its run: the safety half of SuiteEnds. *)
THEOREM DoneIsSubmitted == Spec => [](pc = "done" => EveryPatchSubmitted)
<1>1. EInv => (pc = "done" => EveryPatchSubmitted)
  BY DEF EInv, Saved
<1> QED
  BY <1>1, AlwaysEInv, PTL
=============================================================================
