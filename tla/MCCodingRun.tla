---------------------------- MODULE MCCodingRun -----------------------------
(* CodingRun on two files, with an action of every kind, for what happens  *)
(* to the workspace.                                                       *)
EXTENDS CodingRun

MCTexts == {"passed", "failed", "verified", "feedback", "done", "error", "gate",
            "instruction", "rationale"}

MCContents == {"empty", "old", "good", "leak", "skip"}

MCLines == [c \in MCContents |-> c]

MCBaseline == [f \in {"src", "gen"} |-> IF f = "src" THEN "old" ELSE "absent"]

(* The tests pass on a good, a leaked and a weakened source; they may also *)
(* fail to start, and may write what they import into the generated file.  *)
MCOutcomes(t) ==
    {"error", IF t["src"] \in {"good", "leak", "skip"} THEN "pass" ELSE "fail"}
MCTestRuns ==
    [t \in Trees |-> MCOutcomes(t) \X {t, [t EXCEPT !["gen"] = t["src"]]}]

MCLedger == FromTask("instruction", << >>, << >>, << >>)

Act(type, addressed) ==
    [type |-> type, updates |-> {}, addressed |-> addressed,
     rationale |-> {"rationale"}, malformed |-> FALSE]

MCTask == <<"task", 0>>

MCActions ==
    {Act("edit_file", {MCTask}), Act("run_command", {}), Act("run_tests", {}),
     Act("read_file", {}), Act("finish", {}),
     Act("finish", {MCTask} \union {<<"verification_failure", n>> : n \in 1..8}),
     [Act("inspect", {}) EXCEPT !.malformed = TRUE],
     [Act("edit_file", {}) EXCEPT !.malformed = TRUE]}

(* A skip added to a file that had none.                                   *)
MCWeakening == {"old", "good", "leak", "empty"} \X {"skip"}
=============================================================================
