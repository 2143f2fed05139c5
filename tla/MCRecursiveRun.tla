--------------------------- MODULE MCRecursiveRun ---------------------------
(* RecursiveRun with two children whose reports meet in the same concerns. *)
EXTENDS RecursiveRun

MCTexts == {"passed", "failed", "verified", "feedback", "done", "error", "gate",
            "instruction", "rationale", "report", "finding"}

MCContents == {"empty", "old", "good"}
MCLines    == [c \in MCContents |-> c]
MCBaseline == [f \in {"src"} |-> "old"]

MCTestRuns ==
    [t \in Trees |-> {IF t["src"] = "good" THEN "pass" ELSE "fail", "error"} \X {t}]

MCLedger == FromTask("instruction", << >>, << >>, << >>)

MCTask == <<"task", 0>>
MCNote == <<"note", 0>>

Act(type, addressed) ==
    [type |-> type, updates |-> {}, addressed |-> addressed,
     rationale |-> {"rationale"}, malformed |-> FALSE]

MCActions ==
    {Act("edit_file", {MCTask}), Act("finish", {}),
     Act("finish", {MCNote, FailureId(1), FailureId(2), FailureId(3), FailureId(4)})}

Report(ok, updates, evidence) ==
    [ok |-> ok, updates |-> updates, evidence |-> evidence, summary |-> "report"]

Update(id, level, status) ==
    {[id |-> id, concern |-> [kind |-> "risk", text |-> "finding", concern |-> level,
                              status |-> status, evidence |-> {t \in {"finding"} : level = 80}]]}

(* The first child raises a risk, or closes the task; the second repeats   *)
(* the risk higher or lower, or has evidence; either may not validate.     *)
MCChildTasks ==
    <<{Report(TRUE, Update(MCNote, 80, "open"), {"finding"}),
       Report(TRUE, Update(MCTask, 95, "addressed"), {"finding"}), Report(FALSE, {}, {})},
      {Report(TRUE, Update(MCNote, 90, "open"), {}), Report(TRUE, Update(MCNote, 50, "rejected"), {}),
       Report(TRUE, {}, {"finding"}), Report(FALSE, {}, {"finding"})}>>
=============================================================================
