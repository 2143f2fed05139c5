--------------------------- MODULE MCCodingLedger ---------------------------
(* CodingRun with its certificate on one file, for what happens to the     *)
(* ledger, the log and the trace: the agent's ledger updates create,       *)
(* overwrite, reopen and close concerns, some with the harness's own ids,  *)
(* and its actions may be linked to no concern.                            *)
EXTENDS FinishCertificate

MCTexts == {"passed", "failed", "verified", "feedback", "done", "error", "gate",
            "instruction", "criterion", "hazard", "rationale", "note"}

MCContents == {"empty", "old", "good", "leak"}
MCLines    == [c \in MCContents |-> c]
MCBaseline == [f \in {"src"} |-> "old"]

MCTestRuns ==
    [t \in Trees |-> {IF t["src"] \in {"good", "leak"} THEN "pass" ELSE "fail", "error"} \X {t}]

MCLedger == FromTask("instruction", [n \in {0} |-> "criterion"], [n \in {0} |-> "hazard"],
                     << >>)

Task == <<"task", 0>>
Risk == <<"risk", 0>>

Act(type, updates, addressed) ==
    [type |-> type, updates |-> updates, addressed |-> addressed,
     rationale |-> {"rationale"}, malformed |-> FALSE]

Update(id, kind, text, level, status, evidence) ==
    {[id |-> id, concern |-> [kind |-> kind, text |-> text, concern |-> level,
                              status |-> status, evidence |-> evidence]]}

MCActions ==
    {\* An edit leaves a note that nobody need look at.
     Act("edit_file", Update(<<"note", 0>>, "question", "note", 50, "open", {}), {Task, Risk}),
     [Act("run_tests", {}, {}) EXCEPT !.rationale = {}],
     [Act("read_file", {}, {}) EXCEPT !.rationale = {}],
     Act("finish", {}, {}),
     Act("finish", {}, {Task, Risk, <<"success", 0>>, <<"test", 0>>, FailureId(1), FailureId(2)}),
     \* The task is closed with evidence of its own and a rationale.
     Act("run_tests", Update(Task, "hypothesis", "instruction", 90, "addressed", {"note"}), {Task}),
     \* The task is reopened at a higher level.
     Act("inspect", Update(Task, "hypothesis", "note", 95, "open", {}), {}),
     \* The first test result is turned into a note, or made up in advance.
     Act("inspect", Update(<<"test", 0>>, "fact", "note", 90, "addressed", {"note"}), {}),
     \* A failure of a finish is made up, too low to keep a finish from passing.
     Act("inspect", Update(FailureId(1), "risk", "note", 50, "open", {}), {}),
     \* A criterion is overwritten at a lower level: ignored.
     Act("inspect", Update(<<"success", 0>>, "fact", "note", 50, "addressed", {"note"}), {Risk})}
=============================================================================
