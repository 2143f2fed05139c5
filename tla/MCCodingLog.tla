---------------------------- MODULE MCCodingLog -----------------------------
(* CodingLog with actions that create, overwrite, reopen and close         *)
(* concerns, and an observation of every kind that changes the ledger.     *)
EXTENDS CodingLog

MCTexts == {"passed", "failed", "verified", "feedback", "done", "error", "gate",
            "instruction", "criterion", "hazard", "rationale", "note"}

MCLedger == FromTask("instruction", [n \in {0} |-> "criterion"], [n \in {0} |-> "hazard"],
                     << >>)

Task == <<"task", 0>>
Risk == <<"risk", 0>>

Act(updates, addressed) ==
    [updates |-> updates, addressed |-> addressed, rationale |-> {"rationale"}]

Update(id, kind, text, level, status, evidence) ==
    {[id |-> id, concern |-> [kind |-> kind, text |-> text, concern |-> level,
                              status |-> status, evidence |-> evidence]]}

MCProposals ==
    {Act({}, {Task, Risk}),
     Act({}, {Task, <<"test", 0>>, FailureId(1), FailureId(2)}),
     \* Text, level and status of the task change at once.
     Act(Update(Task, "hypothesis", "note", 95, "open", {"note"}), {}),
     Act(Update(Task, "hypothesis", "instruction", 95, "rejected", {"note"}), {Task}),
     \* A concern of the agent's own, with the id of a test result to come.
     Act(Update(<<"test", 0>>, "fact", "note", 90, "open", {"note"}), {}),
     Act(Update(<<"success", 0>>, "fact", "note", 50, "addressed", {"note"}), {})}

Obs(type, success, message) == [type |-> type, success |-> success, message |-> message]

MCObservations ==
    {Obs("run_tests", TRUE, "passed"), Obs("run_tests", FALSE, "failed"),
     Obs("finish", TRUE, "verified"), Obs("finish", FALSE, "feedback"),
     Obs("inspect", TRUE, "done")}
=============================================================================
