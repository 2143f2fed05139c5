---------------------------- MODULE MCTournament ----------------------------
(* Tournament with two candidates on two files.                            *)
EXTENDS Tournament

MCContents == {"empty", "old", "good", "good_nl", "skip"}

(* A skip added to a file that had none.                                   *)
MCWeakening == {"empty", "old", "good", "good_nl"} \X {"skip"}

(* "good" and "good_nl" differ in the last line break alone.               *)
MCLines == [c \in MCContents |-> IF c = "good_nl" THEN "good" ELSE c]

MCBaseline == [f \in {"src", "gen"} |-> IF f = "src" THEN "good" ELSE "absent"]

(* The tests need the other file, which may be empty, and any source that  *)
(* is not; they may not start, and may write the file.                     *)
MCOutcome(t) ==
    IF t["src"] = "empty" \/ t["gen"] = "absent" THEN "fail" ELSE "pass"
MCTestRuns ==
    [t \in Trees |-> {<<MCOutcome(t), t>>, <<"error", t>>,
                      <<MCOutcome(t), [t EXCEPT !["gen"] = "good"]>>}]

(* The hardened tests want another source than the baseline's.             *)
MCHardenedRuns ==
    [t \in Trees |-> {<<IF t["src"] = "old" THEN "pass" ELSE "fail", t>>, <<"error", t>>}]
=============================================================================
