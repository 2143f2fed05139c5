--------------------------- MODULE MCSweBenchEval ---------------------------
(* SweBenchEval with an instance that has a test patch and a leak and one  *)
(* that has neither.                                                       *)
EXTENDS SweBenchEval, TLC

MCSuite == <<"leaky", "plain">>

(* FAIL_TO_PASS wants the fix; its tests reformat the source, or leave it. *)
(* PASS_TO_PASS breaks on the reformatted source of one instance.          *)
MCFailToPass ==
    [id \in {"leaky", "plain"} |-> [w \in Copies |->
        IF w.source = "base" THEN {<<FALSE, w>>}
        ELSE {<<TRUE, [w EXCEPT !.source = "formatted"]>>}
             \union (IF id = "leaky" THEN {<<TRUE, w>>} ELSE {})]]
MCPassToPass ==
    [id \in {"leaky", "plain"} |-> [w \in Copies |->
        {<<w.source = "fix" \/ (id = "leaky" /\ w.source = "formatted"), w>>}]]

(* Nothing, a note in the carrier, the fix, another fix with such a note,  *)
(* and the fix with the old tests put back.                                *)
MCEdits == {<< >>, "carrier" :> "edited", "source" :> "fix",
            "source" :> "formatted" @@ "carrier" :> "edited",
            "source" :> "fix" @@ "tests" :> "old"}

(* The command's defaults, the workers of the experiments on the sealed    *)
(* arm, and a caller that keeps its working copies.                        *)
MCOptions ==
    {[inject |-> TRUE, clean |-> TRUE, seal |-> FALSE, p2p |-> TRUE, allowed |-> {}],
     [inject |-> TRUE, clean |-> TRUE, seal |-> TRUE, p2p |-> FALSE, allowed |-> {}],
     [inject |-> FALSE, clean |-> FALSE, seal |-> TRUE, p2p |-> TRUE, allowed |-> {"source"}]}
=============================================================================
