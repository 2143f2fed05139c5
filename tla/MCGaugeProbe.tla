--------------------------- MODULE MCGaugeProbe ----------------------------
(***************************************************************************)
(* The log of concern events with the gauge probe over it, the evaluations *)
(* of the contamination slice, and the search over the knobs that runs the *)
(* slice as one of its gates.  They share no state: a behaviour is of one  *)
(* of the three, and the rest stays as it began.                           *)
(***************************************************************************)
EXTENDS Contamination, Autoresearch

CONSTANT Leaf   \* the values that are no lists or dicts

VARIABLE kind

(* A value is a leaf or a list of one.  Places in a list and ids of        *)
(* variables are strings, which TLC can compare.                           *)
MCComposites == {[item |-> x] : x \in Leaf}
MCValues == Leaf \cup MCComposites

(* Bound: only a log whose values are leaves has a branch, and goes on so. *)
InLeaves(l) ==
    \A n \in DOMAIN l :
        "value" \in DOMAIN l[n].payload => l[n].payload.value \in Leaf

BranchesInLeaves == fork # -1 => InLeaves(log) /\ InLeaves(branch)

(* The rest as it begins, in one of the ways it may.                       *)
SliceIdle == script.name = "slice"
SearchIdle == require = "yes" /\ literal

ProbeInit ==
    /\ LogInit /\ SliceInit /\ SearchInit
    /\ \/ kind = "log" /\ SliceIdle /\ SearchIdle
       \/ kind = "slice" /\ SearchIdle
       \/ kind = "search" /\ SliceIdle

ProbeNext ==
    /\ \/ kind = "log" /\ LogNext /\ BranchesInLeaves' /\ UNCHANGED <<sliceVars, searchVars>>
       \/ kind = "slice" /\ SliceNext /\ UNCHANGED <<logVars, searchVars>>
       \/ kind = "search" /\ SearchNext /\ UNCHANGED <<logVars, sliceVars>>
    /\ UNCHANGED kind

ProbeSpec == ProbeInit /\ [][ProbeNext]_<<kind, logVars, sliceVars, searchVars>>

MCLeaf == Permutations(Leaf)

(* What an agent may write: an issue that asks for a product, one that     *)
(* asks for nothing (which is also a leak without a marker), the leak's    *)
(* own text, a leak already rewritten, and texts that are issue and leak,  *)
(* the one of which asks for a product, too.                               *)
MCTexts ==
    [asks : {"product", "nothing"}, leak : {"none"}, form : {"plain"}]
        \cup {LeakText,
              [asks |-> "nothing", leak |-> "alt", form |-> "plain"],
              [asks |-> "sum", leak |-> "marker", form |-> "plain"],
              [asks |-> "both", leak |-> "marker", form |-> "plain"]}

(* A text that asks for something is long, and its marker comes late.      *)
MCFingerprint(t) == IF t.asks = "nothing" THEN t ELSE [t EXCEPT !.leak = "cut"]

(* A grid with a point that is the baseline, one whose thresholds are not  *)
(* ordered, and scores that pass no gate, all, or all but one, with a tie. *)
MCBudgets == <<0, 2>>
MCMinConcerns == <<50>>
MCNormals == <<4500, 3500, 9700>>

MCMeasures ==
    [gauge : {0, 60}, catch : {60}, load : {50}, falseBlock : {0}]
        \cup {[gauge |-> 50, catch |-> 60, load |-> 50, falseBlock |-> 5],
              [gauge |-> 100, catch |-> 40, load |-> 50, falseBlock |-> 0],
              [gauge |-> 100, catch |-> 100, load |-> 90, falseBlock |-> 10]}
=============================================================================
