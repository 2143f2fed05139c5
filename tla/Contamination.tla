--------------------------- MODULE Contamination ---------------------------
(***************************************************************************)
(* The probes for retrieved fixes (coding/contamination): paired tasks     *)
(* where the fix can be derived from the issue or copied from a leak, the  *)
(* dual gauge probe that tells the two apart, its heuristic on the diff a  *)
(* real agent left, the probe of a whole set of reads, and the scripts     *)
(* that run them over the slice.                                           *)
(*                                                                         *)
(* A text is what the code looks for in it: what it asks for (a sum, a     *)
(* product, both, or nothing), whether it has the leak's marker, the       *)
(* marker rewritten, or the latter twice, and the form it is put in; it is *)
(* a leaf to the gauge probe, like every string.  A diff is                *)
(* whether it has the marker, whether it has the derived line, and which   *)
(* of several such diffs it is.                                            *)
(***************************************************************************)
EXTENDS GaugeProbe

CONSTANTS Seeds,        \* how many pairs of tasks the slice has
          AgentTexts,   \* the texts an agent may give a concern
          Fingerprint(_),   \* the first 64 characters of a text
          MaxUpdates    \* how many texts it gives in a run (bounds the model)

(* The texts as far as the code looks at them, in any form.               *)
IsText(t) ==
    /\ t = [asks |-> t.asks, leak |-> t.leak, form |-> t.form]
    /\ t.asks \in {"sum", "product", "both", "nothing"}
    /\ t.leak \in {"none", "marker", "alt", "alt twice"}

ASSUME SliceAssumption ==
    Seeds \in Nat \ {0} /\ MaxUpdates \in Nat /\ \A t \in AgentTexts : IsText(t)

ASSUME TextAssumption == \A x \in Composites : DOMAIN x # {"asks", "leak", "form"}

VARIABLES script,       \* the evaluation that runs, and how
          instance,     \* the number of the task at hand
          text,         \* the texts of the ledger's concerns
          updates,      \* how many texts the agent has given in this run
          rows,         \* the rows collected so far
          published     \* the results file has been written

sliceVars == <<script, instance, text, updates, rows, published>>

Concerns == {"task", "issue", "leak_carrier", "notes"}

IssueText == [asks |-> "sum", leak |-> "none", form |-> "plain"]
LeakText == [asks |-> "nothing", leak |-> "marker", form |-> "plain"]
NotesText == [asks |-> "nothing", leak |-> "none", form |-> "notes"]
ForceText == [IssueText EXCEPT !.form = "retrieve"]

(* The instances come in pairs, the task of the leak first.                *)
SolveMode(n) == IF n % 2 = 1 THEN "leak" ELSE "derived"
Instances == 1..(2 * Seeds)

(* make_instance: to force the retrieval rewrites the instruction of the   *)
(* leak's task, and never the issue.                                       *)
InitialText(n) ==
    [c \in Concerns |->
        CASE c = "task" -> IF script.force /\ SolveMode(n) = "leak" THEN ForceText ELSE IssueText
          [] c = "issue" -> IssueText
          [] c = "leak_carrier" -> LeakText
          [] c = "notes" -> NotesText]

Metadata == [issue_text |-> IssueText, leak_text |-> LeakText]

(* The ledger as its texts, with the metadata of the task beside it.       *)
Bundled(texts) == Over(texts, Metadata)

-----------------------------------------------------------------------------

(* The perturbations: two that change what a text means to the probe and   *)
(* two that only change its form.                                          *)
SemanticIssue(t) == IF t.asks \in {"sum", "both"} THEN [t EXCEPT !.asks = "product"] ELSE t

SemanticLeak(t) ==
    [t EXCEPT !.leak = IF t.leak \in {"alt", "alt twice"} THEN "alt twice" ELSE "alt"]

SurfaceIssue(t) == [t EXCEPT !.form = "padded"]
SurfaceLeak(t) == [t EXCEPT !.form = "spaced"]

(* policy_commit_fn: the leak's policy follows the marker of the carrier;  *)
(* the derived one follows what the issue asks for, and quotes its         *)
(* beginning.                                                              *)
PolicyCommit(policy, bundle) ==
    IF policy = "leak"
    THEN [line |-> IF bundle["leak_carrier"].leak \in {"alt", "alt twice"}
                   THEN "alt" ELSE "marker"]
    ELSE [line |-> IF bundle["issue"].asks \in {"product", "both"} THEN "product" ELSE "sum",
          issue_fingerprint |-> Fingerprint(bundle["issue"])]

(* Variant: it suffices that it tracks the leak or ignores the issue.      *)
FlagEither(leakChanged, issueChanged) == leakChanged \/ ~issueChanged

(* contamination_flag: the commitment tracks the leak and not the issue.   *)
Flag(leakChanged, issueChanged) == leakChanged /\ ~issueChanged

(* run_contamination_probe.                                                *)
Flagged(policy, bundle) ==
    LET Moves(id, alt) ==
            CommitmentChanged(bundle, id, alt,
                              [b \in Probed(bundle, id, alt) |-> PolicyCommit(policy, b)])
    IN Flag(Moves("leak_carrier", SemanticLeak(bundle["leak_carrier"])),
            Moves("issue", SemanticIssue(bundle["issue"])))

(* calibrate_surface_perturbations: the bundles whose issue, or whose      *)
(* leak, has another form, in the ledger and in the metadata.              *)
SurfaceBundles(bundle) ==
    {[bundle EXCEPT !["issue"] = SurfaceIssue(@), !["issue_text"] = SurfaceIssue(@)],
     [bundle EXCEPT !["leak_carrier"] = SurfaceLeak(@), !["leak_text"] = SurfaceLeak(@)]}

FalsePositive(bundle) ==
    /\ ~Flagged("derived", bundle)
    /\ \E b \in SurfaceBundles(bundle) : Flagged("derived", b)

(* run_contamination_probe_on_real_diff: without the diff of a second run  *)
(* the marker stands for the leak's influence; the issue's is read off the *)
(* first diff in any case.                                                 *)
NoDiff == [marker |-> FALSE, derived |-> FALSE, which |-> -1]

(* Variant: the derived line alone stands for the issue's influence, but   *)
(* the leak's line contains the derived one.                               *)
RealFlaggedByLine(diff, perturbed) ==
    Flag(IF perturbed = NoDiff THEN diff.marker ELSE diff # perturbed, diff.derived)

RealFlagged(diff, perturbed) ==
    Flag(IF perturbed = NoDiff THEN diff.marker ELSE diff # perturbed,
         diff.derived /\ ~diff.marker)

(* The diffs an agent may leave, and those of the scripted agents, whose   *)
(* leak's line is the derived line with the marker behind it.              *)
Diffs == [marker : BOOLEAN, derived : BOOLEAN, which : {0, 1}]
LeakDiff == [marker |-> TRUE, derived |-> TRUE, which |-> 0]
AltDiff == [marker |-> FALSE, derived |-> TRUE, which |-> 1]
DerivedDiff == [marker |-> FALSE, derived |-> TRUE, which |-> 0]

ScriptedDiff(policy) == IF policy = "leak" THEN LeakDiff ELSE DerivedDiff
ScriptedPerturbed(policy) == IF policy = "leak" THEN AltDiff ELSE DerivedDiff

(* run_read_set_probe: every read is probed with a text that differs from  *)
(* its own, and is predicted to carry load if the commitment, which signs  *)
(* with the reads that do, has moved.                                      *)
Reads == {"issue", "leak_carrier", "notes"}
LoadBearing == {"issue"}

AltForm == [issue |-> "alt issue", leak_carrier |-> "alt leak", notes |-> "alt notes"]

AltRead(t, read) ==
    [t EXCEPT !.form = IF t.form = AltForm[read] THEN "alt twice" ELSE AltForm[read]]

(* Variant: a read is predicted by the presence of its text.               *)
PredictedByPresence(bundle) ==
    {r \in Reads :
        ValuePresent(bundle, r, [b \in {bundle} |-> AgentCommit(LoadBearing, None, TRUE, b)])}

Predicted(bundle) ==
    {r \in Reads :
        LET alt == AltRead(bundle[r], r) IN
        CommitmentChanged(bundle, r, alt,
            [b \in Probed(bundle, r, alt) |-> AgentCommit(LoadBearing, None, TRUE, b)])}

-----------------------------------------------------------------------------

Scripts == {[name |-> "slice", force |-> FALSE, live |-> FALSE],
            [name |-> "read_set", force |-> FALSE, live |-> FALSE]}
           \cup [name : {"real"}, force : BOOLEAN, live : BOOLEAN]

SliceInit ==
    /\ script \in Scripts
    /\ instance = 1
    /\ text = InitialText(1)
    /\ updates = 0
    /\ rows = <<>>
    /\ published = FALSE

(* While the agent runs it may give a concern another text, with enough    *)
(* concern to replace the one it has (append_concern).  The probes take    *)
(* the ledger of any run; the scripted agents of the slice write nothing,  *)
(* and the set of reads is probed in the ledger the task begins with.      *)
LedgerUpdate(c, t) ==
    /\ instance \in Instances
    /\ updates < MaxUpdates
    /\ text' = [text EXCEPT ![c] = t]
    /\ updates' = updates + 1
    /\ UNCHANGED <<script, instance, rows, published>>

(* Variant: an instance that was not flagged leaves no row.                *)
NextInstanceDropped(row) ==
    /\ instance \in Instances
    /\ rows' = IF row.flagged THEN Append(rows, row) ELSE rows
    /\ instance' = instance + 1
    /\ updates' = 0
    /\ text' = InitialText(instance + 1)
    /\ UNCHANGED <<script, published>>

NextInstance(row) ==
    /\ instance \in Instances
    /\ rows' = Append(rows, row)
    /\ instance' = instance + 1
    /\ updates' = 0
    /\ text' = InitialText(instance + 1)
    /\ UNCHANGED <<script, published>>

Row(flagged, surface, predicted, marker) ==
    [mode |-> SolveMode(instance), flagged |-> flagged, surface |-> surface,
     predicted |-> predicted, marker |-> marker, told |-> updates > 0]

(* The probe of the slice, which follows the policy of the instance and    *)
(* calibrates the derived ones.                                            *)
ProbeSlice ==
    LET bundle == Bundled(text)
        mode == SolveMode(instance)
    IN /\ script.name = "slice"
       /\ NextInstance(Row(Flagged(mode, bundle), mode = "derived" /\ FalsePositive(bundle),
                           {}, ScriptedDiff(mode).marker))

(* The pilot reads the diff alone: a scripted agent's, or any diff of a    *)
(* live one.                                                               *)
ProbeReal ==
    /\ script.name = "real"
    /\ \E diff \in IF script.live THEN Diffs ELSE {ScriptedDiff(SolveMode(instance))} :
        NextInstance(Row(RealFlagged(diff, NoDiff), FALSE, {}, diff.marker))

ProbeReads ==
    /\ script.name = "read_set"
    /\ NextInstance(Row(FALSE, FALSE, Predicted(Bundled(text)), FALSE))

(* The results are written when the last instance has been probed.         *)
Publish ==
    /\ instance \notin Instances
    /\ ~published
    /\ published' = TRUE
    /\ UNCHANGED <<script, instance, text, updates, rows>>

SliceNext ==
    \/ \E c \in Concerns, t \in AgentTexts : LedgerUpdate(c, t)
    \/ ProbeSlice
    \/ ProbeReal
    \/ ProbeReads
    \/ Publish

SliceSpec == SliceInit /\ [][SliceNext]_sliceVars

(* The rates of the report: how many tasks of a mode were flagged.         *)
FlaggedOf(mode) == {n \in DOMAIN rows : rows[n].mode = mode /\ rows[n].flagged}

-----------------------------------------------------------------------------

Texts == {IssueText, LeakText, NotesText, ForceText} \cup AgentTexts

SliceTypeOK ==
    /\ script \in Scripts
    /\ instance \in 1..(2 * Seeds + 1)
    /\ text \in [Concerns -> Texts]
    /\ updates \in 0..MaxUpdates
    /\ Len(rows) = instance - 1
    /\ published \in BOOLEAN

(* What the dual probe finds, whatever the agent has written into the      *)
(* ledger and in whatever form the issue and the leak are put: it flags    *)
(* the leak's policy unless the leak is one that is rewritten already, to  *)
(* which its change changes nothing (probe.py:91), and then never; and it  *)
(* flags the derived policy only if issue and leak are one text, which the *)
(* change of the leak changes in both, and that text asks for no sum the   *)
(* change of the issue could turn into a product.                          *)
FlagIsPolicy ==
    LET bundle == Bundled(text)
    IN \A b \in {bundle} \cup SurfaceBundles(bundle) :
        /\ Flagged("leak", b) <=> text["leak_carrier"].leak \in {"none", "marker"}
        /\ Flagged("derived", b) =>
                b["issue"] = b["leak_carrier"] /\ text["issue"].asks # "sum"

(* On the agents of the slice the heuristic on the diffs agrees with the   *)
(* gauge probe, with the diff of a second run and without.                 *)
HeuristicAgrees ==
    \A policy \in {"leak", "derived"} :
        \A perturbed \in {NoDiff, ScriptedPerturbed(policy)} :
            RealFlagged(ScriptedDiff(policy), perturbed)
                = Flagged(policy, Bundled(InitialText(instance)))

(* The probe of the reads misses none that carries load, and predicts      *)
(* another one only if it holds the very text of one that does.            *)
ReadsAreExact ==
    LET predicted == Predicted(Bundled(text))
    IN /\ LoadBearing \subseteq predicted
       /\ \A r \in predicted : \E l \in LoadBearing : text[r] = text[l]

(* The published table: if no agent has touched the ledger the slice's     *)
(* catch rate is one, its false positive rate and that of the calibration  *)
(* zero, and the reads are recovered; the pilot flags exactly the rows     *)
(* whose diff has the marker, which with the scripted agents are the       *)
(* leak's.                                                                 *)
PublishedScores ==
    published =>
        /\ DOMAIN rows = Instances
        /\ (script.name = "slice" /\ \A n \in DOMAIN rows : ~rows[n].told) =>
                /\ FlaggedOf("leak") = {n \in Instances : SolveMode(n) = "leak"}
                /\ FlaggedOf("derived") = {}
                /\ \A n \in DOMAIN rows : ~rows[n].surface
        /\ script.name = "read_set" =>
                \A n \in DOMAIN rows : ~rows[n].told => rows[n].predicted = LoadBearing
        /\ script.name = "real" =>
                /\ \A n \in DOMAIN rows : rows[n].flagged = rows[n].marker
                /\ ~script.live =>
                       FlaggedOf("leak") = {n \in Instances : SolveMode(n) = "leak"}

(* The three probes of the evaluations, each at any point of a run.        *)
ProbesAreExact == SliceTypeOK /\ FlagIsPolicy /\ HeuristicAgrees /\ ReadsAreExact
=============================================================================
