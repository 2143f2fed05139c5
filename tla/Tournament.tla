----------------------------- MODULE Tournament -----------------------------
(***************************************************************************)
(* CandidatePatchTournamentRunner.run (lbah/coding/tournament.py): each    *)
(* candidate agent works in its own copy of the target repository, the     *)
(* best of the verified candidates is chosen, its modified files are       *)
(* copied into the target one by one, and the target is verified again,    *)
(* with the hardened tests after the checks.                               *)
(*                                                                         *)
(* A candidate's run is what CodingRun implements, VerifiedCommit: it is   *)
(* accepted on a verifiable tree with no high concern open, rejected on    *)
(* any tree, or raises.  Its runner has no contamination gate.             *)
(***************************************************************************)
EXTENDS Verifier, Sequences

CONSTANTS
    NCandidates,    \* number of candidate agents
    Penalties,      \* what a candidate's open review signals add up to, in hundredths
    HardenedRuns    \* as TestRuns, for the hardened test commands

ASSUME TournamentAssumption ==
    /\ NCandidates \in Nat \ {0}
    /\ Penalties \subseteq Nat
    /\ HardenedRuns \in [Trees -> SUBSET (Outcomes \X Trees)]

VARIABLES
    pc,          \* where the tournament is
    target,      \* the files of the real workspace
    candidates,  \* the finished candidate runs, in order
    winner,      \* index of the winning candidate, 0 for none
    todo,        \* the winner's modified files still to be copied
    checks,      \* the failed checks of the target's verification
    result       \* success and modified files of the tournament's result

vars == <<pc, target, candidates, winner, todo, checks, result>>

HardenedCheck == "hardened_tests_pass"

CandidateRun == [tree: Trees, success: BOOLEAN, penalty: Penalties]

TypeOK ==
    /\ pc \in {"candidates", "apply", "verify", "hardened", "report", "done", "raised"}
    /\ target \in Trees
    /\ candidates \in Seq(CandidateRun) /\ Len(candidates) <= NCandidates
    /\ winner \in 0..Len(candidates)
    /\ todo \subseteq Files
    /\ checks \subseteq CheckNames \union {HardenedCheck}
    /\ result \in [success: BOOLEAN, files: SUBSET Files]

-----------------------------------------------------------------------------

(* Variant: the review penalty is reported and not taken off.              *)
ScoreUnreviewed(c) ==
    960 + 180 \div Cardinality(ModifiedFiles(c.tree))
        + (IF DiffFiles(c.tree) # {} THEN 60 ELSE 0)

(* score_candidate_result of a verified candidate, in units of 1/1200: all *)
(* its checks pass and all its high concerns are closed (0.55 + 0.25), the *)
(* focus of its diff is 0.15 over the number of its files, a diff that is  *)
(* not empty is worth 0.05, and the review penalty, at most 1, is taken    *)
(* off, but not below 0.                                                   *)
Score(c) ==
    LET n       == Cardinality(ModifiedFiles(c.tree))
        focus   == 180 \div n
        diff    == IF DiffFiles(c.tree) # {} THEN 60 ELSE 0
        penalty == 12 * (IF c.penalty > 100 THEN 100 ELSE c.penalty)
        base    == 960 + focus + diff
    IN IF penalty > base THEN 0 ELSE base - penalty

Verified(cs) == {i \in DOMAIN cs : cs[i].success}

(* The sort key: score, then the fewest files, then the order of running.  *)
(* Verified candidates all passed the tests.                               *)
Better(cs, i, j) ==
    LET size(k) == Cardinality(ModifiedFiles(cs[k].tree))
    IN \/ Score(cs[i]) > Score(cs[j])
       \/ Score(cs[i]) = Score(cs[j]) /\ size(i) < size(j)
       \/ Score(cs[i]) = Score(cs[j]) /\ size(i) = size(j) /\ i < j

(* Variant: the candidates are sorted without asking whether they verified.*)
SelectAny(cs) ==
    IF Verified(cs) = {} THEN 0
    ELSE CHOOSE i \in DOMAIN cs : \A j \in DOMAIN cs \ {i} : i < j

Select(cs) ==
    IF Verified(cs) = {} THEN 0
    ELSE CHOOSE i \in Verified(cs) : \A j \in Verified(cs) \ {i} : Better(cs, i, j)

Init ==
    /\ pc = "candidates"
    /\ target = Baseline
    /\ candidates = << >>
    /\ winner = 0 /\ todo = {} /\ checks = {}
    /\ result = [success |-> FALSE, files |-> {}]

(* Variant: one candidate too many.                                        *)
RunCandidateExtra ==
    /\ pc = "candidates" /\ Len(candidates) <= NCandidates
    /\ \E t \in Trees, success \in BOOLEAN, penalty \in Penalties :
        /\ success => Verifiable(t)
        /\ candidates' = Append(candidates, [tree |-> t, success |-> success, penalty |-> penalty])
    /\ UNCHANGED <<pc, target, winner, todo, checks, result>>

(* One candidate runs to its verdict in a copy of the target.              *)
RunCandidate ==
    /\ pc = "candidates" /\ Len(candidates) < NCandidates
    /\ \E t \in Trees, success \in BOOLEAN, penalty \in Penalties :
        /\ success => Verifiable(t)
        /\ candidates' = Append(candidates, [tree |-> t, success |-> success, penalty |-> penalty])
    /\ UNCHANGED <<pc, target, winner, todo, checks, result>>

(* A candidate's run that raises ends the tournament.                      *)
CandidateRaises ==
    /\ pc = "candidates" /\ Len(candidates) < NCandidates
    /\ pc' = "raised"
    /\ UNCHANGED <<target, candidates, winner, todo, checks, result>>

SelectWinner ==
    /\ pc = "candidates" /\ Len(candidates) = NCandidates
    /\ winner' = Select(candidates)
    /\ pc' = IF winner' = 0 THEN "report" ELSE "apply"
    /\ todo' = IF winner' = 0 THEN {} ELSE ModifiedFiles(candidates[winner'].tree)
    /\ UNCHANGED <<target, candidates, checks, result>>

(* Reading the winner's file, and the target's before it is overwritten,   *)
(* raises on bytes that do not decode; a deletion reads neither.           *)
Unreadable(f) ==
    LET source == candidates[winner].tree[f]
    IN source # Absent /\ Binary \in {source, target[f]}

(* Variant: files the winner removed are left alone.                       *)
ApplyFileKeepRemoved ==
    /\ pc = "apply"
    /\ \E f \in todo :
        /\ ~Unreadable(f)
        /\ target' = IF candidates[winner].tree[f] = Absent THEN target
                     ELSE EditFile(target, f, candidates[winner].tree[f])
        /\ todo' = todo \ {f}
    /\ UNCHANGED <<pc, candidates, winner, checks, result>>

(* Variant: a file that does not decode is passed over.                    *)
ApplyFileSkipping ==
    /\ pc = "apply"
    /\ \E f \in todo :
        /\ target' = IF Unreadable(f) THEN target
                     ELSE EditFile(target, f, candidates[winner].tree[f])
        /\ todo' = todo \ {f}
    /\ UNCHANGED <<pc, candidates, winner, checks, result>>

(* One file of the winner is written to the target, or removed from it.    *)
ApplyFile ==
    /\ pc = "apply"
    /\ \E f \in todo :
        /\ ~Unreadable(f)
        /\ target' = EditFile(target, f, candidates[winner].tree[f])
        /\ todo' = todo \ {f}
    /\ UNCHANGED <<pc, candidates, winner, checks, result>>

(* An unreadable file ends the tournament in the middle of the copy.       *)
ApplyRaises ==
    /\ pc = "apply"
    /\ \E f \in todo : Unreadable(f)
    /\ pc' = "raised"
    /\ UNCHANGED <<target, candidates, winner, todo, checks, result>>

Applied ==
    /\ pc = "apply" /\ todo = {}
    /\ pc' = "verify"
    /\ UNCHANGED <<target, candidates, winner, todo, checks, result>>

(* Variant: the winner's verdict in its own copy is trusted.               *)
VerifyTargetTrusting ==
    /\ pc = "verify"
    /\ checks' = {}
    /\ pc' = "hardened"
    /\ UNCHANGED <<target, candidates, winner, todo, result>>

(* The target is verified with the winner's ledger, where no high concern  *)
(* is open.  Nothing guards it.                                            *)
VerifyTarget ==
    /\ pc = "verify"
    /\ \E run \in TestRuns[target] :
        /\ target' = run[2]
        /\ checks' = IF run[1] = "error" THEN checks ELSE FailedChecks(run[2], run[1], {})
        /\ pc' = IF run[1] = "error" THEN "raised" ELSE "hardened"
    /\ UNCHANGED <<candidates, winner, todo, result>>

VerifyHardened ==
    /\ pc = "hardened"
    /\ \E run \in HardenedRuns[target] :
        /\ target' = run[2]
        /\ checks' = IF run[1] = "fail" THEN checks \union {HardenedCheck} ELSE checks
        /\ pc' = IF run[1] = "error" THEN "raised" ELSE "report"
    /\ UNCHANGED <<candidates, winner, todo, result>>

(* Variant: a patch whose verification failed is taken back.               *)
ReportRestoring ==
    /\ pc = "report"
    /\ target' = IF checks = {} THEN target ELSE Baseline
    /\ result' = [success |-> winner # 0 /\ checks = {}, files |-> ModifiedFiles(target')]
    /\ pc' = "done"
    /\ UNCHANGED <<candidates, winner, todo, checks>>

Report ==
    /\ pc = "report"
    /\ result' = [success |-> winner # 0 /\ checks = {}, files |-> ModifiedFiles(target)]
    /\ pc' = "done"
    /\ UNCHANGED <<target, candidates, winner, todo, checks>>

Terminated == pc \in {"done", "raised"} /\ UNCHANGED vars

Next ==
    \/ RunCandidate \/ CandidateRaises \/ SelectWinner
    \/ ApplyFile \/ ApplyRaises \/ Applied
    \/ VerifyTarget \/ VerifyHardened \/ Report
    \/ Terminated

Spec == Init /\ [][Next]_vars
-----------------------------------------------------------------------------

(* A candidate that fails its own verification is never applied: the       *)
(* target changes only once a winner is chosen, and a winner is verified.  *)
OnlyVerifiedApplied ==
    /\ winner # 0 => candidates[winner].success /\ Verifiable(candidates[winner].tree)
    /\ winner = 0 => target = Baseline

(* No verified candidate is at least as good as the winner in penalty,     *)
(* number of files and having a diff, and better in one of them, unless    *)
(* penalties have brought it to the floor of the score.                    *)
WinnerUndominated ==
    winner # 0 => \A i \in Verified(candidates) :
        LET w == candidates[winner]
            c == candidates[i]
            size(x) == Cardinality(ModifiedFiles(x.tree))
            empty(x) == IF DiffFiles(x.tree) = {} THEN 1 ELSE 0
        IN ~ /\ c.penalty <= w.penalty /\ size(c) <= size(w) /\ empty(c) <= empty(w)
             /\ c.penalty < w.penalty \/ size(c) < size(w) \/ empty(c) < empty(w)
             /\ Score(c) > 0

(* The patch that reaches the target is the winner's: when the copy is     *)
(* complete every file of the target reads as in the winner's copy,        *)
(* whatever was created, rewritten or removed.                             *)
PatchApplied ==
    pc = "verify" => \A f \in Files : Text(target, f) = Text(candidates[winner].tree, f)

(* A tournament succeeds only with a target that the hardened tests passed *)
(* on as the last thing that touched it, after the checks had all passed   *)
(* on what they were run on.                                               *)
SuccessIsVerified ==
    pc = "done" /\ result.success =>
        \E t \in Trees : Verifiable(t) /\ <<"pass", target>> \in HardenedRuns[t]

(* There is no rollback: when the copy is broken off in the middle by an   *)
(* undecodable file, each file is either as before or reads as in the      *)
(* winner's copy, and the files not reached are the ones left alone.       *)
CopyIsFileByFile ==
    todo # {} => \A f \in Files :
        IF f \in todo THEN target[f] = Baseline[f]
        ELSE Text(target, f) = Text(candidates[winner].tree, f)

(* Nor is a winner taken back, or the next best tried, when the target's   *)
(* own verification fails: the target keeps the winner's patch and what    *)
(* the two runs of tests made of it, whether the tournament succeeds.      *)
FailedPatchStays ==
    pc = "done" /\ winner # 0 => \E t \in Trees :
        /\ \A f \in Files : Text(t, f) = Text(candidates[winner].tree, f)
        /\ \E run \in TestRuns[t] :
            \E hardened \in HardenedRuns[run[2]] : target = hardened[2]

(* The target at any moment, and after: the baseline, so much of the       *)
(* winner as was copied, or what the tests made of the whole of it.        *)
TargetIsWinners == TypeOK /\ PatchApplied /\ CopyIsFileByFile /\ FailedPatchStays
=============================================================================
