-------------------------- MODULE Tournament_proofs --------------------------
(* Theorems about Tournament, for any number of candidates, any tree of    *)
(* finitely many files, any tests and any review penalties.                *)
EXTENDS Tournament, Naturals_proofs

Size(c) == Cardinality(ModifiedFiles(c.tree))

(* A verified candidate modified a positive number of files.               *)
LEMMA SizeLemma ==
    ASSUME NEW c \in CandidateRun, ModifiedFiles(c.tree) # {}
    PROVE  Size(c) \in Nat \ {0}
<1>1. IsFiniteSet(ModifiedFiles(c.tree))
  BY WorkspaceAssumption, FS_Subset DEF ModifiedFiles
<1>2. Cardinality(ModifiedFiles(c.tree)) \in Nat /\ Cardinality(ModifiedFiles(c.tree)) # 0
  BY <1>1, FS_CardinalityType, FS_EmptySet
<1> QED
  BY <1>2 DEF Size

(* A score lies between 0 and 1, in the units of 1/1200.                   *)
LEMMA ScoreLemma ==
    ASSUME NEW c \in CandidateRun, ModifiedFiles(c.tree) # {}
    PROVE  Score(c) \in Nat /\ Score(c) <= 1200
<1> DEFINE focus == 180 \div Size(c)
           diff == IF DiffFiles(c.tree) # {} THEN 60 ELSE 0
           penalty == 12 * (IF c.penalty > 100 THEN 100 ELSE c.penalty)
<1>1. focus \in 0..180
  <2>1. Size(c) \in Nat \ {0} /\ Size(c) <= Size(c)
    BY SizeLemma
  <2> QED
    BY <2>1, ShareLemma
<1>2. diff \in {0, 60}
  OBVIOUS
<1>3. penalty \in Nat
  <2>1. c.penalty \in Nat
    BY TournamentAssumption DEF CandidateRun
  <2> QED
    BY <2>1
<1>4. Score(c) = IF penalty > 960 + focus + diff THEN 0 ELSE (960 + focus + diff) - penalty
  BY DEF Score, Size
<1> HIDE DEF focus, diff, penalty
<1> QED
  BY <1>1, <1>2, <1>3, <1>4

(* A candidate no worse in penalty, number of files and having a diff      *)
(* scores no less, and more if it is better in penalty or diff.            *)
LEMMA ScoreMonotone ==
    ASSUME NEW c \in CandidateRun, ModifiedFiles(c.tree) # {},
           NEW w \in CandidateRun, ModifiedFiles(w.tree) # {},
           c.penalty <= w.penalty, Size(c) <= Size(w),
           DiffFiles(c.tree) = {} => DiffFiles(w.tree) = {}
    PROVE  /\ Score(c) >= Score(w)
           /\ \/ c.penalty < w.penalty
              \/ DiffFiles(c.tree) # {} /\ DiffFiles(w.tree) = {}
              => Score(c) > Score(w) \/ Score(c) = 0
<1> DEFINE focus(x) == 180 \div Size(x)
           diff(x) == IF DiffFiles(x.tree) # {} THEN 60 ELSE 0
           penalty(x) == 12 * (IF x.penalty > 100 THEN 100 ELSE x.penalty)
<1>1. focus(c) \in 0..180 /\ focus(w) \in 0..180 /\ focus(w) <= focus(c)
  BY SizeLemma, ShareLemma
<1>2. diff(c) \in {0, 60} /\ diff(w) \in {0, 60} /\ diff(w) <= diff(c)
  OBVIOUS
<1>3. c.penalty \in Nat /\ w.penalty \in Nat
  BY TournamentAssumption DEF CandidateRun
<1>4. /\ penalty(c) \in Nat /\ penalty(w) \in Nat /\ penalty(c) <= penalty(w)
      /\ c.penalty < w.penalty => penalty(c) < penalty(w) \/ penalty(c) = 1200
  BY <1>3
<1>5. ASSUME NEW x \in {c, w}
      PROVE  Score(x) = IF penalty(x) > 960 + focus(x) + diff(x) THEN 0
                        ELSE (960 + focus(x) + diff(x)) - penalty(x)
  BY DEF Score, Size
<1>6. DiffFiles(c.tree) # {} /\ DiffFiles(w.tree) = {} => diff(w) < diff(c)
  OBVIOUS
<1> DEFINE base(x) == 960 + focus(x) + diff(x)
<1>7. /\ base(c) \in Nat /\ base(w) \in Nat /\ base(c) <= 1200 /\ base(w) <= base(c)
      /\ diff(w) < diff(c) => base(w) < base(c)
  <2>1. focus(c) \in Nat /\ focus(w) \in Nat /\ focus(c) <= 180
    BY <1>1
  <2> HIDE DEF focus, diff
  <2> QED
    BY <1>1, <1>2, <2>1
<1>8. Score(c) = IF penalty(c) > base(c) THEN 0 ELSE base(c) - penalty(c)
  BY <1>5
<1>9. Score(w) = IF penalty(w) > base(w) THEN 0 ELSE base(w) - penalty(w)
  BY <1>5
<1> HIDE DEF focus, diff, penalty, base
<1>10. Score(c) >= Score(w)
  BY <1>4, <1>7, <1>8, <1>9
<1>11. diff(w) < diff(c) => Score(c) > Score(w) \/ Score(c) = 0
  BY <1>4, <1>7, <1>8, <1>9
<1>12. c.penalty < w.penalty => Score(c) > Score(w) \/ Score(c) = 0
  BY <1>4, <1>7, <1>8, <1>9
<1> QED
  BY <1>6, <1>10, <1>11, <1>12

-----------------------------------------------------------------------------

(* Verified candidates are verifiable, as their runs left them.            *)
CandidatesSound(cs) ==
    \A i \in DOMAIN cs : cs[i].success => Verifiable(cs[i].tree)

(* The sort has a first element: the one with the least of each key.       *)
LEMMA SelectLemma ==
    ASSUME NEW cs \in Seq(CandidateRun), CandidatesSound(cs), Verified(cs) # {}
    PROVE  /\ Select(cs) \in Verified(cs)
           /\ \A j \in Verified(cs) \ {Select(cs)} : Better(cs, Select(cs), j)
<1> DEFINE V == Verified(cs)
<1>1. V \subseteq Nat \ {0} /\ \A i \in V : cs[i] \in CandidateRun /\ ModifiedFiles(cs[i].tree) # {}
  <2>1. \A i \in DOMAIN cs : i \in Nat \ {0} /\ cs[i] \in CandidateRun
    OBVIOUS
  <2>2. \A i \in V : i \in DOMAIN cs /\ Verifiable(cs[i].tree)
    BY DEF Verified, CandidatesSound
  <2> QED
    BY <2>1, <2>2 DEF Verifiable
<1>2. \A i \in V : Score(cs[i]) \in Nat /\ Score(cs[i]) <= 1200 /\ Size(cs[i]) \in Nat
  <2> HIDE DEF V
  <2> TAKE i \in V
  <2>1. cs[i] \in CandidateRun /\ ModifiedFiles(cs[i].tree) # {}
    BY <1>1
  <2>2. Score(cs[i]) \in Nat /\ Score(cs[i]) <= 1200
    BY <2>1, ScoreLemma, ZenonT(40)
  <2>3. Size(cs[i]) \in Nat
    BY <2>1, SizeLemma
  <2> QED
    BY <2>2, <2>3
<1> HIDE DEF V
<1> DEFINE Gap(i) == 1200 - Score(cs[i])
           Gaps == {Gap(i) : i \in V}
<1>3. Gaps \subseteq Nat /\ Gaps # {}
  <2>1. \A i \in V : Gap(i) \in Nat
    BY <1>2
  <2>2. V # {}
    BY DEF V
  <2> HIDE DEF Gap
  <2> QED
    BY <2>1, <2>2
<1>4. PICK g \in Gaps : \A n \in Gaps : g <= n
  <2> HIDE DEF Gaps
  <2> QED
    BY <1>3, LeastNat
<1> DEFINE Best == {i \in V : Gap(i) = g}
           Sizes == {Size(cs[i]) : i \in Best}
<1>5. Sizes \subseteq Nat /\ Sizes # {}
  BY <1>2, <1>4
<1>6. PICK s \in Sizes : \A n \in Sizes : s <= n
  <2> HIDE DEF Sizes
  <2> QED
    BY <1>5, LeastNat
<1> DEFINE Smallest == {i \in Best : Size(cs[i]) = s}
<1>7. Smallest \subseteq Nat /\ Smallest # {}
  BY <1>1, <1>6
<1>8. PICK m \in Smallest : \A n \in Smallest : m <= n
  <2> HIDE DEF Smallest
  <2> QED
    BY <1>7, LeastNat
<1>9. ASSUME NEW j \in V \ {m}
      PROVE  Better(cs, m, j)
  <2>1. Score(cs[m]) >= Score(cs[j])
    <3>1. g = 1200 - Score(cs[m]) /\ g <= 1200 - Score(cs[j])
      BY <1>4
    <3>2. Score(cs[m]) \in Nat /\ Score(cs[j]) \in Nat
      BY <1>2
    <3> HIDE DEF Smallest, Best, Gap
    <3> QED
      BY <3>1, <3>2
  <2>2. Score(cs[m]) = Score(cs[j]) => Size(cs[m]) <= Size(cs[j])
    <3>1. Score(cs[m]) = Score(cs[j]) => j \in Best
      OBVIOUS
    <3> QED
      BY <3>1, <1>6
  <2>3. Score(cs[m]) = Score(cs[j]) /\ Size(cs[m]) = Size(cs[j]) => m < j
    <3>1. Score(cs[m]) = Score(cs[j]) /\ Size(cs[m]) = Size(cs[j]) => j \in Smallest
      OBVIOUS
    <3>2. m \in Nat /\ j \in Nat
      BY <1>1
    <3> HIDE DEF Smallest
    <3> QED
      BY <3>1, <3>2, <1>8
  <2>4. m \in V
    OBVIOUS
  <2>5. /\ Score(cs[m]) \in Nat /\ Score(cs[j]) \in Nat
        /\ Size(cs[m]) \in Nat /\ Size(cs[j]) \in Nat
    BY <1>2, <2>4
  <2> HIDE DEF Smallest, Best, Gap
  <2>6. \/ Score(cs[m]) > Score(cs[j])
        \/ Score(cs[m]) = Score(cs[j]) /\ Size(cs[m]) < Size(cs[j])
        \/ Score(cs[m]) = Score(cs[j]) /\ Size(cs[m]) = Size(cs[j]) /\ m < j
    BY <2>1, <2>2, <2>3, <2>5
  <2> QED
    BY <2>6 DEF Better, Size
<1>10. Select(cs) = CHOOSE i \in V : \A j \in V \ {i} : Better(cs, i, j)
  BY DEF Select, V
<1>11. m \in V
  OBVIOUS
<1> HIDE DEF Smallest, Best, Gap
<1> QED
  BY <1>9, <1>10, <1>11 DEF V

-----------------------------------------------------------------------------

(* The winner is what the sort puts first among all the candidates.        *)
WinnerSelected ==
    winner # 0 =>
        /\ winner \in Verified(candidates)
        /\ \A j \in Verified(candidates) \ {winner} : Better(candidates, winner, j)

(* The files not yet copied are the only ones in which the target may      *)
(* still read differently from the winner's copy.                          *)
CopyProgress ==
    pc \in {"apply", "verify"} =>
        /\ winner # 0
        /\ \A f \in Files \ todo : Text(target, f) = Text(candidates[winner].tree, f)

(* What the verifications have established when no check has failed.       *)
ChecksSound ==
    /\ pc \in {"candidates", "apply", "verify"} => checks = {}
    /\ pc = "hardened" /\ checks = {} => Verifiable(target)
    /\ pc = "report" /\ winner # 0 /\ checks = {} =>
        \E t \in Trees : Verifiable(t) /\ <<"pass", target>> \in HardenedRuns[t]

(* The inductive invariant.                                                *)
TInv ==
    /\ TypeOK
    /\ CandidatesSound(candidates)
    /\ pc = "candidates" => winner = 0
    /\ pc \in {"verify", "hardened"} => winner # 0
    /\ winner = 0 => target = Baseline
    /\ WinnerSelected
    /\ CopyProgress
    /\ ChecksSound
    /\ pc = "verify" => todo = {}
    /\ pc # "done" => ~result.success
    /\ SuccessIsVerified

(* Before the first candidate nothing is chosen, copied or checked.        *)
THEOREM InitTInv == Init => TInv
<1> SUFFICES ASSUME Init PROVE TInv
  OBVIOUS
<1>1. TypeOK
  BY WorkspaceAssumption, TournamentAssumption DEF Init, TypeOK
<1>2. CandidatesSound(candidates)
  BY DEF Init, CandidatesSound
<1> QED
  BY <1>1, <1>2 DEF Init, TInv, WinnerSelected, CopyProgress, ChecksSound, SuccessIsVerified

(* Appending a candidate's run leaves the ones before it alone.            *)
LEMMA AppendLemma ==
    ASSUME NEW cs \in Seq(CandidateRun), NEW c \in CandidateRun,
           CandidatesSound(cs), c.success => Verifiable(c.tree)
    PROVE  /\ Append(cs, c) \in Seq(CandidateRun)
           /\ Len(Append(cs, c)) = Len(cs) + 1
           /\ CandidatesSound(Append(cs, c))
<1>1. \A i \in DOMAIN Append(cs, c) :
        (i \in DOMAIN cs /\ Append(cs, c)[i] = cs[i]) \/ Append(cs, c)[i] = c
  OBVIOUS
<1> QED
  BY <1>1 DEF CandidatesSound

(* A candidate's run adds one sound candidate and nothing else.            *)
LEMMA RunCandidateStep == TInv /\ RunCandidate => TInv'
<1> SUFFICES ASSUME TInv, RunCandidate PROVE TInv'
  OBVIOUS
<1>1. PICK t \in Trees, success \in BOOLEAN, penalty \in Penalties :
        /\ success => Verifiable(t)
        /\ candidates' = Append(candidates, [tree |-> t, success |-> success, penalty |-> penalty])
  BY DEF RunCandidate
<1> DEFINE c == [tree |-> t, success |-> success, penalty |-> penalty]
<1>2. c \in CandidateRun /\ c.success = success /\ c.tree = t
  BY DEF CandidateRun
<1>3. candidates \in Seq(CandidateRun) /\ Len(candidates) < NCandidates /\ NCandidates \in Nat
  BY TournamentAssumption DEF TInv, TypeOK, RunCandidate
<1> HIDE DEF c
<1>4. /\ candidates' \in Seq(CandidateRun) /\ Len(candidates') = Len(candidates) + 1
      /\ CandidatesSound(candidates')
  BY <1>1, <1>2, <1>3, AppendLemma DEF TInv, c
<1>5. TypeOK'
  BY <1>3, <1>4 DEF TInv, TypeOK, RunCandidate
<1>6. winner' = 0 /\ pc' = "candidates"
  BY DEF TInv, RunCandidate
<1> QED
  BY <1>4, <1>5, <1>6 DEF TInv, RunCandidate, WinnerSelected, CopyProgress, ChecksSound,
                          SuccessIsVerified

(* The choice is a verified candidate, of which no file is copied yet.     *)
LEMMA SelectWinnerStep == TInv /\ SelectWinner => TInv'
<1> SUFFICES ASSUME TInv, SelectWinner PROVE TInv'
  OBVIOUS
<1>1. candidates \in Seq(CandidateRun) /\ CandidatesSound(candidates)
  BY DEF TInv, TypeOK
<1>2. winner' # 0 =>
        /\ winner' \in Verified(candidates)
        /\ \A j \in Verified(candidates) \ {winner'} : Better(candidates, winner', j)
  BY <1>1, SelectLemma DEF SelectWinner, Select
<1>3. winner' \in Verified(candidates) => winner' \in 1..Len(candidates)
  BY <1>1 DEF Verified
<1>4. /\ target' = target /\ candidates' = candidates /\ checks' = checks /\ result' = result
      /\ target = Baseline /\ pc' \in {"report", "apply"}
      /\ checks = {} /\ ~result.success
  BY DEF TInv, SelectWinner, ChecksSound
<1>5. winner' # 0 => /\ pc' = "apply"
                     /\ todo' = ModifiedFiles(candidates[winner'].tree)
  BY DEF SelectWinner
<1>6. winner' = 0 => pc' = "report" /\ todo' = {}
  BY DEF SelectWinner
<1>7. todo' \subseteq Files
  BY <1>5, <1>6 DEF ModifiedFiles
<1>8. Len(candidates) \in Nat
  BY <1>1
<1>9. TypeOK'
  BY <1>2, <1>3, <1>4, <1>7, <1>8 DEF TInv, TypeOK
<1>10. WinnerSelected'
  <2>1. Verified(candidates') = Verified(candidates)
    BY <1>4
  <2> QED
    BY <1>2, <1>4, <2>1 DEF WinnerSelected
<1>11. CopyProgress'
  BY <1>4, <1>5, <1>6 DEF CopyProgress, ModifiedFiles
<1>12. ChecksSound'
  BY <1>4, <1>5, <1>6 DEF ChecksSound
<1> QED
  BY <1>1, <1>4, <1>5, <1>6, <1>7, <1>9, <1>10, <1>11, <1>12 DEF TInv, SuccessIsVerified

(* A copied file reads as the winner's, and copying it disturbs no other.  *)
LEMMA ApplyFileStep == TInv /\ ApplyFile => TInv'
<1> SUFFICES ASSUME TInv, ApplyFile PROVE TInv'
  OBVIOUS
<1>1. PICK f \in todo :
        /\ ~Unreadable(f)
        /\ target' = EditFile(target, f, candidates[winner].tree[f])
        /\ todo' = todo \ {f}
  BY DEF ApplyFile
<1>2. /\ pc = "apply" /\ pc' = "apply" /\ candidates' = candidates /\ winner' = winner
      /\ checks' = checks /\ result' = result
  BY DEF ApplyFile
<1>3. winner # 0 /\ winner \in DOMAIN candidates /\ todo \subseteq Files
  BY <1>2 DEF TInv, TypeOK, CopyProgress
<1>4. candidates[winner].tree \in Trees /\ target \in Trees
  <2>1. candidates[winner] \in CandidateRun
    BY <1>3 DEF TInv, TypeOK
  <2> QED
    BY <2>1 DEF TInv, TypeOK, CandidateRun
<1>5. target' \in Trees
  BY <1>1, <1>3, <1>4 DEF Trees, EditFile
<1>6. \A g \in Files : target'[g] = IF g = f THEN candidates[winner].tree[f] ELSE target[g]
  BY <1>1, <1>3, <1>4 DEF Trees, EditFile
<1>7. \A g \in Files \ todo' : Text(target', g) = Text(candidates[winner].tree, g)
  <2> SUFFICES ASSUME NEW g \in Files \ todo'
               PROVE  Text(target', g) = Text(candidates[winner].tree, g)
    OBVIOUS
  <2>1. CASE g = f
    BY <1>6, <2>1 DEF Text, Snapshot
  <2>2. CASE g # f
    <3>1. g \in Files \ todo
      BY <1>1, <2>2
    <3>2. Text(target', g) = Text(target, g)
      BY <1>6, <2>2 DEF Text, Snapshot
    <3> QED
      BY <1>2, <3>1, <3>2 DEF TInv, CopyProgress
  <2> QED
    BY <2>1, <2>2
<1>8. TypeOK'
  BY <1>1, <1>2, <1>5 DEF TInv, TypeOK
<1>9. WinnerSelected'
  BY <1>2 DEF TInv, WinnerSelected
<1>10. CopyProgress'
  BY <1>2, <1>3, <1>7 DEF CopyProgress
<1>11. ChecksSound'
  BY <1>2 DEF TInv, ChecksSound
<1> QED
  BY <1>1, <1>2, <1>3, <1>8, <1>9, <1>10, <1>11 DEF TInv, SuccessIsVerified

(* Checks that all pass in the target make its tree verifiable.            *)
LEMMA VerifyTargetStep == TInv /\ VerifyTarget => TInv'
<1> SUFFICES ASSUME TInv, VerifyTarget PROVE TInv'
  OBVIOUS
<1>1. PICK run \in TestRuns[target] :
        /\ target' = run[2]
        /\ checks' = IF run[1] = "error" THEN checks ELSE FailedChecks(run[2], run[1], {})
        /\ pc' = IF run[1] = "error" THEN "raised" ELSE "hardened"
  BY DEF VerifyTarget
<1>2. target \in Trees /\ winner # 0 /\ pc = "verify"
  BY DEF TInv, TypeOK, VerifyTarget
<1>3. TestRuns[target] \in SUBSET (Outcomes \X Trees)
  BY <1>2, VerifierAssumption
<1>4. run[2] \in Trees /\ run = <<run[1], run[2]>>
  BY <1>3
<1>5. checks' \subseteq CheckNames \union {HardenedCheck}
  BY <1>1 DEF TInv, TypeOK, FailedChecks
<1>6. /\ candidates' = candidates /\ winner' = winner /\ todo' = todo /\ result' = result
      /\ pc' \in {"raised", "hardened"}
  BY <1>1 DEF VerifyTarget
<1>7. TypeOK'
  BY <1>1, <1>4, <1>5, <1>6 DEF TInv, TypeOK
<1>8. pc' = "hardened" /\ checks' = {} => Verifiable(target')
  <2> SUFFICES ASSUME pc' = "hardened", checks' = {} PROVE Verifiable(target')
    OBVIOUS
  <2>1. FailedChecks(run[2], run[1], {}) = {}
    BY <1>1
  <2>2. <<run[1], run[2]>> \in TestRuns[target]
    BY <1>4
  <2> QED
    BY <1>1, <1>2, <1>4, <2>1, <2>2, SMTT(60)
         DEF FailedChecks, CheckNames, Verifiable
<1>9. ChecksSound'
  BY <1>6, <1>8 DEF ChecksSound
<1>10. WinnerSelected' /\ CopyProgress'
  BY <1>6 DEF TInv, WinnerSelected, CopyProgress
<1> QED
  BY <1>2, <1>6, <1>7, <1>9, <1>10 DEF TInv, SuccessIsVerified

(* Hardened tests that pass run on a verifiable tree, and leave another.   *)
LEMMA VerifyHardenedStep == TInv /\ VerifyHardened => TInv'
<1> SUFFICES ASSUME TInv, VerifyHardened PROVE TInv'
  OBVIOUS
<1>1. PICK run \in HardenedRuns[target] :
        /\ target' = run[2]
        /\ checks' = IF run[1] = "fail" THEN checks \union {HardenedCheck} ELSE checks
        /\ pc' = IF run[1] = "error" THEN "raised" ELSE "report"
  BY DEF VerifyHardened
<1>2. target \in Trees /\ winner # 0 /\ pc = "hardened"
  BY DEF TInv, TypeOK, VerifyHardened
<1>3. HardenedRuns[target] \in SUBSET (Outcomes \X Trees)
  BY <1>2, TournamentAssumption
<1>4. run[1] \in Outcomes /\ run[2] \in Trees /\ run = <<run[1], run[2]>>
  BY <1>3
<1>5. /\ candidates' = candidates /\ winner' = winner /\ todo' = todo /\ result' = result
      /\ pc' \in {"raised", "report"}
  BY <1>1 DEF VerifyHardened
<1>6. TypeOK'
  BY <1>1, <1>4, <1>5 DEF TInv, TypeOK
<1>7. pc' = "report" /\ checks' = {} =>
        \E t \in Trees : Verifiable(t) /\ <<"pass", target'>> \in HardenedRuns[t]
  <2> SUFFICES ASSUME pc' = "report", checks' = {}
               PROVE  Verifiable(target) /\ <<"pass", target'>> \in HardenedRuns[target]
    BY <1>2
  <2>1. run[1] # "error" /\ run[1] # "fail"
    BY <1>1
  <2>2. checks = {} /\ run[1] = "pass"
    BY <1>1, <1>4, <2>1 DEF Outcomes
  <2> QED
    BY <1>1, <1>2, <1>4, <2>2 DEF TInv, ChecksSound
<1>8. ChecksSound'
  BY <1>5, <1>7 DEF ChecksSound
<1>9. WinnerSelected' /\ CopyProgress'
  BY <1>5 DEF TInv, WinnerSelected, CopyProgress
<1> QED
  BY <1>2, <1>5, <1>6, <1>8, <1>9 DEF TInv, SuccessIsVerified

(* The report is a success only when no check has failed.                  *)
LEMMA ReportStep == TInv /\ Report => TInv'
<1> SUFFICES ASSUME TInv, Report PROVE TInv'
  OBVIOUS
<1>1. /\ pc = "report" /\ pc' = "done"
      /\ result' = [success |-> winner # 0 /\ checks = {}, files |-> ModifiedFiles(target)]
      /\ target' = target /\ candidates' = candidates /\ winner' = winner
      /\ todo' = todo /\ checks' = checks
  BY DEF Report
<1>2. TypeOK'
  BY <1>1 DEF TInv, TypeOK, ModifiedFiles
<1>3. SuccessIsVerified'
  BY <1>1 DEF TInv, ChecksSound, SuccessIsVerified
<1>4. WinnerSelected' /\ CopyProgress' /\ ChecksSound'
  BY <1>1 DEF TInv, WinnerSelected, CopyProgress, ChecksSound
<1> QED
  BY <1>1, <1>2, <1>3, <1>4 DEF TInv

(* Every step of a tournament preserves the invariant.                     *)
THEOREM NextTInv == TInv /\ [Next]_vars => TInv'
<1> SUFFICES ASSUME TInv, [Next]_vars PROVE TInv'
  OBVIOUS
<1>1. CASE CandidateRaises
  BY <1>1 DEF CandidateRaises, TInv, TypeOK, WinnerSelected, CopyProgress, ChecksSound,
              SuccessIsVerified
<1>2. CASE ApplyRaises
  BY <1>2 DEF ApplyRaises, TInv, TypeOK, WinnerSelected, CopyProgress, ChecksSound,
              SuccessIsVerified
<1>3. CASE Applied
  BY <1>3 DEF Applied, TInv, TypeOK, WinnerSelected, CopyProgress, ChecksSound,
              SuccessIsVerified
<1>4. CASE UNCHANGED vars
  BY <1>4 DEF vars, TInv, TypeOK, WinnerSelected, CopyProgress, ChecksSound,
              SuccessIsVerified
<1> QED
  BY <1>1, <1>2, <1>3, <1>4, RunCandidateStep, SelectWinnerStep, ApplyFileStep,
     VerifyTargetStep, VerifyHardenedStep, ReportStep DEF Next, Terminated

(* The invariant holds throughout every tournament.                        *)
LEMMA AlwaysTInv == Spec => []TInv
BY InitTInv, NextTInv, PTL DEF Spec

(* The state is well typed, the winner's index within the candidates run.  *)
THEOREM TournamentTypeCorrect == Spec => []TypeOK
<1>1. TInv => TypeOK
  BY DEF TInv
<1> QED
  BY <1>1, AlwaysTInv, PTL

(* An unverified candidate never reaches the target.                       *)
THEOREM OnlyVerifiedReachesTarget == Spec => []OnlyVerifiedApplied
<1>1. TInv => OnlyVerifiedApplied
  BY DEF TInv, WinnerSelected, Verified, CandidatesSound, OnlyVerifiedApplied
<1> QED
  BY <1>1, AlwaysTInv, PTL

(* The copy of the winner into the target is complete, whatever order the  *)
(* files are copied in.                                                    *)
THEOREM CopyIsComplete == Spec => []PatchApplied
<1>1. TInv => PatchApplied
  BY DEF TInv, CopyProgress, PatchApplied
<1> QED
  BY <1>1, AlwaysTInv, PTL

(* Success means both verifications of the target passed, on any tests.    *)
THEOREM SuccessfulTargetVerified == Spec => []SuccessIsVerified
<1>1. TInv => SuccessIsVerified
  BY DEF TInv
<1> QED
  BY <1>1, AlwaysTInv, PTL

(* The sort chooses a winner no verified candidate dominates, for any      *)
(* number of candidates, any penalties and any sizes of patch.             *)
THEOREM WinnerIsBest == Spec => []WinnerUndominated
<1>1. TInv => WinnerUndominated
  <2> SUFFICES ASSUME TInv, winner # 0, NEW i \in Verified(candidates),
                      candidates[i].penalty <= candidates[winner].penalty,
                      Size(candidates[i]) <= Size(candidates[winner]),
                      DiffFiles(candidates[i].tree) = {} =>
                          DiffFiles(candidates[winner].tree) = {},
                      \/ candidates[i].penalty < candidates[winner].penalty
                      \/ Size(candidates[i]) < Size(candidates[winner])
                      \/ /\ DiffFiles(candidates[i].tree) # {}
                         /\ DiffFiles(candidates[winner].tree) = {},
                      Score(candidates[i]) > 0
               PROVE  FALSE
    BY DEF WinnerUndominated, Size
  <2> DEFINE c == candidates[i]
             w == candidates[winner]
  <2>1. winner \in Verified(candidates)
    BY DEF TInv, WinnerSelected
  <2>2. \A k \in Verified(candidates) :
          /\ candidates[k] \in CandidateRun
          /\ ModifiedFiles(candidates[k].tree) # {}
    <3>1. candidates \in Seq(CandidateRun) /\ CandidatesSound(candidates)
      BY DEF TInv, TypeOK
    <3>2. \A k \in DOMAIN candidates : candidates[k] \in CandidateRun
      BY <3>1
    <3>3. \A k \in Verified(candidates) : k \in DOMAIN candidates /\ Verifiable(candidates[k].tree)
      BY <3>1 DEF Verified, CandidatesSound
    <3> QED
      BY <3>2, <3>3 DEF Verifiable
  <2>3. c \in CandidateRun /\ ModifiedFiles(c.tree) # {}
        /\ w \in CandidateRun /\ ModifiedFiles(w.tree) # {}
    BY <2>1, <2>2
  <2>4. Score(c) \in Nat /\ Score(w) \in Nat /\ Size(c) \in Nat /\ Size(w) \in Nat
    BY <2>3, ScoreLemma, SizeLemma
  <2>5. c.penalty \in Nat /\ w.penalty \in Nat
    BY <2>3, TournamentAssumption DEF CandidateRun
  <2>6. /\ Score(c) >= Score(w)
        /\ \/ c.penalty < w.penalty
           \/ DiffFiles(c.tree) # {} /\ DiffFiles(w.tree) = {}
           => Score(c) > Score(w) \/ Score(c) = 0
    BY <2>3, ScoreMonotone
  <2>7. CASE i = winner
    BY <2>4, <2>5, <2>7
  <2>8. CASE i # winner
    <3>1. \/ Score(w) > Score(c)
          \/ Score(w) = Score(c) /\ Size(w) < Size(c)
          \/ Score(w) = Score(c) /\ Size(w) = Size(c) /\ winner < i
      BY <2>8 DEF TInv, WinnerSelected, Better, Size
    <3> HIDE DEF c, w
    <3>2. Score(w) = Score(c) /\ Size(w) = Size(c)
      BY <2>4, <2>6, <3>1 DEF c, w
    <3> QED
      BY <2>4, <2>6, <3>2 DEF c, w
  <2> QED
    BY <2>7, <2>8
<1> QED
  BY <1>1, AlwaysTInv, PTL

-----------------------------------------------------------------------------

(* Outside of the copy nothing is left to be copied.                       *)
PartialCopy == CopyIsFileByFile /\ (pc \notin {"apply", "raised"} => todo = {})

LEMMA SelectPartial == ASSUME TInv, PartialCopy, SelectWinner PROVE PartialCopy'
<1>1. /\ target' = Baseline /\ candidates' = candidates
      /\ winner' = 0 => todo' = {}
      /\ winner' # 0 => pc' = "apply" /\ todo' = ModifiedFiles(candidates[winner'].tree)
  BY DEF TInv, SelectWinner
<1>2. winner' # 0 =>
        \A f \in Files \ todo' : Text(target', f) = Text(candidates'[winner'].tree, f)
  BY <1>1 DEF ModifiedFiles
<1> QED
  BY <1>1, <1>2 DEF PartialCopy, CopyIsFileByFile

(* A file that is copied leaves the others, and todo, behind it.           *)
LEMMA ApplyPartial == ASSUME TInv, PartialCopy, ApplyFile PROVE PartialCopy'
<1>1. TInv'
  BY ApplyFileStep
<1>2. pc' = "apply" /\ pc = "apply"
  BY DEF ApplyFile
<1>3. \A f \in Files \ todo' : Text(target', f) = Text(candidates'[winner'].tree, f)
  BY <1>1, <1>2 DEF TInv, CopyProgress
<1>4. PICK f \in todo :
        /\ target' = EditFile(target, f, candidates[winner].tree[f])
        /\ todo' = todo \ {f}
  BY DEF ApplyFile
<1>5. todo \subseteq Files /\ target \in Trees
  BY DEF TInv, TypeOK
<1>6. \A g \in todo' : target'[g] = Baseline[g]
  BY <1>4, <1>5 DEF EditFile, Trees, PartialCopy, CopyIsFileByFile
<1> QED
  BY <1>2, <1>3, <1>6 DEF PartialCopy, CopyIsFileByFile

LEMMA PartialStep == ASSUME TInv, PartialCopy, [Next]_vars PROVE PartialCopy'
<1>1. CASE UNCHANGED <<target, candidates, winner, todo>> /\ (pc' = pc \/ pc' = "raised")
  BY <1>1 DEF PartialCopy, CopyIsFileByFile
<1>2. CASE RunCandidate
  BY <1>2 DEF RunCandidate, PartialCopy, CopyIsFileByFile
<1>3. CASE Applied \/ VerifyTarget \/ VerifyHardened \/ Report
  <2>1. todo = {} /\ todo' = {}
    BY <1>3 DEF PartialCopy, Applied, VerifyTarget, VerifyHardened, Report
  <2> QED
    BY <2>1 DEF PartialCopy, CopyIsFileByFile
<1> QED
  BY <1>1, <1>2, <1>3, SelectPartial, ApplyPartial
     DEF Next, vars, CandidateRaises, ApplyRaises, Terminated

(* At whatever file the copy breaks off, every file of the target is as it *)
(* was or reads as the winner's, and todo says which.                      *)
THEOREM HalfCopyIsKnown == Spec => []CopyIsFileByFile
<1>1. Init => PartialCopy
  BY DEF Init, PartialCopy, CopyIsFileByFile
<1>2. PartialCopy => CopyIsFileByFile
  BY DEF PartialCopy
<1> QED
  BY <1>1, <1>2, PartialStep, AlwaysTInv, PTL DEF Spec

(* Where a target comes from that has been verified once, and twice.       *)
Tested(c, t) ==
    \E u \in Trees : /\ \A f \in Files : Text(u, f) = Text(c.tree, f)
                     /\ \E run \in TestRuns[u] : t = run[2]

TestedTwice(c, t) ==
    \E u \in Trees : /\ \A f \in Files : Text(u, f) = Text(c.tree, f)
                     /\ \E run \in TestRuns[u] : \E hardened \in HardenedRuns[run[2]] : t = hardened[2]

Origin ==
    /\ pc = "hardened" => Tested(candidates[winner], target)
    /\ pc \in {"report", "done"} /\ winner # 0 => TestedTwice(candidates[winner], target)

LEMMA OriginStep == ASSUME TInv, Origin, [Next]_vars PROVE Origin'
<1>1. CASE VerifyTarget
  <2>1. pc = "verify" /\ candidates' = candidates /\ winner' = winner /\ target \in Trees
    BY <1>1 DEF VerifyTarget, TInv, TypeOK
  <2>2. \A f \in Files : Text(target, f) = Text(candidates[winner].tree, f)
    BY <2>1 DEF TInv, CopyProgress
  <2>3. (\E run \in TestRuns[target] : target' = run[2]) /\ pc' \in {"raised", "hardened"}
    BY <1>1 DEF VerifyTarget
  <2> QED
    BY <2>1, <2>2, <2>3 DEF Origin, Tested
<1>2. CASE VerifyHardened
  <2>1. /\ pc = "hardened" /\ candidates' = candidates /\ winner' = winner
        /\ pc' \in {"raised", "report"} /\ \E hardened \in HardenedRuns[target] : target' = hardened[2]
    BY <1>2 DEF VerifyHardened
  <2>2. Tested(candidates[winner], target)
    BY <2>1 DEF Origin
  <2>3. TestedTwice(candidates[winner], target')
    BY <2>1, <2>2 DEF Tested, TestedTwice
  <2> QED
    BY <2>1, <2>3 DEF Origin
<1>3. CASE Report
  BY <1>3 DEF Report, Origin
<1>4. CASE SelectWinner
  BY <1>4 DEF SelectWinner, Origin
<1>5. CASE RunCandidate \/ ApplyFile \/ Applied
  BY <1>5 DEF RunCandidate, ApplyFile, Applied, Origin
<1>6. CASE CandidateRaises \/ ApplyRaises
  BY <1>6 DEF CandidateRaises, ApplyRaises, Origin
<1>7. CASE UNCHANGED vars
  BY <1>7 DEF vars, Origin
<1> QED
  BY <1>1, <1>2, <1>3, <1>4, <1>5, <1>6, <1>7 DEF Next, Terminated

(* The tournament never undoes what it applied, on any tests.              *)
THEOREM AppliedStaysApplied == Spec => []FailedPatchStays
<1>1. Init => Origin
  BY DEF Init, Origin
<1>2. Origin => FailedPatchStays
  BY DEF Origin, TestedTwice, FailedPatchStays
<1> QED
  BY <1>1, <1>2, OriginStep, AlwaysTInv, PTL DEF Spec

(* For any candidates, tests and order of the copy the target is accounted *)
(* for at every moment.                                                    *)
THEOREM TargetAccounted == Spec => []TargetIsWinners
<1>1. TypeOK /\ PatchApplied /\ CopyIsFileByFile /\ FailedPatchStays => TargetIsWinners
  BY DEF TargetIsWinners
<1> QED
  BY <1>1, TournamentTypeCorrect, CopyIsComplete, HalfCopyIsKnown, AppliedStaysApplied, PTL
=============================================================================
