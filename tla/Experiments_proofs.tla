-------------------------- MODULE Experiments_proofs --------------------------
(***************************************************************************)
(* Theorems about CandidateMatrix, for any number of candidates, instances *)
(* and matrices, written one over the other and killed at any file, and    *)
(* about ExperimentArms, for any arms and instances and any launches side  *)
(* by side.                                                                *)
(*                                                                         *)
(* The order of the files is an invariant of the place in the writing:     *)
(* Written says which files are of the newest matrix already, Ordered that *)
(* wherever the writing stops none is older than what names it.            *)
(***************************************************************************)
EXTENDS Experiments, Naturals_proofs

Matrix == [jobs : Jobs, strict : BOOLEAN]

Typed ==
    /\ matrices \in Seq(Matrix) /\ results = Len(matrices) /\ results \in Nat
    /\ manifest \in 0..results
    /\ predictions \in [Candidates -> 0..results] /\ instanceIds \in [Candidates -> 0..results]
    /\ commands \in [Candidates -> 0..results] /\ subsets \in [Candidates -> 0..results]
    /\ writing \in 0..LastWrite /\ torn \in BOOLEAN

(* The matrix that is being written, and the one of the manifest, were not *)
(* refused.                                                                *)
Accepted ==
    /\ writing # Idle => results # 0 /\ ~Refused(matrices[results])
    /\ manifest # 0 => ~Refused(matrices[manifest])

Ordered ==
    \A c \in Candidates :
        /\ manifest <= subsets[c] /\ subsets[c] <= commands[c]
        /\ commands[c] <= instanceIds[c] /\ instanceIds[c] <= predictions[c]

Written ==
    writing # Idle => \A c \in Candidates :
        /\ Turn(c) < writing => predictions[c] = results
        /\ Turn(c) + 1 < writing => instanceIds[c] = results
        /\ Turn(c) + 2 < writing => commands[c] = results
        /\ Turn(c) + 3 < writing => subsets[c] = results

Settled ==
    writing = Idle /\ ~torn =>
        \A c \in Candidates :
            {predictions[c], instanceIds[c], commands[c], subsets[c]} = {manifest}

MInv == Typed /\ Accepted /\ Ordered /\ Written /\ Settled

-----------------------------------------------------------------------------

LEMMA CountLemma == Count \in Nat /\ Count >= 1 /\ Count \in Candidates
BY MatrixAssumption DEF Candidates

(* What was written before a matrix stays as it was.                       *)
LEMMA AppendLemma ==
    ASSUME NEW s \in Seq(Matrix), NEW m \in Matrix
    PROVE  /\ Append(s, m) \in Seq(Matrix) /\ Len(Append(s, m)) = Len(s) + 1
           /\ Append(s, m)[Len(s) + 1] = m
           /\ \A n \in 1..Len(s) : Append(s, m)[n] = s[n]
OBVIOUS

LEMMA InitInv == Init => MInv
<1> SUFFICES ASSUME Init PROVE MInv
  OBVIOUS
<1>1. /\ matrices = << >> /\ results = 0 /\ manifest = 0 /\ writing = Idle /\ torn = FALSE
      /\ \A c \in Candidates :
            predictions[c] = 0 /\ instanceIds[c] = 0 /\ commands[c] = 0 /\ subsets[c] = 0
  BY DEF Init
<1>2. /\ predictions \in [Candidates -> 0..results] /\ instanceIds \in [Candidates -> 0..results]
      /\ commands \in [Candidates -> 0..results] /\ subsets \in [Candidates -> 0..results]
  BY DEF Init
<1>3. Typed
  <2>1. << >> \in Seq(Matrix) /\ Len(<< >>) = 0
    OBVIOUS
  <2>2. writing \in 0..LastWrite /\ manifest \in 0..results /\ results \in Nat
    BY <1>1, CountLemma DEF Idle, LastWrite
  <2>3. torn \in BOOLEAN
    BY <1>1
  <2>4. matrices \in Seq(Matrix) /\ results = Len(matrices)
    BY <1>1, <2>1
  <2> QED
    BY <1>2, <2>2, <2>3, <2>4 DEF Typed
<1> QED
  BY <1>1, <1>3 DEF MInv, Accepted, Ordered, Written, Settled

LEMMA StartMatrixInv == ASSUME MInv, StartMatrix PROVE MInv'
<1>1. PICK jobs \in Jobs, strict \in BOOLEAN :
        LET matrix == [jobs |-> jobs, strict |-> strict]
        IN /\ matrices' = Append(matrices, matrix)
           /\ writing' = IF Refused(matrix) THEN Idle ELSE 1
  BY DEF StartMatrix
<1> DEFINE matrix == [jobs |-> jobs, strict |-> strict]
<1>2. matrix \in Matrix
  BY DEF Matrix
<1>3. /\ matrices' = Append(matrices, matrix)
      /\ writing' = IF Refused(matrix) THEN Idle ELSE 1
  BY <1>1
<1> HIDE DEF matrix
<1>4. /\ writing = Idle /\ results' = Len(matrices')
      /\ UNCHANGED <<predictions, instanceIds, commands, subsets, manifest, reports, torn>>
  BY DEF StartMatrix, files
<1>5. /\ matrices \in Seq(Matrix) /\ results = Len(matrices) /\ results \in Nat
      /\ manifest \in 0..results
      /\ predictions \in [Candidates -> 0..results] /\ instanceIds \in [Candidates -> 0..results]
      /\ commands \in [Candidates -> 0..results] /\ subsets \in [Candidates -> 0..results]
  BY DEF MInv, Typed
<1>6. /\ matrices' \in Seq(Matrix) /\ results' = results + 1
      /\ matrices'[results'] = matrix
      /\ \A n \in 1..results : matrices'[n] = matrices[n]
  BY <1>2, <1>3, <1>4, <1>5, AppendLemma
<1>7. Typed'
  BY <1>3, <1>4, <1>5, <1>6, CountLemma DEF MInv, Typed, Idle, LastWrite
<1>8. Accepted'
  <2>1. writing' # Idle => ~Refused(matrices'[results'])
    BY <1>3, <1>6
  <2>2. manifest' # 0 => ~Refused(matrices'[manifest'])
    <3> SUFFICES ASSUME manifest # 0 PROVE ~Refused(matrices'[manifest])
      BY <1>4
    <3>1. matrices'[manifest] = matrices[manifest]
      BY <1>5, <1>6
    <3> QED
      BY <3>1 DEF MInv, Accepted
  <2> QED
    BY <1>5, <1>6, <2>1, <2>2 DEF Accepted
<1>9. Ordered' /\ Settled'
  BY <1>4 DEF MInv, Ordered, Settled
<1>10. Written'
  BY <1>3, MatrixAssumption DEF Written, Idle, Turn, Candidates
<1> QED
  BY <1>7, <1>8, <1>9, <1>10 DEF MInv

(* The files of a matrix, written one after the other.                     *)
LEMMA WritePredictionsInv ==
    ASSUME MInv, NEW c \in Candidates, WritePredictions(c)
    PROVE  MInv'
<1>1. /\ writing = Turn(c) /\ writing' = writing + 1
      /\ predictions' = [predictions EXCEPT ![c] = results]
      /\ UNCHANGED <<matrices, results, instanceIds, commands, subsets, manifest, reports, torn>>
  BY DEF WritePredictions
<1>2. c \in 1..Count /\ Count \in Nat
  BY CountLemma DEF Candidates
<1>3. Typed'
  BY <1>1, <1>2 DEF MInv, Typed, Turn, LastWrite
<1>4. Accepted'
  BY <1>1, <1>2 DEF MInv, Accepted, Turn, Idle
<1>5. Ordered'
  BY <1>1, <1>2 DEF MInv, Typed, Ordered
<1>6. Written'
  BY <1>1, <1>2 DEF MInv, Typed, Written, Turn, Idle, Candidates
<1>7. Settled'
  BY <1>1, <1>2 DEF Settled, Turn, Idle
<1> QED
  BY <1>3, <1>4, <1>5, <1>6, <1>7 DEF MInv

LEMMA WriteInstanceIdsInv ==
    ASSUME MInv, NEW c \in Candidates, WriteInstanceIds(c)
    PROVE  MInv'
<1>1. /\ writing = Turn(c) + 1 /\ writing' = writing + 1
      /\ instanceIds' = [instanceIds EXCEPT ![c] = results]
      /\ UNCHANGED <<matrices, results, predictions, commands, subsets, manifest, reports, torn>>
  BY DEF WriteInstanceIds
<1>2. c \in 1..Count /\ Count \in Nat
  BY CountLemma DEF Candidates
<1>3. Typed'
  BY <1>1, <1>2 DEF MInv, Typed, Turn, LastWrite
<1>4. Accepted'
  BY <1>1, <1>2 DEF MInv, Accepted, Turn, Idle
<1>5. Ordered'
  <2>1. predictions[c] = results
    BY <1>1, <1>2 DEF MInv, Written, Turn, Idle
  <2> QED
    BY <1>1, <1>2, <2>1 DEF MInv, Typed, Ordered
<1>6. Written'
  BY <1>1, <1>2 DEF MInv, Typed, Written, Turn, Idle, Candidates
<1>7. Settled'
  BY <1>1, <1>2 DEF Settled, Turn, Idle
<1> QED
  BY <1>3, <1>4, <1>5, <1>6, <1>7 DEF MInv

LEMMA WriteCommandInv ==
    ASSUME MInv, NEW c \in Candidates, WriteCommand(c)
    PROVE  MInv'
<1>1. /\ writing = Turn(c) + 2 /\ writing' = writing + 1
      /\ commands' = [commands EXCEPT ![c] = results]
      /\ UNCHANGED <<matrices, results, predictions, instanceIds, subsets, manifest, reports, torn>>
  BY DEF WriteCommand
<1>2. c \in 1..Count /\ Count \in Nat
  BY CountLemma DEF Candidates
<1>3. Typed'
  BY <1>1, <1>2 DEF MInv, Typed, Turn, LastWrite
<1>4. Accepted'
  BY <1>1, <1>2 DEF MInv, Accepted, Turn, Idle
<1>5. Ordered'
  <2>1. instanceIds[c] = results
    BY <1>1, <1>2 DEF MInv, Written, Turn, Idle
  <2> QED
    BY <1>1, <1>2, <2>1 DEF MInv, Typed, Ordered
<1>6. Written'
  BY <1>1, <1>2 DEF MInv, Typed, Written, Turn, Idle, Candidates
<1>7. Settled'
  BY <1>1, <1>2 DEF Settled, Turn, Idle
<1> QED
  BY <1>3, <1>4, <1>5, <1>6, <1>7 DEF MInv

LEMMA WriteSubsetsInv ==
    ASSUME MInv, NEW c \in Candidates, WriteSubsets(c)
    PROVE  MInv'
<1>1. /\ writing = Turn(c) + 3 /\ writing' = writing + 1
      /\ subsets' = [subsets EXCEPT ![c] = results]
      /\ UNCHANGED <<matrices, results, predictions, instanceIds, commands, manifest, reports, torn>>
  BY DEF WriteSubsets
<1>2. c \in 1..Count /\ Count \in Nat
  BY CountLemma DEF Candidates
<1>3. Typed'
  BY <1>1, <1>2 DEF MInv, Typed, Turn, LastWrite
<1>4. Accepted'
  BY <1>1, <1>2 DEF MInv, Accepted, Turn, Idle
<1>5. Ordered'
  <2>1. commands[c] = results
    BY <1>1, <1>2 DEF MInv, Written, Turn, Idle
  <2> QED
    BY <1>1, <1>2, <2>1 DEF MInv, Typed, Ordered
<1>6. Written'
  BY <1>1, <1>2 DEF MInv, Typed, Written, Turn, Idle, Candidates
<1>7. Settled'
  BY <1>1, <1>2 DEF Settled, Turn, Idle
<1> QED
  BY <1>3, <1>4, <1>5, <1>6, <1>7 DEF MInv

(* When the manifest's turn comes, everything it names has been written.   *)
LEMMA WriteManifestInv == ASSUME MInv, WriteManifest PROVE MInv'
<1>1. /\ writing = LastWrite /\ manifest' = results /\ writing' = Idle /\ torn' = FALSE
      /\ UNCHANGED <<matrices, results, predictions, instanceIds, commands, subsets, reports>>
  BY DEF WriteManifest, files
<1>2. \A c \in Candidates :
        /\ predictions[c] = results /\ instanceIds[c] = results
        /\ commands[c] = results /\ subsets[c] = results
  BY <1>1, CountLemma DEF MInv, Written, Turn, Idle, LastWrite, Candidates
<1>3. Typed'
  <2>1. Typed
    BY DEF MInv
  <2>2. manifest' \in 0..results' /\ writing' \in 0..LastWrite
    BY <1>1, <2>1, CountLemma DEF Typed, Idle, LastWrite
  <2>3. torn' \in BOOLEAN
    BY <1>1
  <2> QED
    BY <1>1, <2>1, <2>2, <2>3 DEF Typed
<1>4. Accepted'
  BY <1>1, CountLemma DEF MInv, Accepted, Idle, LastWrite
<1>5. Ordered' /\ Settled'
  BY <1>1, <1>2 DEF MInv, Typed, Ordered, Settled
<1>6. Written'
  BY <1>1 DEF Written
<1> QED
  BY <1>3, <1>4, <1>5, <1>6 DEF MInv

LEMMA KillInv == ASSUME MInv, Kill PROVE MInv'
<1>1. /\ writing' = Idle /\ torn' = TRUE
      /\ UNCHANGED <<matrices, results, predictions, instanceIds, commands, subsets, manifest, reports>>
  BY DEF Kill, files
<1>2. Typed'
  BY <1>1, CountLemma DEF MInv, Typed, Idle, LastWrite
<1>3. Accepted' /\ Ordered' /\ Written' /\ Settled'
  BY <1>1 DEF MInv, Accepted, Ordered, Written, Settled
<1> QED
  BY <1>2, <1>3 DEF MInv

LEMMA UntouchedInv ==
    ASSUME MInv, UNCHANGED <<matrices, results, files, manifest, writing, torn>>
    PROVE  MInv'
BY DEF files, MInv, Typed, Accepted, Ordered, Written, Settled

LEMMA MInvStep == MInv /\ [Next]_vars => MInv'
<1> SUFFICES ASSUME MInv, [Next]_vars PROVE MInv'
  OBVIOUS
<1>1. CASE \E c \in Candidates : Grade(c)
  BY <1>1, UntouchedInv DEF Grade
<1>2. CASE UNCHANGED vars
  BY <1>2, UntouchedInv DEF vars
<1> QED
  BY <1>1, <1>2, StartMatrixInv, WritePredictionsInv, WriteInstanceIdsInv, WriteCommandInv,
     WriteSubsetsInv, WriteManifestInv, KillInv DEF Next

LEMMA AlwaysMInv == Spec => []MInv
BY InitInv, MInvStep, PTL DEF Spec

(* Wherever write_swebench_candidate_matrix is killed, the manifest is not *)
(* newer than a file of its candidates, nor any of those than the one      *)
(* written before it.                                                      *)
THEOREM ManifestComesLast == Spec => []ManifestIsLast
<1>1. MInv => ManifestIsLast
  BY DEF MInv, Ordered, Settled, ManifestIsLast
<1> QED
  BY <1>1, AlwaysMInv, PTL

(* A strict manifest is of a matrix all of whose jobs predicted.           *)
THEOREM StrictComplete == Spec => []StrictIsComplete
<1>1. MInv => StrictIsComplete
  BY DEF MInv, Accepted, Refused, Failed, StrictIsComplete
<1> QED
  BY <1>1, AlwaysMInv, PTL

(* So the manifest can be relied on, in whatever state the directory is.   *)
THEOREM ManifestSound == Spec => []ManifestIsSound
<1>1. ManifestIsLast /\ StrictIsComplete => ManifestIsSound
  BY DEF ManifestIsSound
<1> QED
  BY <1>1, ManifestComesLast, StrictComplete, PTL

-----------------------------------------------------------------------------

(* The reports: each is of the predictions it was graded with.             *)
Graded ==
    /\ DOMAIN reports = Candidates
    /\ \A c \in Candidates :
        /\ reports[c].matrix # 0 =>
              DOMAIN reports[c].verdicts \subseteq Lines(matrices[reports[c].matrix], c)
        /\ reports[c].matrix \in 0..results
        /\ \A i \in DOMAIN reports[c].verdicts : reports[c].verdicts[i] \in Verdicts

LEMMA GradedInit == Init => Graded
<1> SUFFICES ASSUME Init PROVE Graded
  OBVIOUS
<1>1. results = 0 /\ reports = [c \in Candidates |-> NoReport]
  BY DEF Init
<1>2. NoReport.matrix = 0 /\ DOMAIN NoReport.verdicts = {}
  BY DEF NoReport
<1> QED
  BY <1>1, <1>2 DEF Graded

(* A report is of one matrix, and of instances its candidate predicted.    *)
LEMMA GradeGraded ==
    ASSUME MInv, Graded, NEW c \in Candidates, Grade(c)
    PROVE  Graded'
<1>1. PICK verdicts \in [Lines(matrices[commands[c]], c) \intersect Lines(matrices[predictions[c]], c)
                           -> Verdicts] :
        reports' = [reports EXCEPT ![c] = [matrix |-> predictions[c], verdicts |-> verdicts]]
  BY DEF Grade
<1>2. UNCHANGED <<matrices, results, predictions>>
  BY DEF Grade, files
<1>3. predictions[c] \in 0..results
  BY DEF MInv, Typed
<1>4. /\ DOMAIN verdicts \subseteq Lines(matrices[predictions[c]], c)
      /\ \A i \in DOMAIN verdicts : verdicts[i] \in Verdicts
  BY <1>1
<1>5. /\ reports'[c] = [matrix |-> predictions[c], verdicts |-> verdicts]
      /\ DOMAIN reports' = Candidates
      /\ \A d \in Candidates \ {c} : reports'[d] = reports[d]
  BY <1>1 DEF Graded
<1> QED
  BY <1>2, <1>3, <1>4, <1>5 DEF Graded

(* A new matrix leaves those that were graded as they were.                *)
LEMMA StartGraded == ASSUME MInv, Graded, StartMatrix PROVE Graded'
<1>1. \E m \in Matrix : matrices' = Append(matrices, m)
  BY DEF StartMatrix, Matrix
<1>2. results' = Len(matrices') /\ reports' = reports
  BY DEF StartMatrix
<1>3. matrices \in Seq(Matrix) /\ results = Len(matrices) /\ results \in Nat
  BY DEF MInv, Typed
<1>4. results' = results + 1 /\ \A n \in 1..results : matrices'[n] = matrices[n]
  BY <1>1, <1>2, <1>3, AppendLemma
<1>5. ASSUME NEW c \in Candidates
      PROVE  /\ reports[c].matrix # 0 => reports[c].matrix \in 1..results
             /\ reports[c].matrix \in 0..results'
  BY <1>3, <1>4 DEF Graded
<1> QED
  BY <1>2, <1>4, <1>5 DEF Graded

LEMMA GradedStep == MInv /\ Graded /\ [Next]_vars => Graded'
<1> SUFFICES ASSUME MInv, Graded, [Next]_vars PROVE Graded'
  OBVIOUS
<1>1. ASSUME UNCHANGED <<matrices, results, reports>> PROVE Graded'
  BY <1>1 DEF Graded
<1>2. CASE \E c \in Candidates :
              WritePredictions(c) \/ WriteInstanceIds(c) \/ WriteCommand(c) \/ WriteSubsets(c)
  BY <1>1, <1>2 DEF WritePredictions, WriteInstanceIds, WriteCommand, WriteSubsets
<1>3. CASE WriteManifest \/ Kill \/ UNCHANGED vars
  BY <1>1, <1>3 DEF WriteManifest, Kill, vars
<1> QED
  BY <1>2, <1>3, StartGraded, GradeGraded DEF Next

LEMMA AlwaysGraded == Spec => []Graded
BY GradedInit, GradedStep, AlwaysMInv, PTL DEF Spec

(* Every status is one of the order, and a candidate with a report that is *)
(* not missing has a verdict of that instance.                             *)
LEMMA StatusLemma ==
    ASSUME Graded, NEW given, NEW c \in Candidates, NEW i
    PROVE  /\ Status(given, c, i) \in {"resolved", "unresolved", "error", "missing"}
           /\ Status(given, c, i) # "missing" => c \in given /\ i \in DOMAIN reports[c].verdicts
BY DEF Graded, Status, Verdicts

(* The selected candidate has the selected status, which is the first of   *)
(* the order that any has.                                                 *)
LEMMA OutcomeLemma ==
    ASSUME Graded, NEW given, NEW i
    PROVE  LET outcome == Outcome(given, i)
               Having(status) == WithStatus(given, i, status) # {}
           IN /\ outcome.selected \in WithStatus(given, i, outcome.status)
              /\ outcome.status = "resolved" <=> Having("resolved")
              /\ outcome.status = "unresolved" <=> ~Having("resolved") /\ Having("unresolved")
              /\ outcome.status = "error" <=>
                    ~Having("resolved") /\ ~Having("unresolved") /\ Having("error")
              /\ outcome.status \in {"resolved", "unresolved", "error", "missing"}
<1> DEFINE First(k) == /\ WithStatus(given, i, StatusOrder[k]) # {}
                       /\ \A j \in 1..(k - 1) : WithStatus(given, i, StatusOrder[j]) = {}
           best == CHOOSE k \in 1..4 : First(k)
           having == WithStatus(given, i, StatusOrder[best])
           selected == CHOOSE c \in having : \A d \in having : c <= d
<1>1. /\ StatusOrder[1] = "resolved" /\ StatusOrder[2] = "unresolved"
      /\ StatusOrder[3] = "error" /\ StatusOrder[4] = "missing"
  BY DEF StatusOrder
<1>2. PICK m \in 1..4 : WithStatus(given, i, StatusOrder[m]) # {}
  <2>1. PICK s \in {"resolved", "unresolved", "error", "missing"} : Status(given, Count, i) = s
    BY CountLemma, StatusLemma
  <2>2. Count \in WithStatus(given, i, s)
    BY <2>1, CountLemma DEF WithStatus
  <2> QED
    BY <1>1, <2>2
<1>3. \E k \in 1..4 : First(k)
  <2> DEFINE W(j) == WithStatus(given, i, StatusOrder[j]) # {}
  <2>1. \E j \in 1..4 : W(j)
    BY <1>2
  <2>2. \E k \in 1..4 : W(k) /\ \A j \in 1..(k - 1) : ~W(j)
    <3> HIDE DEF W
    <3>1. CASE W(1)
      BY <3>1
    <3>2. CASE ~W(1) /\ W(2)
      BY <3>2
    <3>3. CASE ~W(1) /\ ~W(2) /\ W(3)
      BY <3>3
    <3>4. CASE ~W(1) /\ ~W(2) /\ ~W(3) /\ W(4)
      BY <3>4
    <3> QED
      BY <2>1, <3>1, <3>2, <3>3, <3>4
  <2> QED
    BY <2>2
<1> HIDE DEF First
<1>4. best \in 1..4 /\ First(best)
  BY <1>3
<1> HIDE DEF best
<1>5. /\ having # {} /\ having \subseteq Nat
      /\ \A j \in 1..(best - 1) : WithStatus(given, i, StatusOrder[j]) = {}
  BY <1>4 DEF First, WithStatus, Candidates
<1> HIDE DEF having
<1>6. selected \in having
  <2>1. \E c \in having : \A d \in having : c <= d
    BY <1>5, LeastNat
  <2> QED
    BY <2>1
<1>7. Outcome(given, i) = [selected |-> selected, status |-> StatusOrder[best]]
  BY DEF Outcome, having, best, First
<1> HIDE DEF selected
<1>8. Outcome(given, i).selected = selected /\ Outcome(given, i).status = StatusOrder[best]
  BY <1>7
<1>9. CASE best = 1
  BY <1>1, <1>5, <1>6, <1>8, <1>9 DEF having
<1>10. CASE best = 2
  <2>1. WithStatus(given, i, StatusOrder[1]) = {}
    BY <1>5, <1>10
  <2> QED
    BY <1>1, <1>5, <1>6, <1>8, <1>10, <2>1 DEF having
<1>11. CASE best = 3
  <2>1. WithStatus(given, i, StatusOrder[1]) = {} /\ WithStatus(given, i, StatusOrder[2]) = {}
    BY <1>5, <1>11
  <2> QED
    BY <1>1, <1>5, <1>6, <1>8, <1>11, <2>1 DEF having
<1>12. CASE best = 4
  <2>1. /\ WithStatus(given, i, StatusOrder[1]) = {} /\ WithStatus(given, i, StatusOrder[2]) = {}
        /\ WithStatus(given, i, StatusOrder[3]) = {}
    BY <1>5, <1>12
  <2> QED
    BY <1>1, <1>6, <1>8, <1>12, <2>1 DEF having
<1> QED
  BY <1>4, <1>9, <1>10, <1>11, <1>12

(* A candidate that summarize_swebench_candidate_reports selects from the  *)
(* reports of the manifest's matrix has predicted the instance in it.      *)
THEOREM SelectedPredicted == Spec => []SelectedWasPredicted
<1>1. MInv /\ Graded => SelectedWasPredicted
  <2> SUFFICES ASSUME Graded, manifest # 0,
                      NEW given \in SUBSET {c \in Reported : reports[c].matrix = manifest},
                      NEW i \in Instances, Outcome(given, i).status # "missing"
               PROVE  /\ Outcome(given, i).selected \in given
                      /\ i \in Lines(matrices[manifest], Outcome(given, i).selected)
    BY DEF SelectedWasPredicted
  <2> DEFINE c == Outcome(given, i).selected
  <2>1. c \in Candidates /\ Status(given, c, i) # "missing"
    BY OutcomeLemma DEF WithStatus
  <2> HIDE DEF c
  <2>2. c \in given /\ i \in DOMAIN reports[c].verdicts
    BY <2>1, StatusLemma
  <2>3. reports[c].matrix = manifest
    BY <2>2
  <2>4. i \in Lines(matrices[manifest], c)
    BY <2>1, <2>2, <2>3 DEF Graded
  <2> QED
    BY <2>2, <2>4 DEF c
<1> QED
  BY <1>1, AlwaysMInv, AlwaysGraded, PTL

(* With one report more no instance is lost from the resolved ones, and no *)
(* selected status steps back in the order: an unresolved one to an error, *)
(* or an error to missing.                                                 *)
THEOREM MoreReports == Spec => []MoreReportsNoWorse
<1>1. Graded => MoreReportsNoWorse
  <2> SUFFICES ASSUME Graded, NEW given \in SUBSET Reported, NEW more \in SUBSET given,
                      NEW i \in Instances
               PROVE  \A k \in 1..4 :
                        Outcome(more, i).status = StatusOrder[k] =>
                            \E j \in 1..k : Outcome(given, i).status = StatusOrder[j]
    BY DEF MoreReportsNoWorse
  <2>1. ASSUME NEW status \in {"resolved", "unresolved", "error"}
        PROVE  WithStatus(more, i, status) \subseteq WithStatus(given, i, status)
    BY DEF WithStatus, Status
  <2>2. /\ Outcome(more, i).status = "resolved" => Outcome(given, i).status = "resolved"
        /\ Outcome(more, i).status = "unresolved" =>
              Outcome(given, i).status \in {"resolved", "unresolved"}
        /\ Outcome(more, i).status = "error" =>
              Outcome(given, i).status \in {"resolved", "unresolved", "error"}
        /\ Outcome(given, i).status \in {"resolved", "unresolved", "error", "missing"}
    BY <2>1, OutcomeLemma
  <2>3. ASSUME NEW k \in 1..4, Outcome(more, i).status = StatusOrder[k]
        PROVE  \E j \in 1..k : Outcome(given, i).status = StatusOrder[j]
    <3>1. /\ StatusOrder[1] = "resolved" /\ StatusOrder[2] = "unresolved"
          /\ StatusOrder[3] = "error" /\ StatusOrder[4] = "missing"
      BY DEF StatusOrder
    <3>2. CASE k = 1
      BY <2>2, <2>3, <3>1, <3>2
    <3>3. CASE k = 2
      BY <2>2, <2>3, <3>1, <3>3
    <3>4. CASE k = 3
      BY <2>2, <2>3, <3>1, <3>4
    <3>5. CASE k = 4
      BY <2>2, <3>1, <3>5
    <3> QED
      BY <3>2, <3>3, <3>4, <3>5
  <2> QED
    BY <2>3
<1> QED
  BY <1>1, AlwaysGraded, PTL

(* So the summary can be relied on, whatever reports it is given.          *)
THEOREM SelectionSound == Spec => []SelectionIsSound
<1>1. SelectedWasPredicted /\ MoreReportsNoWorse => SelectionIsSound
  BY DEF SelectionIsSound
<1> QED
  BY <1>1, SelectedPredicted, MoreReports, PTL
-----------------------------------------------------------------------------

(* The arms.  An arm with a launch that runs has the generation of that    *)
(* launch, no prepare has changed its instances since, and from the second *)
(* step on its predictions are of the launch too.                          *)
ArmsTyped ==
    /\ script \in Scripts /\ prepares \in 0..MaxPrepares
    /\ launches \in Seq(Launch) /\ Len(launches) <= MaxLaunches
    /\ dirs \in [Arms -> Dir]
    /\ cwd \subseteq DOMAIN launches
    /\ running \in [Arms -> [step : Steps, launch : Nat]]
    /\ complete \in [Arms -> Nat]

LaunchesSound ==
    \A n \in DOMAIN launches :
        /\ launches[n].ids # {} /\ launches[n].resolved \subseteq launches[n].ids

DirSound(a) ==
    /\ dirs[a].results <= Len(launches) /\ dirs[a].predictions <= dirs[a].results
    /\ dirs[a].report <= Len(launches)
    /\ dirs[a].markers = dirs[a].instances
    /\ running[a].step = "idle" <=> running[a] = IdleArm
    /\ running[a] # IdleArm =>
        /\ running[a].launch \in DOMAIN launches
        /\ launches[running[a].launch].arm = a
        /\ launches[running[a].launch].ids = dirs[a].instances
        /\ dirs[a].results = running[a].launch
        /\ running[a].step # "predictions" => dirs[a].predictions = running[a].launch
        /\ running[a].step = "summarize" => script = "leak_control"

CompleteSound(a) ==
    complete[a] # Nothing =>
        /\ running[a] = IdleArm /\ complete[a] \in DOMAIN launches
        /\ dirs[a].results = complete[a]
        /\ dirs[a].predictions = complete[a] /\ dirs[a].report = complete[a]
        /\ script = "leak_control" =>
            /\ launches[complete[a]].ids \subseteq dirs[a].copied
            /\ dirs[a].probed = launches[complete[a]].resolved
            /\ dirs[a].flagged = launches[complete[a]].resolved \intersect launches[complete[a]].marked

OwnReport(a) ==
    script # "leak_control" /\ dirs[a].report # Nothing =>
        launches[dirs[a].report].arm = a /\ dirs[a].report <= dirs[a].predictions

ArmSound(a) == DirSound(a) /\ CompleteSound(a) /\ OwnReport(a)

AInv == ArmsTyped /\ LaunchesSound /\ \A a \in Arms : ArmSound(a)

LEMMA EmptyLemma ==
    /\ EmptyDir \in Dir /\ IdleArm \in [step : Steps, launch : Nat]
    /\ IdleArm.step = "idle" /\ IdleArm.launch = Nothing
BY DEF EmptyDir, Dir, IdleArm, Steps, Nothing

LEMMA ArmsInitInv == ArmsInit => AInv
<1> SUFFICES ASSUME ArmsInit PROVE AInv
  OBVIOUS
<1>1. ArmsTyped /\ LaunchesSound
  BY ArmsAssumption, EmptyLemma DEF ArmsInit, Nothing, ArmsTyped, LaunchesSound
<1>2. ASSUME NEW a \in Arms
      PROVE  ArmSound(a)
  <2>1. /\ dirs[a].results = 0 /\ dirs[a].predictions = 0 /\ dirs[a].report = 0
        /\ dirs[a].markers = {} /\ dirs[a].instances = {}
        /\ running[a] = IdleArm /\ complete[a] = 0 /\ Len(launches) = 0
    BY DEF ArmsInit, EmptyDir, Nothing
  <2>2. DirSound(a)
    BY <2>1, EmptyLemma DEF DirSound
  <2> QED
    BY <2>1, <2>2 DEF ArmSound, CompleteSound, OwnReport, Nothing
<1> QED
  BY <1>1, <1>2 DEF AInv

(* Launches only come to the end.                                          *)
Later(n) == n \in DOMAIN launches => n \in DOMAIN launches' /\ launches'[n] = launches[n]

NewLaunch(l) ==
    /\ l \in Launch /\ l.ids # {} /\ l.resolved \subseteq l.ids
    /\ Len(launches) < MaxLaunches /\ launches' = Append(launches, l)

LEMMA LaunchLemma ==
    ASSUME AInv, launches' = launches \/ \E l : NewLaunch(l)
    PROVE  /\ launches' \in Seq(Launch) /\ Len(launches') \in Nat /\ Len(launches) \in Nat
           /\ DOMAIN launches = 1..Len(launches) /\ DOMAIN launches' = 1..Len(launches')
           /\ Len(launches) <= Len(launches') /\ Len(launches') <= MaxLaunches
           /\ \A n : Later(n)
           /\ LaunchesSound'
<1>1. launches \in Seq(Launch) /\ Len(launches) <= MaxLaunches /\ MaxLaunches \in Nat
  BY ArmsAssumption DEF AInv, ArmsTyped
<1>2. CASE launches' = launches
  BY <1>1, <1>2 DEF AInv, LaunchesSound, Later
<1>3. CASE \E l : NewLaunch(l)
  <2>1. PICK l : NewLaunch(l)
    BY <1>3
  <2>2. /\ launches' \in Seq(Launch) /\ Len(launches') = Len(launches) + 1
        /\ DOMAIN launches = 1..Len(launches) /\ DOMAIN launches' = 1..(Len(launches) + 1)
        /\ \A n \in 1..Len(launches) : launches'[n] = launches[n]
        /\ launches'[Len(launches) + 1] = l
    BY <1>1, <2>1 DEF NewLaunch
  <2>3. \A n \in DOMAIN launches' : n \in DOMAIN launches \/ n = Len(launches) + 1
    BY <1>1, <2>2
  <2>4. LaunchesSound'
    BY <1>1, <2>1, <2>2, <2>3 DEF AInv, LaunchesSound, NewLaunch
  <2>5. Len(launches) \in Nat /\ Len(launches) + 1 <= MaxLaunches
    BY <1>1, <2>1 DEF NewLaunch
  <2>6. \A n : Later(n)
    BY <2>2, <2>5 DEF Later
  <2> QED
    BY <2>2, <2>4, <2>5, <2>6
<1> QED
  BY <1>2, <1>3

(* What is done to one arm leaves the others as they are.                  *)
LEMMA OneArmLemma ==
    ASSUME AInv, NEW a \in Arms, NEW d \in Dir, NEW r \in [step : Steps, launch : Nat],
           NEW c \in Nat, launches' = launches \/ \E l : NewLaunch(l),
           UNCHANGED <<script, prepares>>, cwd' \subseteq DOMAIN launches',
           dirs' = [dirs EXCEPT ![a] = d], running' = [running EXCEPT ![a] = r],
           complete' = [complete EXCEPT ![a] = c]
    PROVE  /\ dirs'[a] = d /\ running'[a] = r /\ complete'[a] = c
           /\ ArmSound(a)' => AInv'
<1>1. /\ launches' \in Seq(Launch) /\ Len(launches') \in Nat /\ Len(launches) \in Nat
      /\ Len(launches) <= Len(launches') /\ Len(launches') <= MaxLaunches
      /\ DOMAIN launches = 1..Len(launches)
      /\ \A n \in DOMAIN launches : n \in DOMAIN launches' /\ launches'[n] = launches[n]
      /\ LaunchesSound'
  BY LaunchLemma DEF Later
<1>2. ArmsTyped'
  BY <1>1 DEF AInv, ArmsTyped
<1>3. dirs'[a] = d /\ running'[a] = r /\ complete'[a] = c
  BY DEF AInv, ArmsTyped
<1>4. ASSUME NEW b \in Arms, b # a
      PROVE  ArmSound(b)'
  <2>1. dirs'[b] = dirs[b] /\ running'[b] = running[b] /\ complete'[b] = complete[b]
    BY <1>4 DEF AInv, ArmsTyped
  <2>2. ArmSound(b) /\ dirs[b] \in Dir /\ running[b] \in [step : Steps, launch : Nat]
    BY DEF AInv, ArmsTyped
  <2>3. DirSound(b)'
    BY <1>1, <2>1, <2>2 DEF ArmSound, DirSound, Dir
  <2>4. CompleteSound(b)'
    BY <1>1, <2>1, <2>2 DEF ArmSound, CompleteSound
  <2>5. OwnReport(b)'
    BY <1>1, <2>1, <2>2 DEF ArmSound, DirSound, OwnReport, Dir, Nothing
  <2> QED
    BY <2>3, <2>4, <2>5 DEF ArmSound
<1> QED
  BY <1>1, <1>2, <1>3, <1>4 DEF AInv

(* A step that appends no launch, on an arm whose launch is under way.     *)
LEMMA UnderWay ==
    ASSUME AInv, NEW a \in Arms, running[a].step # "idle"
    PROVE  /\ running[a] # IdleArm /\ complete[a] = Nothing
           /\ running[a].launch \in DOMAIN launches /\ running[a].launch \in Nat \ {0}
           /\ launches[running[a].launch].arm = a
           /\ launches[running[a].launch].ids = dirs[a].instances
           /\ dirs[a].results = running[a].launch
           /\ running[a] \in [step : Steps, launch : Nat] /\ dirs[a] \in Dir
<1>1. ArmSound(a) /\ running[a] \in [step : Steps, launch : Nat] /\ dirs[a] \in Dir
      /\ launches \in Seq(Launch)
  BY DEF AInv, ArmsTyped
<1>2. running[a] # IdleArm
  BY <1>1 DEF ArmSound, DirSound
<1> QED
  BY <1>1, <1>2 DEF ArmSound, DirSound, CompleteSound

LEMMA ArmOf ==
    ASSUME AInv, NEW a \in Arms
    PROVE  /\ ArmSound(a) /\ dirs[a] \in Dir /\ running[a] \in [step : Steps, launch : Nat]
           /\ complete[a] \in Nat /\ Len(launches) \in Nat /\ DOMAIN launches = 1..Len(launches)
           /\ cwd \subseteq DOMAIN launches
           /\ dirs = [dirs EXCEPT ![a] = dirs[a]] /\ running = [running EXCEPT ![a] = running[a]]
           /\ complete = [complete EXCEPT ![a] = complete[a]]
           /\ \A n \in DOMAIN launches : launches[n] \in Launch
BY DEF AInv, ArmsTyped

LEMMA StepLemma ==
    ASSUME AInv, NEW a \in Arms, NEW step \in Steps \ {"idle"}
    PROVE  LET r == [running[a] EXCEPT !.step = step]
           IN /\ r \in [step : Steps, launch : Nat]
              /\ r.step = step /\ r.launch = running[a].launch /\ r # IdleArm
BY ArmOf, EmptyLemma

LEMMA KillLaunchInv == ASSUME AInv, NEW a \in Arms, KillLaunch(a) PROVE AInv'
<1>1. /\ running' = [running EXCEPT ![a] = IdleArm]
      /\ UNCHANGED <<script, prepares, launches, dirs, cwd, complete>>
  BY DEF KillLaunch
<1>2. dirs' = [dirs EXCEPT ![a] = dirs[a]] /\ complete' = [complete EXCEPT ![a] = complete[a]]
  BY <1>1, ArmOf
<1>3. dirs'[a] = dirs[a] /\ running'[a] = IdleArm /\ complete'[a] = complete[a]
      /\ (ArmSound(a)' => AInv')
  BY <1>1, <1>2, ArmOf, EmptyLemma, OneArmLemma
<1>4. ArmSound(a)'
  BY <1>1, <1>3, ArmOf, EmptyLemma DEF ArmSound, DirSound, CompleteSound, OwnReport
<1> QED
  BY <1>3, <1>4

LEMMA GenerationFailsInv == ASSUME AInv, NEW a \in Arms, GenerationFails(a) PROVE AInv'
<1>1. /\ complete' = [complete EXCEPT ![a] = 0]
      /\ UNCHANGED <<script, prepares, launches, dirs, cwd, running>>
  BY DEF GenerationFails, Nothing
<1>2. dirs' = [dirs EXCEPT ![a] = dirs[a]] /\ running' = [running EXCEPT ![a] = running[a]]
  BY <1>1, ArmOf
<1>3. dirs'[a] = dirs[a] /\ running'[a] = running[a] /\ complete'[a] = 0
      /\ (ArmSound(a)' => AInv')
  BY <1>1, <1>2, ArmOf, OneArmLemma
<1>4. ArmSound(a)'
  BY <1>1, <1>3, ArmOf DEF ArmSound, DirSound, CompleteSound, OwnReport, Nothing
<1> QED
  BY <1>3, <1>4

LEMMA StartLaunchInv == ASSUME AInv, NEW a \in Arms, StartLaunch(a) PROVE AInv'
<1>1. PICK marked \in SUBSET Markable(a), resolved \in SUBSET dirs[a].instances :
        launches' = Append(launches, [arm |-> a, ids |-> dirs[a].instances,
                                      marked |-> marked, resolved |-> resolved])
  BY DEF StartLaunch
<1> DEFINE l == [arm |-> a, ids |-> dirs[a].instances, marked |-> marked, resolved |-> resolved]
           d == [dirs[a] EXCEPT !.results = Len(launches')]
           r == [step |-> "predictions", launch |-> Len(launches')]
<1>2. /\ running[a] = IdleArm /\ Len(launches) < MaxLaunches /\ dirs[a].instances # {}
      /\ UNCHANGED <<script, prepares, cwd>>
      /\ dirs' = [dirs EXCEPT ![a] = d] /\ running' = [running EXCEPT ![a] = r]
      /\ complete' = [complete EXCEPT ![a] = 0]
  BY DEF StartLaunch, Nothing
<1>3. l \in Launch /\ NewLaunch(l)
  BY <1>1, <1>2, ArmOf DEF NewLaunch, Launch, Markable, Dir
<1>4. /\ Len(launches') = Len(launches) + 1 /\ launches'[Len(launches')] = l
      /\ Len(launches') \in DOMAIN launches' /\ cwd' \subseteq DOMAIN launches'
      /\ \A n \in DOMAIN launches : n \in DOMAIN launches' /\ launches'[n] = launches[n]
  BY <1>2, <1>3, LaunchLemma, ArmOf DEF NewLaunch, Later, AInv, ArmsTyped
<1>5. d \in Dir /\ r \in [step : Steps, launch : Nat]
  <2>1. Len(launches') \in Nat
    BY <1>4, ArmOf
  <2> QED
    BY <2>1, ArmOf, SMTT(30) DEF Dir, Steps
<1>6. dirs'[a] = d /\ running'[a] = r /\ complete'[a] = 0 /\ (ArmSound(a)' => AInv')
  BY <1>2, <1>3, <1>4, <1>5, OneArmLemma
<1>7. DirSound(a)'
  BY <1>2, <1>4, <1>6, ArmOf, EmptyLemma DEF ArmSound, DirSound, Dir
<1>8. CompleteSound(a)'
  BY <1>6 DEF CompleteSound, Nothing
<1>9. OwnReport(a)'
  BY <1>2, <1>4, <1>6, ArmOf DEF ArmSound, DirSound, OwnReport, Dir, Nothing
<1> QED
  BY <1>6, <1>7, <1>8, <1>9 DEF ArmSound

LEMMA WriteLaunchPredictionsInv ==
    ASSUME AInv, NEW a \in Arms, WriteLaunchPredictions(a)
    PROVE  AInv'
<1> DEFINE n == running[a].launch
           d == [dirs[a] EXCEPT !.predictions = n]
           r == [running[a] EXCEPT !.step = "grade"]
<1>1. /\ running[a].step = "predictions"
      /\ dirs' = [dirs EXCEPT ![a] = d] /\ running' = [running EXCEPT ![a] = r]
      /\ UNCHANGED <<script, prepares, launches, cwd, complete>>
  BY DEF WriteLaunchPredictions, Continue
<1>2. d \in Dir /\ complete' = [complete EXCEPT ![a] = complete[a]]
  <2>1. d \in Dir
    BY <1>1, UnderWay DEF Dir
  <2> QED
    BY <1>1, <2>1, ArmOf
<1>3. r \in [step : Steps, launch : Nat] /\ r.step = "grade" /\ r.launch = n /\ r # IdleArm
  BY StepLemma DEF Steps
<1>4. dirs'[a] = d /\ running'[a] = r /\ complete'[a] = complete[a] /\ (ArmSound(a)' => AInv')
  BY <1>1, <1>2, <1>3, ArmOf, OneArmLemma
<1>5. DirSound(a)'
  BY <1>1, <1>4, <1>3, UnderWay, ArmOf DEF ArmSound, DirSound, Dir
<1>6. CompleteSound(a)'
  BY <1>1, <1>4, UnderWay DEF CompleteSound
<1>7. OwnReport(a)'
  BY <1>1, <1>4, UnderWay, ArmOf DEF ArmSound, DirSound, OwnReport, Dir, Nothing
<1> QED
  BY <1>4, <1>5, <1>6, <1>7 DEF ArmSound

LEMMA GradeLaunchInv == ASSUME AInv, NEW a \in Arms, GradeLaunch(a) PROVE AInv'
<1> DEFINE step == IF Probes(a) THEN "probe" ELSE "move"
           r == [running[a] EXCEPT !.step = step]
<1>1. /\ running[a].step = "grade" /\ running' = [running EXCEPT ![a] = r]
      /\ cwd' \subseteq cwd \union {running[a].launch}
      /\ UNCHANGED <<script, prepares, launches, dirs, complete>>
  BY DEF GradeLaunch, Continue
<1>2. cwd' \subseteq DOMAIN launches'
      /\ dirs' = [dirs EXCEPT ![a] = dirs[a]] /\ complete' = [complete EXCEPT ![a] = complete[a]]
  BY <1>1, UnderWay, ArmOf
<1> HIDE DEF step
<1>3. r \in [step : Steps, launch : Nat] /\ step \in {"probe", "move"}
      /\ r.step = step /\ r.launch = running[a].launch /\ r # IdleArm
  BY StepLemma DEF step, Steps
<1>4. dirs'[a] = dirs[a] /\ running'[a] = r /\ complete'[a] = complete[a] /\ (ArmSound(a)' => AInv')
  BY <1>1, <1>2, <1>3, ArmOf, OneArmLemma, ZenonT(40)
<1>5. ArmSound(a)'
  BY <1>1, <1>4, <1>3, UnderWay, ArmOf DEF ArmSound, DirSound, CompleteSound, OwnReport
<1> QED
  BY <1>4, <1>5

(* What a probe leaves in an arm.                                          *)
LEMMA ProbeLemma ==
    ASSUME AInv, NEW dir \in Dir, NEW report \in {Nothing} \union DOMAIN launches,
           NEW markers \in SUBSET Ids, dir.predictions \in DOMAIN launches
    PROVE  LET probe == ProbeRows(dir, report, markers)
               n == dir.predictions
           IN /\ probe.resolved \subseteq Ids /\ probe.flagged \subseteq Ids
              /\ report = n => /\ probe.resolved = launches[n].resolved
                               /\ probe.flagged = launches[n].resolved \intersect markers
                                                    \intersect launches[n].marked
<1>1. \A n \in DOMAIN launches : /\ launches[n].ids \subseteq Ids /\ launches[n].resolved \subseteq launches[n].ids
                                 /\ n \in Nat \ {0}
  <2>1. \A l \in Launch : l.ids \subseteq Ids
    BY DEF Launch
  <2> QED
    BY <2>1 DEF AInv, ArmsTyped, LaunchesSound
<1> QED
  BY <1>1 DEF ProbeRows, Nothing

LEMMA ProbeInv == ASSUME AInv, NEW a \in Arms, Probe(a) PROVE AInv'
<1> DEFINE probe == ProbeRows(dirs[a], dirs[a].report, dirs[a].markers)
           d == [dirs[a] EXCEPT !.probed = probe.resolved, !.flagged = probe.flagged]
           r == [running[a] EXCEPT !.step = "move"]
<1>1. /\ running[a].step = "probe" /\ running' = [running EXCEPT ![a] = r]
      /\ UNCHANGED <<script, prepares, launches, cwd, complete>>
  BY DEF Probe, Continue
<1>2. /\ dirs[a] \in Dir /\ dirs[a].predictions \in DOMAIN launches
      /\ dirs[a].report \in {Nothing} \union DOMAIN launches /\ dirs[a].markers \in SUBSET Ids
  <2>1. dirs[a].report \in Nat /\ dirs[a].markers \in SUBSET Ids
    BY ArmOf DEF Dir
  <2> QED
    BY <1>1, <2>1, UnderWay, ArmOf DEF ArmSound, DirSound, Nothing
<1>3. probe.resolved \subseteq Ids /\ probe.flagged \subseteq Ids
  BY <1>2, ProbeLemma
<1> HIDE DEF probe
<1>4. /\ dirs' = [dirs EXCEPT ![a] = d] /\ complete' = [complete EXCEPT ![a] = complete[a]]
      /\ cwd' \subseteq DOMAIN launches'
  <2>1. dirs' = [dirs EXCEPT ![a].probed = probe.resolved, ![a].flagged = probe.flagged]
    BY DEF Probe, probe
  <2> QED
    BY <1>1, <2>1, ArmOf DEF AInv, ArmsTyped
<1>5. d \in Dir /\ d.results = dirs[a].results /\ d.predictions = dirs[a].predictions
      /\ d.report = dirs[a].report /\ d.markers = dirs[a].markers /\ d.instances = dirs[a].instances
  BY <1>2, <1>3 DEF Dir
<1>6. r \in [step : Steps, launch : Nat]
      /\ r.step = "move" /\ r.launch = running[a].launch /\ r # IdleArm
  BY StepLemma DEF Steps
<1> HIDE DEF d, r
<1>7. dirs'[a] = d /\ running'[a] = r /\ complete'[a] = complete[a] /\ (ArmSound(a)' => AInv')
  BY <1>1, <1>4, <1>5, <1>6, ArmOf, OneArmLemma
<1>8. ArmSound(a)'
  BY <1>1, <1>5, <1>7, <1>6, UnderWay, ArmOf DEF ArmSound, DirSound, CompleteSound, OwnReport
<1> QED
  BY <1>7, <1>8

(* The end of a launch: it counts as complete if its report has come.      *)
LEMMA FinishLemma ==
    ASSUME AInv, NEW a \in Arms, NEW d \in Dir, Finish(a), UNCHANGED <<script, prepares, launches>>,
           cwd' \subseteq DOMAIN launches, dirs' = [dirs EXCEPT ![a] = d],
           running[a].step \notin {"idle", "predictions"},
           d.results = dirs[a].results, d.predictions = dirs[a].predictions,
           d.instances = dirs[a].instances, d.markers = dirs[a].markers, d.report <= Len(launches),
           d.report \in {dirs[a].report, running[a].launch} \/ script = "leak_control",
           script = "leak_control" /\ d.report = running[a].launch =>
                /\ launches[running[a].launch].ids \subseteq d.copied
                /\ d.probed = launches[running[a].launch].resolved
                /\ d.flagged = launches[running[a].launch].resolved
                                    \intersect launches[running[a].launch].marked
    PROVE  AInv'
<1> DEFINE n == running[a].launch
           c == IF d.report = n THEN n ELSE 0
<1>1. /\ n \in DOMAIN launches /\ n \in Nat \ {0} /\ dirs[a].results = n /\ dirs[a].predictions = n
      /\ launches[n].arm = a /\ launches[n].ids = dirs[a].instances
  BY UnderWay, ArmOf DEF ArmSound, DirSound
<1>2. dirs'[a] = d
  BY DEF AInv, ArmsTyped
<1>3. running' = [running EXCEPT ![a] = IdleArm] /\ complete' = [complete EXCEPT ![a] = c] /\ c \in Nat
  BY <1>1, <1>2 DEF Finish, Nothing
<1> HIDE DEF c
<1>4. dirs'[a] = d /\ running'[a] = IdleArm /\ complete'[a] = c /\ (ArmSound(a)' => AInv')
  BY <1>3, ArmOf, EmptyLemma, OneArmLemma
<1>5. DirSound(a)'
  BY <1>1, <1>4, ArmOf, EmptyLemma DEF ArmSound, DirSound, Dir
<1>6. CompleteSound(a)'
  BY <1>1, <1>4 DEF CompleteSound, Nothing, c
<1>7. OwnReport(a)'
  BY <1>1, <1>4, ArmOf DEF ArmSound, DirSound, OwnReport, Dir, Nothing
<1> QED
  BY <1>4, <1>5, <1>6, <1>7 DEF ArmSound

LEMMA MoveReportInv == ASSUME AInv, NEW a \in Arms, MoveReport(a) PROVE AInv'
<1> DEFINE n == running[a].launch
           d == IF n \in cwd THEN [dirs[a] EXCEPT !.report = n] ELSE dirs[a]
           r == [running[a] EXCEPT !.step = "summarize"]
<1>1. /\ running[a].step = "move" /\ cwd' = cwd \ {n}
      /\ UNCHANGED <<script, prepares, launches>>
      /\ IF script = "leak_control" THEN running' = [running EXCEPT ![a] = r] /\ UNCHANGED complete
         ELSE Finish(a)
  BY DEF MoveReport, Continue
<1>2. n \in DOMAIN launches /\ n \in Nat \ {0} /\ n <= Len(launches) /\ dirs[a] \in Dir
  BY <1>1, UnderWay, ArmOf
<1>3. /\ d \in Dir /\ d.results = dirs[a].results /\ d.predictions = dirs[a].predictions
      /\ d.instances = dirs[a].instances /\ d.markers = dirs[a].markers
      /\ d.report \in {dirs[a].report, n} /\ d.report <= Len(launches)
  <2>1. dirs[a].report <= Len(launches)
    BY ArmOf DEF ArmSound, DirSound
  <2> QED
    BY <1>2, <2>1 DEF Dir
<1>4. dirs' = [dirs EXCEPT ![a] = d] /\ cwd' \subseteq DOMAIN launches
  BY <1>1, ArmOf DEF MoveReport
<1> HIDE DEF d
<1>5. CASE script = "leak_control"
  <2>1. r \in [step : Steps, launch : Nat] /\ r.step = "summarize" /\ r.launch = n /\ r # IdleArm
    BY StepLemma DEF Steps
  <2>2. running' = [running EXCEPT ![a] = r] /\ complete' = [complete EXCEPT ![a] = complete[a]]
    BY <1>1, <1>5, ArmOf
  <2> HIDE DEF r
  <2>3. dirs'[a] = d /\ running'[a] = r /\ complete'[a] = complete[a] /\ (ArmSound(a)' => AInv')
    BY <1>1, <1>3, <1>4, <2>1, <2>2, ArmOf, OneArmLemma
  <2>4. ArmSound(a)'
    BY <1>1, <1>3, <1>5, <2>1, <2>3, UnderWay, ArmOf DEF ArmSound, DirSound, CompleteSound, OwnReport
  <2> QED
    BY <2>3, <2>4
<1>6. CASE script # "leak_control"
  BY <1>1, <1>3, <1>4, <1>6, FinishLemma
<1> QED
  BY <1>5, <1>6

(* A report that is found is the arm's own, or in the leak control matrix  *)
(* one of the working directory.                                           *)
LEMMA FindLemma ==
    ASSUME AInv, NEW dir, dir.report \in Nat, dir.report <= Len(launches),
           NEW report \in FindReport(dir)
    PROVE  /\ report \in {Nothing} \union DOMAIN launches
           /\ report \in Nat /\ report <= Len(launches)
           /\ dir.report # Nothing \/ script # "leak_control" => report = dir.report
<1>1. Len(launches) \in Nat /\ DOMAIN launches = 1..Len(launches) /\ cwd \subseteq DOMAIN launches
  BY DEF AInv, ArmsTyped
<1>2. report \in cwd \/ report \in {Nothing, dir.report}
  BY DEF FindReport
<1> QED
  BY <1>1, <1>2 DEF FindReport, Nothing

(* An arm that is probed with a report.                                    *)
LEMMA ProbedDirLemma ==
    ASSUME AInv, NEW dir \in Dir, dir.predictions \in DOMAIN launches,
           NEW report \in {Nothing} \union DOMAIN launches
    PROVE  LET d == ProbedDir(dir, report) IN
           /\ d \in Dir /\ d.report = report /\ d.copied = dir.copied
           /\ d.results = dir.results /\ d.predictions = dir.predictions
           /\ d.instances = dir.instances /\ d.markers = dir.markers
           /\ report = dir.predictions =>
                /\ d.probed = launches[report].resolved
                /\ d.flagged = launches[report].resolved \intersect dir.copied
                                    \intersect launches[report].marked
<1> DEFINE probe == ProbeRows(dir, report, dir.copied)
<1>1. dir.copied \in SUBSET Ids /\ report \in Nat
  BY ArmsAssumption DEF Dir, AInv, ArmsTyped, Nothing
<1>2. /\ probe.resolved \subseteq Ids /\ probe.flagged \subseteq Ids
      /\ report = dir.predictions =>
            /\ probe.resolved = launches[report].resolved
            /\ probe.flagged = launches[report].resolved \intersect dir.copied
                                    \intersect launches[report].marked
  BY <1>1, ProbeLemma
<1>3. ProbedDir(dir, report) =
        [dir EXCEPT !.report = report, !.probed = probe.resolved, !.flagged = probe.flagged]
  BY DEF ProbedDir
<1> HIDE DEF probe
<1> QED
  BY <1>1, <1>2, <1>3 DEF Dir

LEMMA SummarizeLaunchInv == ASSUME AInv, NEW a \in Arms, SummarizeLaunch(a) PROVE AInv'
<1> DEFINE dir == [dirs[a] EXCEPT !.copied = dirs[a].markers]
           n == running[a].launch
<1>1. PICK report \in FindReport(dir) : dirs' = [dirs EXCEPT ![a] = ProbedDir(dir, report)]
  BY DEF SummarizeLaunch
<1>2. /\ running[a].step = "summarize" /\ Finish(a) /\ UNCHANGED <<script, prepares, launches, cwd>>
  BY DEF SummarizeLaunch
<1>3. /\ n \in DOMAIN launches /\ dirs[a].predictions = n /\ script = "leak_control"
      /\ dirs[a].markers = dirs[a].instances /\ launches[n].ids = dirs[a].instances
      /\ dirs[a].report <= Len(launches) /\ dirs[a] \in Dir
  BY <1>2, UnderWay, ArmOf DEF ArmSound, DirSound
<1>4. /\ dir \in Dir /\ dir.copied = dirs[a].markers /\ dir.predictions = n
      /\ dir.report = dirs[a].report /\ dir.report \in Nat /\ dir.results = dirs[a].results
      /\ dir.instances = dirs[a].instances /\ dir.markers = dirs[a].markers
  BY <1>3 DEF Dir
<1> HIDE DEF dir
<1> DEFINE d == ProbedDir(dir, report)
<1>5. report \in {Nothing} \union DOMAIN launches /\ report <= Len(launches)
  BY <1>1, <1>3, <1>4, FindLemma
<1>6. /\ d \in Dir /\ d.report = report /\ d.copied = launches[n].ids
      /\ d.results = dirs[a].results /\ d.predictions = dirs[a].predictions
      /\ d.instances = dirs[a].instances /\ d.markers = dirs[a].markers
      /\ report = n =>
            /\ d.probed = launches[n].resolved
            /\ d.flagged = launches[n].resolved \intersect launches[n].ids \intersect launches[n].marked
  BY <1>3, <1>4, <1>5, ProbedDirLemma
<1> HIDE DEF d
<1>7. launches[n].resolved \intersect launches[n].ids = launches[n].resolved
  BY <1>3 DEF AInv, LaunchesSound
<1>8. dirs' = [dirs EXCEPT ![a] = d] /\ cwd' \subseteq DOMAIN launches
  BY <1>1, <1>2, ArmOf DEF d
<1> QED
  BY <1>2, <1>3, <1>5, <1>6, <1>7, <1>8, FinishLemma

LEMMA ReuseRemoveInv == ASSUME AInv, NEW a \in Arms, ReuseRemove(a) PROVE AInv'
<1> DEFINE d == [EmptyDir EXCEPT !.instances = dirs[a].instances, !.markers = dirs[a].markers]
<1>1. /\ running[a] = IdleArm /\ dirs' = [dirs EXCEPT ![a] = d] /\ complete' = [complete EXCEPT ![a] = 0]
      /\ UNCHANGED <<script, prepares, launches, cwd, running>>
  BY DEF ReuseRemove, Nothing
<1>2. /\ d \in Dir /\ d.results = 0 /\ d.predictions = 0 /\ d.report = 0
      /\ d.markers = dirs[a].markers /\ d.instances = dirs[a].instances
  BY ArmOf DEF EmptyDir, Dir
<1> HIDE DEF d
<1>3. running' = [running EXCEPT ![a] = running[a]] /\ cwd' \subseteq DOMAIN launches'
  BY <1>1, ArmOf
<1>4. dirs'[a] = d /\ running'[a] = running[a] /\ complete'[a] = 0 /\ (ArmSound(a)' => AInv')
  BY <1>1, <1>2, <1>3, ArmOf, OneArmLemma
<1>5. ArmSound(a)'
  BY <1>1, <1>2, <1>4, ArmOf, EmptyLemma DEF ArmSound, DirSound, CompleteSound, OwnReport, Nothing
<1> QED
  BY <1>4, <1>5

LEMMA ReuseCopyInv == ASSUME AInv, NEW a \in Arms, ReuseCopy(a) PROVE AInv'
<1>1. PICK resolved \in SUBSET dirs[a].instances :
        launches' = Append(launches, [arm |-> a, ids |-> dirs[a].instances,
                                      marked |-> {}, resolved |-> resolved])
  BY DEF ReuseCopy
<1> DEFINE l == [arm |-> a, ids |-> dirs[a].instances, marked |-> {}, resolved |-> resolved]
           n == Len(launches')
           copied == IF script = "leak_control" THEN dirs[a].markers ELSE {}
           d == [dirs[a] EXCEPT !.results = n, !.predictions = n, !.report = n, !.copied = copied]
<1>2. /\ running[a] = IdleArm /\ Len(launches) < MaxLaunches /\ dirs[a].instances # {}
      /\ dirs[a].results = 0 /\ UNCHANGED <<script, prepares, cwd, running, complete>>
  BY DEF ReuseCopy, Nothing
<1>3. dirs' = [dirs EXCEPT ![a] = d]
  BY ArmOf DEF ReuseCopy
<1>4. NewLaunch(l) /\ l.arm = a
  BY <1>1, <1>2, ArmOf DEF NewLaunch, Launch, Dir
<1>5. /\ Len(launches') = Len(launches) + 1 /\ launches'[n] = l /\ n \in Nat
      /\ n \in DOMAIN launches' /\ cwd' \subseteq DOMAIN launches'
      /\ \A k \in DOMAIN launches : k \in DOMAIN launches' /\ launches'[k] = launches[k]
  BY <1>2, <1>4, LaunchLemma, ArmOf DEF NewLaunch, Later, AInv, ArmsTyped
<1> HIDE DEF l
<1>6. /\ d \in Dir /\ d.results = n /\ d.predictions = n /\ d.report = n
      /\ d.markers = dirs[a].markers /\ d.instances = dirs[a].instances
  BY <1>5, ArmOf DEF Dir
<1> HIDE DEF d
<1>7. running' = [running EXCEPT ![a] = running[a]] /\ complete' = [complete EXCEPT ![a] = complete[a]]
  BY <1>2, ArmOf
<1>8. dirs'[a] = d /\ running'[a] = running[a] /\ complete'[a] = complete[a] /\ (ArmSound(a)' => AInv')
  <2>1. running[a] \in [step : Steps, launch : Nat] /\ complete[a] \in Nat
    BY ArmOf
  <2>2. \E m : NewLaunch(m)
    BY <1>4
  <2> QED
    BY <1>2, <1>3, <1>5, <1>6, <1>7, <2>1, <2>2, OneArmLemma
<1>9. DirSound(a)'
  BY <1>2, <1>5, <1>6, <1>8, ArmOf, EmptyLemma DEF ArmSound, DirSound
<1>10. CompleteSound(a)'
  BY <1>2, <1>8, ArmOf DEF ArmSound, CompleteSound, Nothing
<1>11. OwnReport(a)'
  BY <1>4, <1>5, <1>6, <1>8 DEF OwnReport
<1> QED
  BY <1>8, <1>9, <1>10, <1>11 DEF ArmSound

(* A summary leaves a complete arm complete.                               *)
LEMMA ProbeAgainInv == ASSUME AInv, NEW a \in Arms, ProbeAgain(a) PROVE AInv'
<1> DEFINE dir == IF dirs[a].copied = {} THEN [dirs[a] EXCEPT !.copied = dirs[a].markers]
                  ELSE dirs[a]
<1>1. PICK report \in FindReport(dir) : dirs' = [dirs EXCEPT ![a] = ProbedDir(dir, report)]
  BY DEF ProbeAgain
<1>2. /\ script = "leak_control" /\ dirs[a].predictions # 0
      /\ UNCHANGED <<script, prepares, launches, cwd, running, complete>>
  BY DEF ProbeAgain, Nothing
<1>3. /\ dirs[a].predictions \in DOMAIN launches /\ dirs[a].report <= Len(launches)
      /\ dirs[a] \in Dir
  BY <1>2, ArmOf DEF ArmSound, DirSound, Dir
<1>4. /\ dir \in Dir /\ dir.predictions = dirs[a].predictions
      /\ dir.report = dirs[a].report /\ dir.report \in Nat /\ dir.results = dirs[a].results
      /\ dir.instances = dirs[a].instances /\ dir.markers = dirs[a].markers
      /\ dirs[a].copied # {} => dir.copied = dirs[a].copied
  BY <1>3 DEF Dir
<1> HIDE DEF dir
<1> DEFINE d == ProbedDir(dir, report)
<1>5. report \in {Nothing} \union DOMAIN launches /\ report <= Len(launches)
      /\ (dirs[a].report # Nothing => report = dirs[a].report)
  BY <1>1, <1>3, <1>4, FindLemma
<1>6. /\ d \in Dir /\ d.report = report /\ d.copied = dir.copied
      /\ d.results = dirs[a].results /\ d.predictions = dirs[a].predictions
      /\ d.instances = dirs[a].instances /\ d.markers = dirs[a].markers
      /\ report = dirs[a].predictions =>
            /\ d.probed = launches[report].resolved
            /\ d.flagged = launches[report].resolved \intersect dir.copied \intersect launches[report].marked
  BY <1>3, <1>4, <1>5, ProbedDirLemma
<1> HIDE DEF d
<1>7. /\ dirs' = [dirs EXCEPT ![a] = d] /\ cwd' \subseteq DOMAIN launches'
      /\ running' = [running EXCEPT ![a] = running[a]] /\ complete' = [complete EXCEPT ![a] = complete[a]]
  BY <1>1, <1>2, ArmOf DEF d
<1>8. dirs'[a] = d /\ running'[a] = running[a] /\ complete'[a] = complete[a] /\ (ArmSound(a)' => AInv')
  <2> DEFINE r == running[a]
             c == complete[a]
  <2>1. /\ r \in [step : Steps, launch : Nat] /\ c \in Nat /\ launches' = launches
        /\ d \in Dir /\ UNCHANGED <<script, prepares>>
    BY <1>2, <1>6, ArmOf
  <2>2. /\ dirs' = [dirs EXCEPT ![a] = d] /\ cwd' \subseteq DOMAIN launches'
        /\ running' = [running EXCEPT ![a] = r] /\ complete' = [complete EXCEPT ![a] = c]
    BY <1>7
  <2> HIDE DEF r, c
  <2>3. dirs'[a] = d /\ running'[a] = r /\ complete'[a] = c /\ (ArmSound(a)' => AInv')
    BY <2>1, <2>2, OneArmLemma
  <2> QED
    BY <2>3 DEF r, c
<1>9. DirSound(a)' /\ OwnReport(a)'
  BY <1>2, <1>5, <1>6, <1>8, ArmOf DEF ArmSound, DirSound, OwnReport
<1>10. CompleteSound(a)'
  <2> SUFFICES ASSUME complete[a] # Nothing PROVE CompleteSound(a)'
    BY <1>8 DEF CompleteSound
  <2> DEFINE n == complete[a]
  <2>1. /\ running[a] = IdleArm /\ n \in DOMAIN launches
        /\ dirs[a].results = n /\ dirs[a].predictions = n /\ dirs[a].report = n
        /\ launches[n].ids \subseteq dirs[a].copied
    BY <1>2, ArmOf DEF ArmSound, CompleteSound
  <2>2. launches[n].ids # {} /\ launches[n].resolved \subseteq launches[n].ids
    BY <2>1 DEF AInv, LaunchesSound
  <2>3. dir.copied = dirs[a].copied /\ report = n
    BY <1>4, <1>5, <2>1, <2>2
  <2>4. launches[n].resolved \intersect dir.copied = launches[n].resolved
    BY <2>1, <2>2, <2>3
  <2> QED
    BY <1>2, <1>6, <1>8, <2>1, <2>3, <2>4 DEF CompleteSound
<1> QED
  BY <1>8, <1>9, <1>10 DEF ArmSound

LEMMA SummarizeArmInv == ASSUME AInv, NEW a \in Arms, SummarizeArm(a) PROVE AInv'
<1>1. PICK report \in FindReport(dirs[a]) : dirs' = [dirs EXCEPT ![a].report = report]
  BY DEF SummarizeArm
<1>2. /\ script # "leak_control" /\ UNCHANGED <<script, prepares, launches, cwd, running, complete>>
  BY DEF SummarizeArm
<1>3. dirs[a].report \in Nat /\ dirs[a].report <= Len(launches) /\ dirs[a] \in Dir
  BY ArmOf DEF ArmSound, DirSound, Dir
<1>4. report = dirs[a].report
  BY <1>1, <1>2, <1>3, FindLemma
<1>5. dirs' = [dirs EXCEPT ![a] = dirs[a]] /\ running' = [running EXCEPT ![a] = running[a]]
      /\ complete' = [complete EXCEPT ![a] = complete[a]] /\ cwd' \subseteq DOMAIN launches'
  BY <1>1, <1>2, <1>3, <1>4, ArmOf DEF Dir
<1>6. dirs'[a] = dirs[a] /\ running'[a] = running[a] /\ complete'[a] = complete[a]
      /\ (ArmSound(a)' => AInv')
  BY <1>2, <1>5, ArmOf, OneArmLemma
<1>7. ArmSound(a)'
  BY <1>2, <1>6, ArmOf DEF ArmSound, DirSound, CompleteSound, OwnReport
<1> QED
  BY <1>6, <1>7

(* A prepare finds no launch under way, and leaves what was launched.      *)
LEMMA PrepareInv == ASSUME AInv, Prepare PROVE AInv'
<1>1. PICK ids \in SUBSET Ids \ {{}} :
        dirs' = [a \in Arms |-> [dirs[a] EXCEPT !.instances = ids, !.markers = ids]]
  BY DEF Prepare
<1>2. /\ prepares < MaxPrepares /\ prepares' = prepares + 1 /\ \A a \in Arms : running[a] = IdleArm
      /\ UNCHANGED <<script, launches, cwd, running, complete>>
  BY DEF Prepare
<1>3. ASSUME NEW a \in Arms
      PROVE  LET d == dirs'[a] IN
             /\ d \in Dir /\ d.results = dirs[a].results /\ d.predictions = dirs[a].predictions
             /\ d.report = dirs[a].report /\ d.copied = dirs[a].copied /\ d.probed = dirs[a].probed
             /\ d.flagged = dirs[a].flagged /\ d.instances = ids /\ d.markers = ids
  <2>1. dirs'[a] = [dirs[a] EXCEPT !.instances = ids, !.markers = ids] /\ dirs[a] \in Dir
    BY <1>1, ArmOf
  <2> QED
    BY <2>1 DEF Dir
<1>4. ArmsTyped'
  <2>1. dirs' \in [Arms -> Dir]
    BY <1>1, <1>3
  <2> QED
    BY <1>2, <2>1, ArmsAssumption DEF AInv, ArmsTyped
<1>5. LaunchesSound'
  BY <1>2 DEF AInv, LaunchesSound
<1>6. ASSUME NEW a \in Arms PROVE ArmSound(a)'
  BY <1>2, <1>3, ArmOf DEF ArmSound, DirSound, CompleteSound, OwnReport
<1> QED
  BY <1>4, <1>5, <1>6 DEF AInv

LEMMA ArmsUnchangedInv == ASSUME AInv, UNCHANGED armsVars PROVE AInv'
<1>1. \A a \in Arms : ArmSound(a)'
  BY DEF armsVars, AInv, ArmSound, DirSound, CompleteSound, OwnReport
<1> QED
  BY <1>1 DEF armsVars, AInv, ArmsTyped, LaunchesSound

LEMMA AInvStep == ASSUME AInv, [ArmsNext]_armsVars PROVE AInv'
BY PrepareInv, StartLaunchInv, GenerationFailsInv, WriteLaunchPredictionsInv, GradeLaunchInv,
   ProbeInv, MoveReportInv, SummarizeLaunchInv, KillLaunchInv, ReuseRemoveInv, ReuseCopyInv,
   ProbeAgainInv, SummarizeArmInv, ArmsUnchangedInv
DEF ArmsNext

(* What every state of the arms' directories satisfies.                    *)
THEOREM AlwaysAInv == ArmsSpec => []AInv
<1>1. ArmsInit => AInv
  BY ArmsInitInv
<1>2. AInv /\ [ArmsNext]_armsVars => AInv'
  BY AInvStep
<1> QED
  BY <1>1, <1>2, PTL DEF ArmsSpec

LEMMA AInvTypes == AInv => ArmsTypeOK
<1> SUFFICES ASSUME AInv PROVE ArmsTypeOK
  OBVIOUS
<1>1. Len(launches) \in Nat /\ DOMAIN launches = 1..Len(launches)
  BY DEF AInv, ArmsTyped
<1>2. ASSUME NEW a \in Arms
      PROVE  /\ {dirs[a].results, dirs[a].predictions, dirs[a].report} \subseteq {Nothing} \union DOMAIN launches
             /\ running[a].step \in Steps /\ running[a].launch \in {Nothing} \union DOMAIN launches
             /\ running[a] = [step |-> running[a].step, launch |-> running[a].launch]
             /\ complete[a] \in {Nothing} \union DOMAIN launches
  <2>1. dirs[a].results \in Nat /\ dirs[a].predictions \in Nat /\ dirs[a].report \in Nat
    BY ArmOf DEF Dir
  <2>2. /\ dirs[a].results <= Len(launches) /\ dirs[a].predictions <= dirs[a].results
        /\ dirs[a].report <= Len(launches)
    BY ArmOf DEF ArmSound, DirSound
  <2>3. running[a] \in [step : Steps, launch : Nat]
    BY ArmOf
  <2>4. running[a].launch \in {Nothing} \union DOMAIN launches
    BY ArmOf, EmptyLemma DEF ArmSound, DirSound
  <2>5. complete[a] \in {Nothing} \union DOMAIN launches
    BY ArmOf DEF ArmSound, CompleteSound
  <2> QED
    BY <1>1, <2>1, <2>2, <2>3, <2>4, <2>5 DEF Nothing
<1>3. running \in [Arms -> [step : Steps, launch : {Nothing} \union DOMAIN launches]]
      /\ complete \in [Arms -> {Nothing} \union DOMAIN launches]
  BY <1>2 DEF AInv, ArmsTyped
<1> QED
  BY <1>2, <1>3 DEF AInv, ArmsTyped, ArmsTypeOK

(* Whatever was launched, killed or prepared before, the files of an arm   *)
(* whose launch was graded and ran to its end are of that launch.          *)
THEOREM CompleteAgrees == ArmsSpec => []CompleteArmAgrees
<1>1. AInv => CompleteArmAgrees
  BY DEF AInv, ArmSound, CompleteSound, CompleteArmAgrees
<1> QED
  BY <1>1, AlwaysAInv, PTL

(* Outside the leak control matrix no launch that runs beside others       *)
(* leaves its report in another arm, or a report behind the predictions.   *)
THEOREM ReportsStay == ArmsSpec => []OwnReports
<1>1. AInv => OwnReports
  BY DEF AInv, ArmSound, OwnReport, OwnReports
<1> QED
  BY <1>1, AlwaysAInv, PTL
-----------------------------------------------------------------------------

(* The types of the candidate matrix that Typed and Graded leave open.     *)
ReportsTyped ==
    /\ Len(matrices) <= MaxMatrices
    /\ \A c \in Candidates :
        /\ reports[c].matrix \in 0..predictions[c]
        /\ DOMAIN reports[c].verdicts \subseteq Instances
        /\ Range(reports[c].verdicts) \subseteq Verdicts

ExInv == MInv /\ Graded /\ ReportsTyped /\ AInv

LEMMA ReportsTypedInit == Init => ReportsTyped
<1> SUFFICES ASSUME Init PROVE ReportsTyped
  OBVIOUS
<1>1. Len(matrices) = 0 /\ \A c \in Candidates : reports[c] = NoReport /\ predictions[c] = 0
  BY DEF Init
<1>2. NoReport.matrix = 0 /\ DOMAIN NoReport.verdicts = {}
  BY DEF NoReport
<1> QED
  BY <1>1, <1>2, MatrixAssumption DEF ReportsTyped, Range

LEMMA ReportsTypedStep ==
    ASSUME MInv, Graded, ReportsTyped, [Next]_vars
    PROVE  ReportsTyped'
<1> USE DEF ReportsTyped
<1>1. CASE StartMatrix
  <2>1. matrices' \in Seq(Matrix) /\ Len(matrices') = Len(matrices) + 1 /\ Len(matrices) < MaxMatrices
    <3>1. Len(matrices) < MaxMatrices /\ \E m \in Matrix : matrices' = Append(matrices, m)
      BY <1>1 DEF StartMatrix, Matrix
    <3> QED
      BY <3>1, AppendLemma DEF MInv, Typed
  <2>2. Len(matrices) \in Nat /\ UNCHANGED <<predictions, reports>>
    BY <1>1 DEF StartMatrix, files, MInv, Typed
  <2> QED
    BY <2>1, <2>2, MatrixAssumption
<1>2. ASSUME NEW c \in Candidates, WritePredictions(c) PROVE ReportsTyped'
  BY <1>2 DEF WritePredictions, MInv, Typed
<1>3. ASSUME NEW c \in Candidates, Grade(c) PROVE ReportsTyped'
  <2>1. PICK verdicts \in [Lines(matrices[commands[c]], c) \intersect Lines(matrices[predictions[c]], c)
                             -> Verdicts] :
          reports' = [reports EXCEPT ![c] = [matrix |-> predictions[c], verdicts |-> verdicts]]
    BY <1>3 DEF Grade
  <2>2. /\ DOMAIN verdicts \subseteq Instances /\ Range(verdicts) \subseteq Verdicts
    BY <2>1 DEF Lines, Range
  <2>3. predictions[c] \in 0..predictions[c] /\ UNCHANGED <<matrices, predictions>>
    BY <1>3 DEF Grade, files, MInv, Typed
  <2>4. reports'[c] = [matrix |-> predictions[c], verdicts |-> verdicts]
        /\ \A e \in Candidates \ {c} : reports'[e] = reports[e]
    BY <2>1 DEF Graded
  <2> QED
    BY <2>2, <2>3, <2>4
<1>4. ASSUME UNCHANGED <<matrices, predictions, reports>> PROVE ReportsTyped'
  BY <1>4
<1> QED
  BY <1>1, <1>2, <1>3, <1>4 DEF Next, WriteInstanceIds, WriteCommand, WriteSubsets,
     WriteManifest, Kill, vars, files

LEMMA ExInvStep ==
    ASSUME ExInv, [ExperimentsNext]_<<kind, vars, armsVars>>
    PROVE  ExInv'
<1>1. [Next]_vars /\ [ArmsNext]_armsVars
  BY DEF ExperimentsNext
<1> QED
  BY <1>1, MInvStep, GradedStep, ReportsTypedStep, AInvStep DEF ExInv

(* Both kinds of directories keep their types, and the files' numbers are  *)
(* those of matrices and launches there have been.                         *)
THEOREM ExperimentsTyped == ExperimentsSpec => []TypesOK
<1>1. ExperimentsInit => ExInv
  BY InitInv, GradedInit, ReportsTypedInit, ArmsInitInv DEF ExperimentsInit, ExInv
<1>2. ExInv /\ [ExperimentsNext]_<<kind, vars, armsVars>> => ExInv'
  BY ExInvStep
<1>3. ExInv => TypesOK
  BY AInvTypes DEF ExInv, MInv, Typed, Matrix, ReportsTyped, TypesOK, TypeOK, Numbers
<1> QED
  BY <1>1, <1>2, <1>3, PTL DEF ExperimentsSpec
=============================================================================
