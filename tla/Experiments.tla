---------------------------- MODULE Experiments ----------------------------
(***************************************************************************)
(* The two kinds of experiment directories side by side: that of a         *)
(* candidate matrix, and those of the arms.  They share no state, so a     *)
(* behaviour is of the one kind or of the other and the rest of the state  *)
(* stays as it began.                                                      *)
(***************************************************************************)
EXTENDS CandidateMatrix, ExperimentArms

VARIABLE kind

ExperimentsInit ==
    /\ Init /\ ArmsInit
    /\ kind \in {"arms", "matrix"}
    /\ kind = "matrix" => script = "sealed_unsealed"

ExperimentsNext ==
    /\ \/ kind = "arms" /\ ArmsNext /\ UNCHANGED vars
       \/ kind = "matrix" /\ Next /\ UNCHANGED armsVars
    /\ UNCHANGED kind

ExperimentsSpec == ExperimentsInit /\ [][ExperimentsNext]_<<kind, vars, armsVars>>

(* The types of both directories.                                          *)
TypesOK == TypeOK /\ ArmsTypeOK
=============================================================================
