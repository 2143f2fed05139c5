--------------------------- MODULE MCExperiments ---------------------------
(* Experiments with symmetry over the instances, which the arms and the    *)
(* matrix have in common.                                                  *)
EXTENDS Experiments, TLC

MCInstances == Permutations(Instances)
=============================================================================
