--------------------------- MODULE VerifiedCommit ---------------------------
(***************************************************************************)
(* What a coding harness promises of the tree it commits: it may be worked *)
(* on freely until a verdict is given, the verdict is given once, a tree   *)
(* is accepted only when it is acceptable, a rejected one may be submitted *)
(* for grading but only if it is submittable, and nothing touches the tree *)
(* after the verdict.                                                      *)
(***************************************************************************)
CONSTANTS
    Trees,        \* the trees a workspace may hold
    Start,        \* the tree when the work begins
    Acceptable,   \* the trees verification accepts
    Submittable   \* the trees that may leave the harness at all

VARIABLES commit, verdict

vars == <<commit, verdict>>

Init == commit = Start /\ verdict = "undecided"

Work == verdict = "undecided" /\ commit' \in Trees /\ UNCHANGED verdict

(* The accepted tree is the tree as it stands, not one last change of it.  *)
Accept ==
    /\ verdict = "undecided"
    /\ commit \in Acceptable \intersect Submittable
    /\ verdict' = "accepted" /\ UNCHANGED commit

(* A rejection may clean up in the same step.                              *)
Reject ==
    /\ verdict = "undecided"
    /\ commit' \in Trees \intersect Submittable
    /\ verdict' = "rejected"

Abort == verdict = "undecided" /\ verdict' = "aborted" /\ commit' \in Trees

Next == Work \/ Accept \/ Reject \/ Abort

Spec == Init /\ [][Next]_vars
=============================================================================
