------------------------------ MODULE Verifier ------------------------------
(***************************************************************************)
(* The deterministic checks of lbah/coding/verifier.py on a workspace: the *)
(* test commands run first, and the other checks read the tree they left.  *)
(* Test commands are external processes that may write files, fail, or not *)
(* start at all.                                                           *)
(***************************************************************************)
EXTENDS Workspace

CONSTANT
    TestRuns    \* TestRuns[t]: <<outcome, tree afterwards>> of the tests on t

(* "error": a command that cannot start, or whose output does not decode,  *)
(* raises; a timeout is a failure.                                         *)
Outcomes == {"pass", "fail", "error"}

ASSUME VerifierAssumption == TestRuns \in [Trees -> SUBSET (Outcomes \X Trees)]

CheckNames == {"tests_pass", "allowed_paths", "diff_present",
               "no_test_weakening", "concern_evidence"}

(* The checks that fail on tree t after a test run with this outcome, with *)
(* these concerns still unresolved in the ledger.                          *)
FailedChecks(t, outcome, unresolved) ==
    {n \in CheckNames :
        CASE n = "tests_pass"        -> outcome # "pass"
          [] n = "allowed_paths"     -> OutsideAllowed(t) # {}
          [] n = "diff_present"      -> ModifiedFiles(t) = {}
          [] n = "no_test_weakening" -> Weakened(t)
          [] OTHER                   -> unresolved # {}}

(* What the checks, when none fails, establish of the tree.                *)
Verifiable(t) ==
    /\ ModifiedFiles(t) # {} /\ OutsideAllowed(t) = {} /\ ~Weakened(t)
    /\ \E before \in Trees : <<"pass", t>> \in TestRuns[before]
=============================================================================
