SPECIFICATION Spec
CONSTANTS
    Files = {"src", "gen"}
    Contents <- MCContents
    Absent = "absent"
    Binary = "binary"
    Empty = "empty"
    Lines <- MCLines
    Leaks = {}
    Weakening <- MCWeakening
    Allowed = {"src", "gen"}
    Unrestricted = FALSE
    Baseline <- MCBaseline
    TestRuns <- MCTestRuns
    NCandidates = 2
    Penalties = {0, 35, 100}
    HardenedRuns <- MCHardenedRuns
INVARIANTS
    OnlyVerifiedApplied
    WinnerUndominated
    SuccessIsVerified
    TargetIsWinners
