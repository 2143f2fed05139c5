SPECIFICATION LogSpec
CONSTANTS
    Texts <- MCTexts
    TestsPassed = "passed"
    TestsFailed = "failed"
    Verified = "verified"
    Feedback = "feedback"
    DoneText = "done"
    ErrorText = "error"
    GateText = "gate"
    MaxTurns = 4
    Proposals <- MCProposals
    Observations <- MCObservations
    FirstLedger <- MCLedger
INVARIANTS
    LogAgrees
    BranchProjects
