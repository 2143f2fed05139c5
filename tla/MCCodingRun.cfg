SPECIFICATION Spec
CONSTANTS
    Texts <- MCTexts
    TestsPassed = "passed"
    TestsFailed = "failed"
    Verified = "verified"
    Feedback = "feedback"
    DoneText = "done"
    ErrorText = "error"
    GateText = "gate"
    Files = {"src", "gen"}
    Contents <- MCContents
    Absent = "absent"
    Binary = "binary"
    Empty = "empty"
    Lines <- MCLines
    Leaks = {"leak"}
    Weakening <- MCWeakening
    Allowed = {"src"}
    Unrestricted = FALSE
    Baseline <- MCBaseline
    MaxSteps = 3
    ContaminationGate = TRUE
    HasMarker = TRUE
    TestRuns <- MCTestRuns
    AgentActions <- MCActions
    InitialLedger <- MCLedger
INVARIANTS
    TypeOK
    CommitIsVerified
    SubmissionIsSound
PROPERTIES
    ImplementsVerifiedCommit
    Termination
