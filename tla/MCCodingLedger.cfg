SPECIFICATION CSpec
CONSTANTS
    Texts <- MCTexts
    TestsPassed = "passed"
    TestsFailed = "failed"
    Verified = "verified"
    Feedback = "feedback"
    DoneText = "done"
    ErrorText = "error"
    GateText = "gate"
    Files = {"src"}
    Contents <- MCContents
    Absent = "absent"
    Binary = "binary"
    Empty = "empty"
    Lines <- MCLines
    Leaks = {"leak"}
    Weakening = {}
    Allowed = {"src"}
    Unrestricted = FALSE
    Baseline <- MCBaseline
    MaxSteps = 4
    ContaminationGate = TRUE
    HasMarker = TRUE
    TestRuns <- MCTestRuns
    AgentActions <- MCActions
    InitialLedger <- MCLedger
INVARIANTS
    MirrorAgrees
    EveryTurnObserved
    CertificateAgrees
PROPERTIES
    FeedbackOutlivesFinish
    LedgerRemembers
