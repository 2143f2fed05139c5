SPECIFICATION RSpec
CONSTANTS
    Texts <- MCTexts
    TestsPassed = "passed"
    TestsFailed = "failed"
    Verified = "verified"
    Feedback = "feedback"
    DoneText = "done"
    ErrorText = "error"
    GateText = "gate"
    Files = {"src"}
    Contents <- MCContents
    Absent = "absent"
    Binary = "binary"
    Empty = "empty"
    Lines <- MCLines
    Leaks = {}
    Weakening = {}
    Allowed = {"src"}
    Unrestricted = FALSE
    Baseline <- MCBaseline
    MaxSteps = 3
    ContaminationGate = FALSE
    HasMarker = FALSE
    TestRuns <- MCTestRuns
    AgentActions <- MCActions
    InitialLedger <- MCLedger
    ChildTasks <- MCChildTasks
    FailFast = FALSE
INVARIANTS
    ChildrenAreHeard
PROPERTIES
    ReportsSurvive
    RTermination
