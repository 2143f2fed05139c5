SPECIFICATION Spec
CONSTANTS
    va = va
    vb = vb
    vc = vc
    soft = soft
    hard = hard
    other = other
    p1 = p1
    p2 = p2
    p3 = p3
    VarIds <- MCVarIds
    Surfaces <- MCSurfaces
    Identified <- MCIdentified
    TraceRequired = TRUE
    Irreversible <- MCIrreversible
    Critical = {}
    Payloads <- MCPayloads
    MaxSteps = 6
    Proposals <- MCProposals
    InitialVars <- MCVars
    Surfaceable <- MCSurfaceable
    MaxSurfaced = 2
INVARIANTS
    LogProjectsLedger
    TurnsSettle
PROPERTIES
    ExecutedIsSound
    Termination
