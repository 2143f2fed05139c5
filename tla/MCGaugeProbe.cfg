\* A log of at most three events over two variables, worth one of two
\* leaves, a list of one of them or None, and one event more on the branch
\* of a log of leaves; one pair of tasks whose agents write two texts each;
\* a grid of six points searched by two processes.
SPECIFICATION ProbeSpec
CONSTANTS
    Ids = {"a", "b"}
    Leaf = {v, w}
    Values <- MCValues
    Composites <- MCComposites
    Sentinel = Sentinel
    None = None
    MaxEvents = 3
    MaxBranch = 1
    Seeds = 1
    AgentTexts <- MCTexts
    Fingerprint <- MCFingerprint
    MaxUpdates = 2
    Budgets <- MCBudgets
    MinConcerns <- MCMinConcerns
    Normals <- MCNormals
    Measures <- MCMeasures
    MaxFalseBlock = 5
    MinCatch = 50
    MaxRuns = 2
SYMMETRY MCLeaf
INVARIANTS
    QueriesAgree
    VerdictsAreEarned
    ProbesAreExact
    PublishedScores
    SearchIsSound
CHECK_DEADLOCK FALSE
