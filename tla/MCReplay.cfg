SPECIFICATION Spec
CONSTANTS
    MaxSteps = 4
    Adapters = {a1, a2}
    Actions = {"edit", "read"}
    Results = {"done", "error"}
    Modifying <- MCModifying
    Window = 2
    Kept = TRUE
INVARIANTS
    ReplayIsFaithful
PROPERTIES
    Termination
