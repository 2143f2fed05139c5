SPECIFICATION ExperimentsSpec
CONSTANTS
    Scripts = {"leak_control", "sealed_unsealed", "wrap_matrix"}
    Arms = {"plain", "gated"}
    Gated = {"gated"}
    Ids = {i1, i2}
    Instances = {i1, i2}
    MaxPrepares = 2
    MaxLaunches = 2
    Count = 2
    MaxMatrices = 2
    MaxFaults = 1
SYMMETRY MCInstances
INVARIANTS
    TypesOK
    CompleteArmAgrees
    OwnReports
    ManifestIsSound
    SelectionIsSound
CHECK_DEADLOCK FALSE
