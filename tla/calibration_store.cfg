SPECIFICATION Spec
CONSTANTS
    Axes = {"y", "z"}
    Up = "z"
    Gravity = 1000
    Biases = {3}
    Offsets = {0}
INVARIANTS
    TypeOK
    CorrectedOnRequest
    NothingDormant
    RestReadsTrue
