SPECIFICATION FairSpec
CONSTANTS
    Values = {0, 1}
    Changing = {"buttons", "accel", "ir", "extension", "gyro"}
    Overlap = FALSE
    MaxChanges = 2
INVARIANTS
    LayoutBut36
PROPERTIES
    SilentWhenUnchanged
    NoChangeLost
