SPECIFICATION Spec
CONSTANTS
    Values = {0, 1}
    Changing = {"buttons"}
    Overlap = TRUE
    MaxChanges = 2
INVARIANT
    LayoutBut36
