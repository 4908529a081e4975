SPECIFICATION Spec
CONSTANTS
    CamRegs = {"33"}
    ModeReg = "33"
    Values = {"off", "basic", "extended"}
    PowerUp = "off"
    Scales = {"default", "wanted", "undefined"}
    Known = {"default", "wanted"}
    Wanted <- MCWanted
INVARIANTS
    TypeOK
    CameraReadIsOwn
    FormatIsFrames
    ScaleIsTrue
CHECK_DEADLOCK FALSE
