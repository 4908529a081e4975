SPECIFICATION Spec
CONSTANTS
    Hosts = {wii, pc}
    NoHost = NoHost
    DefaultWii = wii
    TaskIds = {t1, t2}
    NoTask = NoTask
    ConnectDuringBoot = FALSE
    RequestMayFail = TRUE
    MaxEvents = 2
    MaxTimers = 1
INVARIANTS
    TypeOK
    OneMainTask
    LoopMatchesLink
    Findable
    RetriesPresentHost
