SPECIFICATION Spec
CONSTANTS
    Hosts = {wii, pc}
    NoHost = NoHost
    DefaultWii = wii
    TaskIds = {t1, t2}
    NoTask = NoTask
    ConnectDuringBoot = TRUE
    RequestMayFail = TRUE
    MaxEvents = 2
    MaxTimers = 1
INVARIANT
    LoopMatchesLink
