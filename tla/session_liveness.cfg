SPECIFICATION FairSpec
CONSTANTS
    Hosts = {wii}
    NoHost = NoHost
    DefaultWii = wii
    TaskIds = {t1, t2}
    NoTask = NoTask
    ConnectDuringBoot = FALSE
    RequestMayFail = FALSE
    MaxEvents = 2
    MaxTimers = 2
PROPERTIES
    ConfigurationKept
    DropIsRetried
    ImplementsLoopSwitch
