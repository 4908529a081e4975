SPECIFICATION FairSpec
CONSTANTS
    Leds = {b}
    Enables = {b}
INVARIANTS
    TypeOK
    ConnectedIsShown
    HostNotUnaware
    HostBitsAsCommanded
    PassthroughFresh
    DeviceMatchesFlag
PROPERTY
    Converges
