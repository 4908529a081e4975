SPECIFICATION Spec
CONSTANTS
    Samples <- MCSamples
    Rest <- MCRest
    Unset <- MCUnset
INVARIANTS
    HostSeesCore
    HostSeesRates
    HostTellsFrames
    HostSeesNunchuk
