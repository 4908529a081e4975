SPECIFICATION Spec
CONSTANTS
    Leds = {b}
    Enables = {b}
INVARIANT
    PluggedIsShown
