CONSTANTS
    f = f
    g = g
    Read = Read
    Write = Write
    Files = {f, g}
    Events = {Read, Write}
    Masks <- MasksOfBoth
    Edge = {f}
    None = none
    Elsewhere = elsewhere
    MaxEnables = 1
SPECIFICATION Spec
INVARIANTS
    InjectedArmed
PROPERTIES
    EventsDelivered
