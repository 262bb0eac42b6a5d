SPECIFICATION FairSpec
CONSTANTS
    gate = gate
    lookup = lookup
    channel = channel
    profile = profile
    Filter <- MCFilter
    Call = {gate, lookup}
    Admins = {gate}
    Stamp <- MCStamps
    MaxEvents = 3
INVARIANTS
    AdminsAreCurrent
    NothingIsMissed
    NothingIsLeft
    WaitersHaveTimers
PROPERTIES
    EveryCallEnds
    ImplementsLookup
CHECK_DEADLOCK FALSE
