SPECIFICATION Spec
CONSTANTS
    c1 = c1
    c2 = c2
    c3 = c3
    u1 = u1
    k1 = k1
    None = None
    Calls <- ThreeCalls
    Users <- OneUser
    Keys <- OneKey
    Desks = {d1}
    Asks <- KeyedAsks
    Included = 10
    UsedBefore = 10
    MinSamples = 2
    Window = 1
    OpenFor = 1
    CacheFor = 1
    Day = 2
    Mortal <- OneMortal
    MaxEvents = 2
INVARIANTS
    OneDispatchPerKey
    RepeatsAgree
    SlotHasInvocation
    OpenForCause
PROPERTIES
    OutcomeStays
CHECK_DEADLOCK FALSE
