SPECIFICATION Spec
CONSTANTS
    c1 = c1
    c2 = c2
    c3 = c3
    k0 = k0
    First = k0
    None = None
    Calls <- ThreeCalls
    Asks <- MixedAsks
    Mortal <- TwoMortals
INVARIANTS
    KeyOutlivesRotation
    DeletionIsFinal
    ListMatchesProvider
    ChargedForEffect
CHECK_DEADLOCK FALSE
