\* Codes, first sign-ins, and workspaces made, chosen, resolved and deleted at once.
SPECIFICATION Spec
CONSTANTS
    r1 = r1
    r2 = r2
    r3 = r3
    r4 = r4
    r5 = r5
    r6 = r6
    k1 = k1
    k2 = k2
    None = None
    Calls <- EightCalls
    Plans <- AllPlans
    MaxActive = 2
    MaxAttempts = 2
    MaxWorkspaces = 2
    Mortal <- OneMortal
INVARIANTS
    TypeOK
    CodeHoldsButSideBySide
    HomeUnlessCutShort
    ActiveResolves
    LimitsButSideBySide
CHECK_DEADLOCK FALSE
