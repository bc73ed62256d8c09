\* A key is claimed once and refunded at most once; claims may die.
SPECIFICATION FairSpec
CONSTANTS
    Keys = {k1, k2, k3}
    NumPacks = 2
    PackSize <- MCPackSize
    PlanIncluded = 1
    OveragePolicies = {TRUE, FALSE}
    AdminBypass = FALSE
    MaxRefunds = 1
    MaxResets = 0
    Crashes = {"claim"}
INVARIANT OverageMatchesInvoices
PROPERTIES
    ImplementsContract
    ClaimResolves
CHECK_DEADLOCK FALSE
