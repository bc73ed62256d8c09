\* Repeated refunds, refunds of unclaimed keys, crashes, expiry, a new period.
SPECIFICATION Spec
CONSTANTS
    Keys = {k1, k2, k3}
    NumPacks = 2
    PackSize <- MCPackSize
    PlanIncluded = 1
    OveragePolicies = {TRUE, FALSE}
    AdminBypass = TRUE
    MaxRefunds = 2
    MaxResets = 1
    Crashes = {"claim", "refund"}
SYMMETRY Symmetry
INVARIANTS
    PackConservation
    ReceiptBacked
CHECK_DEADLOCK FALSE
