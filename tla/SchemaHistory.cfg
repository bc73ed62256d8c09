\* Two plans, a grant, an approval, two applies and a revert in any order, with
\* crashes.
SPECIFICATION Spec
CONSTANTS
    wide = wide  narrow = narrow  None = None  First = v0
    p1 = p1  p2 = p2  y1 = y1  y2 = y2
    Planners <- TwoPlanners
    Approvers = {a1}
    Appliers <- TwoAppliers
    Reverters = {r1}
    Others = {g1}
    Schemas <- BothSchemas
    Drops <- Narrowing
    Risky <- Narrowing
    Start = wide
    Crashes = TRUE
SYMMETRY Symmetric
CHECK_DEADLOCK FALSE
INVARIANTS HistoryIsSound ChangesApproved LockFollowsSwitch
