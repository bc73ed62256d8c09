\* Three concurrent direct signups of one slot: two intents, and one of an
\* administrator.  Steps give up or run twice, errors of refunds are swallowed,
\* handlers die; two agents poll.
SPECIFICATION Spec
CONSTANTS
    j1 = j1  j2 = j2  j3 = j3
    Jobs <- ThreeJobs
    Intents <- FirstTwo
    Admins = {j3}
    Pollers = {p1, p2}
    Modes = {"direct"}
    UserLimit = 1
    Throws = {"signup", "insert", "mint", "complete", "fail", "refund", "uncount"}
    Repeats = {"insert", "mint", "credit", "complete", "fail"}
    MaxTries = 1
    MaxClicks = 0
    Crashes = TRUE
    None = None
CHECK_DEADLOCK FALSE
INVARIANTS CompletedJobsAgree CeilingHolds OncePerPoller SlotSettled
PROPERTIES EndedStaysEnded
