\* Signups that wait for a confirmation link or an inbound mail: the signal, the
\* expiry and the sleep race, steps repeat or give up, handlers die.
SPECIFICATION FairSpec
CONSTANTS
    j1 = j1  j2 = j2  j3 = j3
    Jobs <- FirstTwo
    Intents = {j1}
    Admins = {j2}
    Pollers = {p1}
    Modes = {"link", "inbox"}
    UserLimit = 2
    Throws = {"signup", "insert", "complete", "fail"}
    Repeats = {"signup", "insert", "complete"}
    MaxTries = 1
    MaxClicks = 2
    Crashes = TRUE
    None = None
CHECK_DEADLOCK FALSE

PROPERTIES ProvisionInFlight RunEnds CredentialLeaves
