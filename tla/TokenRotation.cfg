\* Two rotations, a revocation, the disabling of the agent and an issue, in any
\* order; writes may fail.  (An authentication alone is the first half of each.)
SPECIFICATION TSSpec
CONSTANTS
    data = data  admin = admin  r1 = r1  r2 = r2  Nothing = Nothing
    Founders <- FirstTokens
    Agents <- AgentTokens
    Readers = {}
    Creators = {c1}
    Rotators <- TwoRotations
    Revokers = {v1}
    Sweepers = {s1}
SYMMETRY Symmetric
CHECK_DEADLOCK FALSE
INVARIANTS RotationChains RevokedForCause
PROPERTY RevocationSettles
