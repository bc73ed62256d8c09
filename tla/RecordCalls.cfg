SPECIFICATION Spec
CONSTANTS
    c1 = c1  c2 = c2  c3 = c3  c4 = c4  k1 = k1  None = None
    Calls <- FourCalls
    Keys <- OneKey
    Kinds <- FourKinds
    Inputs <- TwoInputs
    Mortal = {c4}
SYMMETRY Symmetric
CHECK_DEADLOCK FALSE
INVARIANTS SegmentsTrail
PROPERTIES DeletionSettles AnswerIsStable ImplementsStore
