SPECIFICATION Spec
CONSTANTS
    Calls = {c1}
    Ops = {"download"}
    Size = 2
    Limits = {2}
    MaxTokens = 1
    LateRejects = {"download"}
CHECK_DEADLOCK FALSE
INVARIANT DestinationIsWhole
