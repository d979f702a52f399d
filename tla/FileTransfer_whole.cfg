SPECIFICATION Spec
CONSTANTS
    Calls = {c1, c2}
    Ops = {"read", "download", "write", "mutate"}
    Size = 2
    Limits = {1, 3}
    MaxTokens = 2
    LateRejects = {"read", "write"}
SYMMETRY Symmetry
CHECK_DEADLOCK FALSE
INVARIANT TypeOK
PROPERTY ImplementsFileCalls
INVARIANT ReturnedIsDurable
INVARIANT PayloadIsWhole
INVARIANT AppliedOnce
INVARIANT NoTempLeft
