SPECIFICATION ProgramSpec
CONSTANTS
    MaxInputs = 3
    MaxEvents = 2
CHECK_DEADLOCK FALSE
INVARIANT ExecTypeOK
INVARIANT NoDuplicateInput
PROPERTY OneRefresh
INVARIANT ReplayIsExact
INVARIANT ExecIsWhole
