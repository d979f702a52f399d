SPECIFICATION Spec
CONSTANTS
    MaxId = 4
    Limits = {0, 1, 3, none}
    NoLimit = none
    PageMax = 2
    ServerPage = 2
    Data = {0, 1}
    Empty = 0
    Schedules <- Schedules_
    Edited = {1}
    MaxRuns = 2
    MaxRetries = 1
INVARIANT TypeOK
INVARIANT ListsEachOnce
INVARIANT NeverGuesses
INVARIANT EditKeepsRest
