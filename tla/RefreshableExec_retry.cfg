SPECIFICATION Spec
CONSTANTS
    MaxInputs = 1
    MaxEvents = 1
CHECK_DEADLOCK FALSE
INVARIANT NoRetryAfterResponses
