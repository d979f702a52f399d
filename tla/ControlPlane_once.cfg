SPECIFICATION Spec
CONSTANTS
    Calls = {c1, c2}
    Kinds = {"create_sandbox", "start_job", "trigger_job_schedule", "create_preview"}
    Orgs = {o1, o2}
    MaxRetries = 1
SYMMETRY Symmetry
CHECK_DEADLOCK FALSE
INVARIANT TypeOK
INVARIANT KeyedOnce
PROPERTY ImplementsKeyedCalls
INVARIANT CreateCanBeJoined
