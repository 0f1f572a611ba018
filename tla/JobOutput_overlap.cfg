\* No outside fault and no garbled line: the handler's own transaction is enough.
CONSTANTS
    NumJobs = 2
    MaxLines = 4
    MaxFaults = 0
    MaxGarbled = 0
    FlushAt = 2
    WritesWhileLogging = TRUE
SPECIFICATION Spec
INVARIANTS
    OneCommandAtATime
\* When all jobs have run the worker waits for ever.
CHECK_DEADLOCK FALSE
