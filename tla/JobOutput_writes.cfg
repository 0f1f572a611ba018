\* Two refused writes, a line that is not UTF-8, and handlers that write while they log.
CONSTANTS
    NumJobs = 2
    MaxLines = 4
    MaxFaults = 2
    MaxGarbled = 1
    FlushAt = 2
    WritesWhileLogging = TRUE
SPECIFICATION Spec
\* When all jobs have run the worker waits for ever.
CHECK_DEADLOCK FALSE
INVARIANTS
    TypeOK
    OutputIsKept
PROPERTIES
    EndIsFinal
