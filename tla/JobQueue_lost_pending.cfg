\* Two jobs, one end of the process.
CONSTANTS
    j1 = j1
    j2 = j2
    j3 = j3
    Sentinel = Sentinel
    Jobs <- TwoJobs
    MaxRestarts = 1
    MaxFaults = 0
SPECIFICATION FairSpec
PROPERTIES
    EveryRowIsExecuted
\* An idle panel waits for a request for ever.
CHECK_DEADLOCK FALSE
