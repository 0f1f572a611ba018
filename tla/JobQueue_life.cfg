\* Three jobs, two ends of the process, one failed database write.
CONSTANTS
    j1 = j1
    j2 = j2
    j3 = j3
    Sentinel = Sentinel
    Jobs <- ThreeJobs
    MaxRestarts = 2
    MaxFaults = 1
SPECIFICATION FairSpec
\* When the bounds are used up an idle panel waits for a request for ever.
CHECK_DEADLOCK FALSE
INVARIANTS
    RowsAreHonest
    NoOvertaking
PROPERTIES
    ImplementsLifecycle
    RunningEnds
    ExecutedMeanwhile
