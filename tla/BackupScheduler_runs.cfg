\* Every schedule; two jobs of any length, a failed commit, a death of the panel
\* and one use of the enable switch in six ticks.
CONSTANTS
    Hours = 4
    Week = 3
    MonthStarts <- Months
    LastDay = 3
    MaxTime = 6
    MaxJobs = 2
    MaxFaults = 1
    MaxCrashes = 1
    MaxToggles = 1
SPECIFICATION Spec
\* At the last tick the clock stops.
CHECK_DEADLOCK FALSE
INVARIANTS
    TypeOK
    TargetsAreKept
PROPERTIES
    BackupsOnTime
