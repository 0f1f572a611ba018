\* Four lines, a buffer of three; one poll at a time, a cut, a restart.
CONSTANTS
    MaxLines = 4
    Capacity = 3
    MaxPolls = 1
    MaxBreaks = 1
    MaxRestarts = 1
SPECIFICATION FairSpec
\* Once the page is static nothing more happens.
CHECK_DEADLOCK FALSE
INVARIANTS
    TypeOK
    PageIsTheLog
PROPERTIES
    FollowerSeesNewLine
    LogFinallyShown
