\* Two saves at once, both of invalid text, and no failed call.
CONSTANTS
    s1 = s1
    s2 = s2
    s3 = s3
    Original = Original
    Absent = Absent
    Partial = Partial
    Saves <- TwoSaves
    Valid <- NoneValid
    MaxBackups = 2
    MaxParallel = 2
    MaxFaults = 0
SPECIFICATION Spec
INVARIANTS
    RefusedTextIsGone
\* When every save has been answered nothing more happens.
CHECK_DEADLOCK FALSE
