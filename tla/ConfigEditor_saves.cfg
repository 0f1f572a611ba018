\* Three saves, two of them at once and two of valid text; a fault or a death, a ring of two.
CONSTANTS
    s1 = s1
    s2 = s2
    s3 = s3
    Original = Original
    Absent = Absent
    Partial = Partial
    Saves <- ThreeSaves
    Valid <- TwoValid
    MaxBackups = 2
    MaxParallel = 2
    MaxFaults = 1
SYMMETRY ValidAlike
SPECIFICATION Spec
\* When every save has been answered nothing more happens.
CHECK_DEADLOCK FALSE
INVARIANTS
    TypeOK
    RestingFileIsRight
PROPERTIES
    SavesAreAtomic
