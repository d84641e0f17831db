CONSTANTS
    NumClasses = 25
    NumObjects = 4096
    StrideI = 97
    StrideJ = 89
    Arrangements <- FullArrangements
    Faults <- FullFaults
SPECIFICATION Spec
INVARIANT
    NoOverriderMissing
