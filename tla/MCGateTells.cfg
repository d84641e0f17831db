CONSTANTS
    NumClasses = 3
    NumObjects = 4
    StrideI = 2
    StrideJ = 3
    Arrangements <- MCArrangements
    Faults <- CrossedCell
SPECIFICATION Spec
INVARIANT
    GateTellsOverrider
