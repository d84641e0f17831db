CONSTANTS
    NumClasses = 3
    NumObjects = 4
    StrideI = 2
    StrideJ = 3
    Arrangements <- MCArrangements
    Faults <- AllFaults
SPECIFICATION Spec
INVARIANTS
    TypeOK
    NoFalseAlarm
    ConstWorldTold
    UseWorldKindTold
    LookupsTold
PROPERTY
    Decides
