CONSTANTS
    HeaderOnHashLine = FALSE
    NumClasses = 2
    NumObjects = 2
    Reps = 2
    ModeList <- MCModeList
    Schedule <- ModeSchedule
    EnginePeriod = 7
    Streams <- MCStreams
    MaxPreempts = 1
    PreemptedIn <- MCPreemptedIn
SPECIFICATION Spec
INVARIANTS
    TypeOK
    PairedDraws
    PairedReceivers
    ColdWindow
    WarmedUp
    NoFirstTouch
    SubtractsOnlyPaid
PROPERTIES
    PairedSpec
    Finishes
