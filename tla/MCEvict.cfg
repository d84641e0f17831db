CONSTANTS
    HeaderOnHashLine = FALSE
    NumClasses = 2
    NumObjects = 2
    Reps = 1
    ModeList <- MCModeList
    Schedule <- MCSchedule
    EnginePeriod = 7
    Streams <- MCStreams
    MaxPreempts = 0
    PreemptedIn = {}
SPECIFICATION Spec
INVARIANT
    EvictsWhatDispatchReads
