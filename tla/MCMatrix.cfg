CONSTANTS
    CcList <- MCCcList
    MaxRuns = 3
    MaxStarts = 2
    MaxEdits = 2
    MaxCuts = 1
SPECIFICATION Spec
INVARIANTS
    TypeOK
    NoStaleBlend
    MeasuredBuildsSound
    Interleaved
    CompleteIsExact
    CaptionWithinOne
    StaleWarned
PROPERTY
    Settles
