CONSTANTS
    CcList <- MCCcList
    MaxRuns = 2
    MaxStarts = 1
    MaxEdits = 0
    MaxCuts = 0
SPECIFICATION Spec
INVARIANT
    CaptionNotOverstated
