CONSTANTS
    HeaderOnHashLine = FALSE
    UllMod = 262144
    SizeMod = 65536
    MiB = 4096
    TrimPer = 2
    DefaultReps = 2
    DefaultObjects = 8
    DefaultSweepMb = 4
    DefaultCpu = 1
    ArgLists <- MCArgLists
    Schedule <- MCSchedule
    Work <- MCWork
    FloorWork = 2
    FloorReps = 1
    HalfMod = 16
    Phases <- MCPhases
    Offset <- MCOffset
    CalibTicks = 3
    MaxSamples = 8
    Stalls <- MCStalls
    MaxStall = 90
    MaxDisturb = 2
    MaxPasses = 3
SPECIFICATION Spec
INVARIANTS
    TypeOK
    SampleExact
    StatsRobust
    CalibrationError
    PublishedExact
    WholeTables
PROPERTY
    Ends
