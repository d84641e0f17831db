CONSTANTS
    Receivers <- MCReceivers
    SharedRegions <- MCSharedRegions
    MemoryLines <- MCMemoryLines
    VtblBytes = 64
    BufferBase = 1024
    BufferBytes = 2048
    Capacity = 16
SPECIFICATION Spec
INVARIANTS
    TypeOK
    FlushedOnReturn
    ReceiverColdOnReturn
    SweptOnReturn
PROPERTIES
    EvictsOnlyRegions
    Returns
