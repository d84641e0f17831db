CONSTANTS
    Regs <- MCRegs
    ArgRegs <- MCArgRegs
    Instructions <- MCInstructions
    Calls <- MCCalls
    MaxWindow = 4
    Word = 1
SPECIFICATION Spec
INVARIANTS
    SliceSound
    ChainExact
    RolesSound
