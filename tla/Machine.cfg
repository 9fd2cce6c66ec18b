SPECIFICATION Spec
CONSTANTS
    WORD = 4
    BYTE_BITS = 2
    VECTORS_END = 12
    PRINTER = 23
    SYSMEM_END = 25
    RAM_END = 35
    Rom <- MCRom
    Sizes <- MCSizes
    Starts <- MCStarts
INVARIANTS FramesNest
PROPERTIES StackDiscipline StoresStopAtFault FaultsGoOnBehind EmulatorDiesKnown
