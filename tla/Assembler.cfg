SPECIFICATION FairSpec
CONSTANTS
    WORD = 8
    BYTE_BITS = 2
    LABEL_OFFSET = 4
    MAX_NESTING = 3
    Sources <- MCSources
INVARIANTS
    InProgressIsOnStack
    LoopReportIsACycle
    PassesAgree
    JumpsLand
    ConstantsMeanWhatTheySay
    GoodProgramsAreAssembled
PROPERTIES
    Terminates
