SPECIFICATION Spec
CONSTANTS
    MaxPc = 1
    Handlers <- MCHandlers
    IntrTypes <- KeyboardTypes
    Exceptions <- MCExceptions
    KeyEvents = {press, release}
    HaveVideo = TRUE
    HaveModem = FALSE
    OPS_PER_UPDATE = 1
    PUSH_LEN = 1
    MaxAsked = 2
INVARIANTS
    TypeOK
    NestingStrict
    NeverSleepsOnDue
    OneTimerInFlight
PROPERTIES
    KeyRegsStable
    ImplementsPriorityInterrupts
