SPECIFICATION FairSpec
CONSTANTS
    MaxPc = 2
    Handlers <- MCHandlers
    IntrTypes <- ModemTypes
    Exceptions <- MCExceptions
    KeyEvents = {press}
    HaveVideo = FALSE
    HaveModem = TRUE
    OPS_PER_UPDATE = 2
    PUSH_LEN = 1
    MaxAsked = 1
INVARIANTS
    HaltedIsWakeable
    FaultsAreDelivered
    ExceptionRegsMatchFrame
PROPERTIES
    DevicesKeepTheirTurn
    DeathStops
