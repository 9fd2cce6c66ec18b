SPECIFICATION Spec
CONSTANTS
    MaxPc = 2
    Handlers <- MCHandlers
    IntrTypes <- BareTypes
    Exceptions <- MCExceptions
    KeyEvents = {press}
    HaveVideo = FALSE
    HaveModem = FALSE
    OPS_PER_UPDATE = 1
    PUSH_LEN = 1
    MaxAsked = 1
PROPERTIES
    ExceptionsAreNonMaskable
