SPECIFICATION FairSpec
CONSTANTS
    OPS_PER_UPDATE = 2
    MaxAsked = 5
    SYSMEM_END = 1
    RAM_END = 4
    ROM_LIMIT = 7
    POINTERS = 8
    RAM_AT = 4
    ROM_AT = 1
    Descriptors = {3}
    MaxStream = 2
    BUF_BEGIN = 1
    BUF_SIZE = 2
    HOST = 4
    PORT = 3
    DATA = 5
    DATA_LEN = 1
INVARIANTS
    TypeOK
    AnnouncementKept
    OneRequestEach
    NeverInVain
PROPERTIES
    IsModem
    AllIsRead
