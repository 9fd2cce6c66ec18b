SPECIFICATION FairSpec
CONSTANTS
    SYSMEM_END = 1
    RAM_END = 3
    ROM_LIMIT = 5
    POINTERS = 7
    RAM_AT = 3
    ROM_AT = 1
    Addresses <- MCAddresses
    Sizes <- MCSizes
    Descriptors <- MCDescriptors
    MaxStream = 2
INVARIANTS
    NoSocketLeak
    ConnectedIffSocket
    RecvNeverBlocks
PROPERTIES
    OverrunsOnlyByWrapping
    LeftoversAreAnnounced
