SPECIFICATION Spec
CONSTANTS
    ITEM = 2
    Byte = {0, 1}
    Junk = Junk
    MaxLength = 5
PROPERTIES
    ImplementsItemList
CHECK_DEADLOCK FALSE
