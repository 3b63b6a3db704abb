SPECIFICATION LoadSpec
CONSTANTS
    Loads <- MCLoads
    Lead = 1
    DEFAULT_MSG = 2
    CtrlRing = 0
    PacketSize = 3500
    MaxSlots = 5
    MaxTurns = 3
    MaxIdle = 1
    MaxModes = 1
INVARIANTS
    FileIsHeld
    MappingFits
    MappingFound
    
    InitCompletes
    Punctual
    
    OneModePerPacket
    
CHECK_DEADLOCK FALSE
