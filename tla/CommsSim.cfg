SPECIFICATION Spec
CONSTANTS
    Devices <- MCDevices
    FrameLen <- MCFrameLen
    Bytes = {0, 1}
    MAX_FRAME_COUNT = 2
    UINT8_MODULUS = 3
    Files <- MCFiles
    Registers <- MCRegisters
INVARIANTS
    TypeOK
    NoHandleLeaks
    DisconnectedWhenSpent
PROPERTIES
    ImplementsTape
