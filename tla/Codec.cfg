\* Every message there and back.
SPECIFICATION Spec
CONSTANTS
    BYTE = 4
    DIGIT = 2
    LITTLE_ENDIAN = TRUE
    ID_SIZE = 2
    NAME_SIZE = 3
    KEY_SIZE = 2
    Ids <- MCIds
    Names <- MCNames
    Keys <- MCKeys
    Data <- MCData
    Uint16 <- MCUint16
    Uint32 <- MCUint32
INVARIANTS
    TypeOK
    RequestReadAsMeant
    ResponseReadAsMeant
    IdSurvivesFile
