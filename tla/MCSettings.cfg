SPECIFICATION Spec
CONSTANTS
    NumSerializers = 3
    ByName <- MCByName
    Values <- MCValues
    Default <- MCDefault
    Firmwares <- MCFirmwares
    Version <- MCVersion
    STUB = STUB
    INITIAL = UNSET
    NONE = NONE
INVARIANTS
    MediumCurrent
PROPERTIES
    BootRestores
    MediumSpec
