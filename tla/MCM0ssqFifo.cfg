SPECIFICATION Spec
CONSTANTS
    a = a
    b = b
    Words <- MCWords
    MemSize = 28
    MaxLen = 2
INVARIANTS
    TypeOK
    SecondCheckHolds
PROPERTIES
    NoOverwrite
    QueueSpec
