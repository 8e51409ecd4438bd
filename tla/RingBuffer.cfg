SPECIFICATION Spec
CONSTANTS
    Byte = {0, 1}
    Size = 4
    MaxWrite = 3
INVARIANTS
    TypeOK
    Occupancy
PROPERTY
    ImplementsFifo
CHECK_DEADLOCK TRUE
