SPECIFICATION Spec
CONSTANT NULL = NULL
INVARIANTS
    ValidIsDisk
    ConsistentFS
PROPERTIES
    EveryRequestEnds
    ImplementsFileStore
