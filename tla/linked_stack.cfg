CONSTANTS
    NULL = NULL
    a1 = a1
    a2 = a2
    a3 = a3
    Cats <- MCCats
    Addrs <- MCAddrs
SPECIFICATION Spec
INVARIANTS
    TypeOK
    SizeIsLength
    NoLeak
PROPERTIES
    ImplementsSeqStack
CHECK_DEADLOCK FALSE
