CONSTANTS
    MaxCompiled = 4
    e1 = e1
    e2 = e2
    UNINIT = UNINIT
    Tokens <- MCTokens
    Streams <- MCStreams
    Args <- MCArgs
SPECIFICATION Spec
PROPERTIES
    SessionEnds
CHECK_DEADLOCK FALSE
