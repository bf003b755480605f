CONSTANTS
    NULL = NULL
    Inputs <- MCShortInputs
    MathValue <- MCMathValue
SPECIFICATION Spec
PROPERTIES
    ParseTerminates
CHECK_DEADLOCK FALSE
