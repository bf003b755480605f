CONSTANTS
    NULL = NULL
    Inputs <- MCInputs
    MathValue <- MCMathValue
SPECIFICATION Spec
INVARIANTS
    RejectedByBoth
CHECK_DEADLOCK FALSE
