CONSTANTS
    NULL = NULL
    Inputs <- MCInputs
    MathValue <- MCMathValue
SPECIFICATION Spec
INVARIANTS
    TypeOK
    ParentIsPushedNode
CHECK_DEADLOCK FALSE
