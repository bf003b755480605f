CONSTANTS
    NULL = NULL
    Inputs <- MCInputs
    MathValue <- MCMathValue
SPECIFICATION Spec
INVARIANTS
    EvaluatesLeftAssociatively
CHECK_DEADLOCK FALSE
