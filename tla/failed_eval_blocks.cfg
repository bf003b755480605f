CONSTANTS
    NULL = NULL
    Inputs <- MCInputs
    MathValue <- MCMathValue
SPECIFICATION Spec
INVARIANTS
    FailedEvaluationFreesBlocks
CHECK_DEADLOCK FALSE
