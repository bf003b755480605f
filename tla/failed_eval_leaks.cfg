CONSTANTS
    NULL = NULL
    Inputs <- MCInputs
    MathValue <- MCMathValue
SPECIFICATION Spec
INVARIANTS
    FailedEvaluationFreesAll
CHECK_DEADLOCK FALSE
