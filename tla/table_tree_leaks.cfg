CONSTANTS
    NULL = NULL
    Inputs <- MCInputs
    MathValue <- MCMathValue
SPECIFICATION Spec
INVARIANTS
    TableEvaluationFreesAll
CHECK_DEADLOCK FALSE
