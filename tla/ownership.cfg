CONSTANTS
    NULL = NULL
    Inputs <- MCInputs
    MathValue <- MCMathValue
SPECIFICATION Spec
INVARIANTS
    FreesAreSound
    RejectedParseFreesAll
    RecursiveEvaluationFreesAll
    TableNodesFreedOnce
    EvaluationKeepsOnlyResult
    RecursiveNodesFreedOnce
CHECK_DEADLOCK FALSE
