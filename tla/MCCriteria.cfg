SPECIFICATION Spec
CONSTANTS
    x = x
    y = y
    MaxName = MaxName
    Nothing = Nothing
CHECK_DEADLOCK FALSE
INVARIANTS
    EvaluatorMeetsGrammar
