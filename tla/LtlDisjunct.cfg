CONSTANTS
    a = a
    b = b
    x = x
    y = y
    MaxLen = 4
    State <- ABXY
    InitState <- Starts
    InitExpr <- Starts
    Trans <- AllTrans
    inv <- Good
    Cex <- CexPaths
SPECIFICATION Spec
INVARIANT FipathIsClosedForm
INVARIANT FormulaIsClosedForm
INVARIANT ExcludesItsOwn
INVARIANT ClassesNest
PROPERTY EndsInFormula
CHECK_DEADLOCK FALSE
