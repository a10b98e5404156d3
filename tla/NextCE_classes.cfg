CONSTANTS
    a = a
    b = b
    x = x
    y = y
    MaxLen = 4
    State <- ABXY
    InitState <- OneInit
    InitExpr <- OneInit
    Trans <- LoopTrans
    NProps = 1
    Inv <- GoodAB
    Cex <- CexPaths
    OtherTrace <- SafePaths
    Class = {1, 2, 3, 4}
    MaxTraces = 3
    MaxDisjuncts = 2
    InterruptAt = {"prepare", "check"}
    ResetUnchecked = FALSE
    CexOff = FALSE
SPECIFICATION Spec
INVARIANT AnchorIsCex
INVARIANT NextIsNew
INVARIANT NoMoreMeansCovered
INVARIANT NeverDies
INVARIANT NeverFails
PROPERTY Enumerates
