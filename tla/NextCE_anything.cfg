CONSTANTS
    a = a
    b = b
    x = x
    y = y
    MaxLen = 3
    State <- ABXY
    InitState <- BadInit
    InitExpr <- BadInit
    Trans <- LoopTrans
    NProps = 1
    Inv <- GoodAB
    Cex <- CexPrefixes
    OtherTrace <- SafePaths
    Class = {1, 2, 3, 4, 5}
    MaxTraces = 2
    MaxDisjuncts = 1
    InterruptAt = {"prepare", "check", "explain", "commit"}
    ResetUnchecked = TRUE
    CexOff = TRUE
SPECIFICATION Spec
INVARIANT TypeOK
INVARIANT AnchorIsCex
INVARIANT NoMoreMeansCovered
CHECK_DEADLOCK FALSE
