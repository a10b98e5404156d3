CONSTANTS
    a = a
    b = b
    x = x
    y = y
    MaxLen = 3
    State <- ABXY
    InitState <- OneInit
    InitExpr <- OneInit
    Trans <- LoopTrans
    NProps = 1
    Inv <- GoodAll
    Cex <- CexPrefixes
    OtherTrace <- NoPaths
    Class = {4}
    MaxTraces = 4
    MaxDisjuncts = 2
    InterruptAt = {}
    ResetUnchecked = FALSE
    CexOff = FALSE
SPECIFICATION Spec
INVARIANT NeverDies
