CONSTANTS
    a = a
    b = b
    x = x
    y = y
    MaxLen = 3
    State <- ABXY
    InitState <- TwoInit
    InitExpr <- TwoInit
    Trans <- ChainTrans
    NProps = 1
    Inv <- GoodAB
    Cex <- CexPrefixes
    OtherTrace <- NoPaths
    Class = {1, 3}
    MaxTraces = 4
    MaxDisjuncts = 2
    InterruptAt = {}
    ResetUnchecked = FALSE
    CexOff = FALSE
SPECIFICATION Spec
INVARIANT NextIsNew
