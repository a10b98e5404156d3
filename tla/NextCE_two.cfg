CONSTANTS
    a = a
    b = b
    x = x
    y = y
    MaxLen = 3
    State <- ABXY
    InitState <- OneInit
    InitExpr <- OneInit
    Trans <- LoopTrans
    NProps = 2
    Inv <- TwoProps
    Cex <- CexPrefixes
    OtherTrace <- SafePaths
    Class = {3, 4}
    MaxTraces = 3
    MaxDisjuncts = 1
    InterruptAt = {"prepare", "check"}
    ResetUnchecked = FALSE
    CexOff = FALSE
SPECIFICATION FairSpec
INVARIANT NextIsNew
INVARIANT NoMoreMeansCovered
PROPERTY Enumerates
PROPERTY CommandEnds
