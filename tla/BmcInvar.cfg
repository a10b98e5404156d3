CONSTANTS
    State <- FourStates
    Machine <- SomeMachines
    Algorithm <- AllAlgorithms
    Length <- SomeLengths
    LastTime = 3
SPECIFICATION Spec
INVARIANT TypeOK
INVARIANT VerdictIsRight
INVARIANT TraceIsShortest
INVARIANT UnknownIsHonest
INVARIANT DecidedInTime
INVARIANT NothingLeftOver
PROPERTY AnswersLikeAnOracle
