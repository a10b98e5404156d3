CONSTANTS
    State <- FiveStates
    Machine <- SomeMachines
    Strategy <- AllStrategies
    MaxBmc = 3
SPECIFICATION Spec
INVARIANT TypeOK
INVARIANT CacheIsExact
INVARIANT LayersGrow
INVARIANT VerdictIsRight
INVARIANT NeverStuck
INVARIANT TraceIsShortest
INVARIANT AgTraceIsChain
PROPERTY NeverForgets
PROPERTY AnswersLikeAnOracle
