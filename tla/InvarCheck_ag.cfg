CONSTANTS
    State <- FiveStates
    Machine <- SomeMachines
    Strategy <- AllStrategies
    MaxBmc = 3
SPECIFICATION Spec
INVARIANT AgTraceIsCounterExample
