CONSTANTS
    p = p
    q = q
    Nil = Nil
    Slot <- TwoSlots
    StateVal = {1}
    InputVal = {1}
    FrozenVal = {1, 2}
    MaxSteps = 2
SPECIFICATION Spec
INVARIANT TypeOK
INVARIANT LengthCountsSteps
INVARIANT LoopbackClosesLoop
PROPERTY FrozenIsImmutable
PROPERTY RegisteredSurvives
PROPERTY ValuesPersist
SYMMETRY Symmetric
CHECK_DEADLOCK FALSE
