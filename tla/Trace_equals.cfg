CONSTANTS
    p = p
    q = q
    Nil = Nil
    Slot <- TwoSlots
    StateVal = {1}
    InputVal = {}
    FrozenVal = {1, 2}
    MaxSteps = 2
SPECIFICATION Spec
INVARIANT EqualsIsExact
CHECK_DEADLOCK FALSE
