CONSTANTS
    p = p
    q = q
    Nil = Nil
    Slot <- TwoSlots
    StateVal = {1}
    InputVal = {}
    FrozenVal = {}
    MaxSteps = 2
SPECIFICATION Spec
PROPERTY FullCopyEquals
CHECK_DEADLOCK FALSE
