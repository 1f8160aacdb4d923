SPECIFICATION MCSpec
CONSTANTS
    x = x
    y = y
    Sim = {1, 2, 3}
    ModelPath = {x, y}
CHECK_DEADLOCK FALSE
INVARIANTS
    TypeOK
    KahnInv
    CycleIsReal
PROPERTIES
    ImplementsJobOrder
