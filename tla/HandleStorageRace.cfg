CONSTANTS
    Ctx = {c1, c2, c3, c4, c5}
    Nil = Nil
    Launcher = {l1, l2}
    DefaultSlotSize = 2
    HandleMask = 31
    NameCap = 1
    Name = {}
    MaxNames = 0
    MaxIndex = 12
SPECIFICATION HandleSpec
SYMMETRY Symmetric
INVARIANTS NoCollision
CHECK_DEADLOCK FALSE
