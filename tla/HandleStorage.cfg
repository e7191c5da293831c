CONSTANTS
    Ctx = {c1, c2, c3, c4}
    Nil = Nil
    Launcher = {l1, l2}
    DefaultSlotSize = 1
    HandleMask = 3
    NameCap = 1
    Name = {1, 2}
    MaxNames = 2
    MaxIndex = 4
SPECIFICATION HandleSpec
SYMMETRY Symmetric
INVARIANTS StorageSound RetireAllComplete
CHECK_DEADLOCK FALSE
