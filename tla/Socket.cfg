CONSTANTS
    Worker = {w1, w2}
    Slots = 1
    AcceptSlots = 2
    Size = 2
    Kinds = {"O", "B"}
    AcceptKinds = {"L"}
    MaxId = 2
    MaxMsg = 2
    MaxCtl = 1
    AcceptCtl = 3
    MaxSending = 2
    Early = FALSE
SPECIFICATION SocketSpec
INVARIANTS StreamKept BuffersCounted WriteEventArmed
CHECK_DEADLOCK FALSE
SYMMETRY Symmetry
