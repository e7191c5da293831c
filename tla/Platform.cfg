CONSTANTS
    Thread = {t1, t2, t3}
    Sock = {a, b}
    Waiter = {w}
    Caller = {c}
    MaxReg = 2
    GroupSize = 1
    MaxEvents = 1
    MaxOps = 2
    Key = {1, 2, 3, 4, 5, 6, 7, 8, 9, 10}
SPECIFICATION PlatformSpec
INVARIANTS MutualExclusion PollInv TreeInv
PROPERTIES WriterEnters EventsReported
CHECK_DEADLOCK FALSE
