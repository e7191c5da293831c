CONSTANTS
    w1 = w1
    w2 = w2
    Ctx = {a, b, c}
    Boot = {a, b}
    Harbor = {b, c}
    NoCtx = NoCtx
    Worker = {w1, w2}
    Outsider = {o}
    Weight <- MCWeight
    MonitorExit = b
    MaxOps = 2
SPECIFICATION Spec
INVARIANTS MailboxOwned RefExact NoUseAfterFree AssertsHold
PROPERTY NothingForgotten
CHECK_DEADLOCK FALSE
