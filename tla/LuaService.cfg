CONSTANTS
    Co = {c1, c2, c3}
    Service = {b}
    MaxSession = 3
    MaxRequest = 1
    MaxOps = 3
    MaxTerm = 1
SPECIFICATION Spec
INVARIANTS SessionsKept NothingOwed
PROPERTIES ExitReports CallReturns
CHECK_DEADLOCK FALSE
