CONSTANTS
    Worker = {w1, w2}
    Free = Free
    Services = 1
    MaxJobs = 3
SPECIFICATION Spec
INVARIANT SleepInv
PROPERTY NobodyStuck
CHECK_DEADLOCK FALSE
