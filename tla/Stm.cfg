\* One writer and two readers; the comment at lua-stm.c:77.
CONSTANTS
    Reader = {r1, r2}
    Writer = Writer
    MaxUpdate = 2
    MaxRead = 3
SPECIFICATION StmSpec
INVARIANT NobodyInside
CHECK_DEADLOCK FALSE
