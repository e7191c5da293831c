CONSTANTS
    Coroutine = {c1, c2, c3, c4}
    NoThread = NoThread
    MaxDepth = 3
    Slave = {s1, s2, s3}
    Name = {n}
    None = None
    MaxOps = 2
    MaxFaults = 1
    Subscriber = {1, 2, 3}
    MaxPub = 2
    MaxCalls = 3
    Caller = {1, 2, 3, 4, 5}
    MaxHandle = 2
    Req = {q1, q2, q3}
    NoReq = NoReq
    User = User
    MaxFd = 3
    MaxLost = 2
    MaxUser = 1
    Reader = {r1, r2}
    Writer = Writer
    MaxUpdate = 2
    MaxRead = 3
    Client = {a, b}
    MaxObj = 3
    MaxQuery = 2
    MaxDeaths = 1
    Here = Here
    There = There
    MaxReload = 2
    MaxAsk = 2
    MaxRegister = 3
    Waiter = {w1, w2, w3}
SPECIFICATION ServicesSpec
SYMMETRY Symmetric
INVARIANTS SectionInv HarborNetInv MulticastInv RegistryInv ChannelInv StmInv SharedDataInv ClusterInv
CHECK_DEADLOCK FALSE
