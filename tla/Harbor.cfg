CONSTANTS
    Self = 1
    Peer = {2, 3}
    Service = {1, 2}
    Name = {n}
    MaxSent = 3
    Fd = {1, 2}
    QueueSize = 1
    HashSize = 1
    MaxOpen = 3
    MaxAsleep = 2
    Id = {1, 2, 3}
    Cap = 2
    MaxBox = 1
    Session = {1}
    MaxFd = 3
    MaxReq = 3
    MaxRun = 4
    Expired = 1
    MaxClient = 2
    Sizes = {1, 2}
    Limit = 4
    FirstChunk = 1
    Windows = FALSE
    Null = null
    Byte = 4
    MaxFF = 3
    MaxBuffer = 128
    Buffer = 8
    MaxSession = 2
    MaxWords = 5
    MaxCookie = 4
    BlockSize = 5
    MaxDepth = 2
    MaxArgs = 2
SPECIFICATION HarborSpec
INVARIANTS MessagesKept WireInv FramesKept MsgServerInv ValuesKept
CHECK_DEADLOCK FALSE
