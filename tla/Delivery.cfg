CONSTANTS
    Msg = {m1, m2}
    NoMsg = NoMsg
    DefaultQueueSize = 2
    MQOverload = 1
    MaxLength = 4
    Near = 2
    Level = 2
    Delay <- AllDelays
    MaxTimers = 3
    MaxDiff = 1
SPECIFICATION DeliverySpec
INVARIANTS RingInv WheelInv
PROPERTIES ImplementsFifo OverloadCovered ImplementsTimeouts EventuallyDelivered
