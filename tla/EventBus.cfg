SPECIFICATION BusSpec
CONSTANTS
    ChannelCount = 2
    Capacity = 2
    MaxOrder = 3
    MaxSubscribers = 3
    MaxTick = 2
CHECK_DEADLOCK FALSE
PROPERTIES
    HeardExactlyOnce
    ImplementsEventQueue
