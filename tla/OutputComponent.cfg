SPECIFICATION PollingSpec
CONSTANTS
    Capacity = 3
    PacketSize = 2
    QueueLength = 1
    MaxSleeps = 1
    MaxPolls = 1
    LongPause = 2
    MaxBytes = 4
INVARIANTS
    EveryByteAccountedFor
    GracefulMeansEmpty
PROPERTIES
    SilenceOnlyAtTheEnd
    CallsReturn
    BufferedDrains
