SPECIFICATION Spec
CONSTANTS
    InChannels = 1
    InSample = 1
    OutSample = 2
    Up = 3
    Down = 2
    Ahead = 1
    BufferFrames = 8
    PacketFrames = 3
    QueueLength = 2
    MaxBytes = 14
    MaxOpens = 1
CHECK_DEADLOCK FALSE
INVARIANTS
    RoomSuffices
    StereoIsFaithful
    PlayedWasWritten
