SPECIFICATION Spec
CONSTANTS
    HeadLength = 1
    TailLength = 0
    SeqMod = 2
    MaxWrites = 2
    MaxRequest = 1
    Devices = {d1, d2}
    Managers = {m1, m2}
    Overlap = {"shut", "lose"}
    Lossy = {d1}
    RecursiveMutex = TRUE
SYMMETRY ManagerSymmetry
INVARIANTS
    AttachedDevicesExist
    RoomIsKept
    SteadyDevicesSyncFirst
PROPERTY
    EngineImplementsStream
