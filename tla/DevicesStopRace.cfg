SPECIFICATION FairSpec
CONSTANTS
    HeadLength = 1
    TailLength = 0
    SeqMod = 2
    MaxWrites = 2
    MaxRequest = 1
    Devices = {d1}
    Managers = {m1}
    Overlap = {"shut", "lose"}
    Lossy = {}
    RecursiveMutex = TRUE
PROPERTY
    StopReturns
