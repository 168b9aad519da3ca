SPECIFICATION FairSpec
CONSTANTS
    HeadLength = 1
    TailLength = 0
    SeqMod = 2
    MaxWrites = 2
    MaxRequest = 1
    Devices = {d1, d2}
    Managers = {m1}
    Overlap = {}
    Lossy = {d1}
    RecursiveMutex = TRUE

    
PROPERTIES
    OperationsEnd
    WaitingAudioLeaves
