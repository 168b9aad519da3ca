SPECIFICATION FairSpec
CONSTANTS
    Users = {u1}
    SeqMod = 4
    MaxLate = 1
INVARIANTS
    AnswersLagByTimeouts
    
    
PROPERTIES
    RightPasswordIsKept
    CallsEnd
    BuildingEnds
