SPECIFICATION FairSpec
CONSTANTS
    Refs = {r1, r2, r3, r4}
    NoRef = NoRef
    Services = {s1, s2}
    Speakers = {s1}
    Dialogs = {g1}
    Openers = {o1}
    Overlap = {}
    MaxInputs = 5
INVARIANTS
    RefsAreSound
    AnswerIsForItsService
    ListenersKnowDevices
CHECK_DEADLOCK FALSE

    
    
