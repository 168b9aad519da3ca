SPECIFICATION FairSpec
CONSTANTS
    Speakers = {s1, s2}
    Receivers = {s2}
    Steps = {2}
    Depth = 3
    Margin = 1
    MaxRemote = 1
    MaxLost = 1
CHECK_DEADLOCK FALSE
INVARIANTS
    SpeakersHearTheirVolume
PROPERTIES
    
    SpeakersComeToTarget
