SPECIFICATION StreamSpec
CONSTANTS
    HeadLength = 2
    TailLength = 2
    SeqMod = 5
    MaxWrites = 5
    MaxRequest = 2
INVARIANTS
    PendingInSequence
    SentPacketsRetained
    MarkerStartsStream
    AudioInOrderOnce
    ResendsAreFaithful
PROPERTY
    ImplementsAudioStream
