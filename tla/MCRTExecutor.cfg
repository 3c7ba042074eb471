SPECIFICATION FairSpec
CONSTANTS
    Trajs <- MCTrajs
    Null = Null
    Empty <- MCEmpty
    Duration <- MCDuration
    Period = 2
    Setters = {s1, s2}
    MaxSets = 3
    MaxStarts = 2
    MaxLate = 2
    MaxInterrupts = 1
INVARIANTS
    TypeOK
    QuietAfterStop
    PlaybackCoherent
    HeldNearEnd
    DriftFree
PROPERTIES
    PickedUp
    StopReturns
    ImplementsPlayback
