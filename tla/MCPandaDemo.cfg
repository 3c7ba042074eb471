SPECIFICATION FairSpec
CONSTANTS
    Trajs <- MCTrajs
    Null = Null
    Empty <- MCEmpty
    Duration <- MCDuration
    Period = 1
    MaxLate = 1
    MaxInterrupts = 1
\* main ends
CHECK_DEADLOCK FALSE
INVARIANTS
    TypeOK
    NoUseAfterDestruction
    QuietBeforeLog
    HandOffReachesExecutor
PROPERTIES
    EndsUnlessWakeupLost
    PlanIsPlayed
