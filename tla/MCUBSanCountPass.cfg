SPECIFICATION Spec
CONSTANTS
    Half = 4
    Programs <- MCPrograms
CHECK_DEADLOCK FALSE
INVARIANTS TypeOK NoSilentOverflow ReportsKept CountdownFreed SurvivorsReported
