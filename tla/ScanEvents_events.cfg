SPECIFICATION FairSpec
CONSTANTS
    Thread = {"t1"}
    Total = 2
    Absent = {}
    Periodic = TRUE
    Foreign = TRUE
    MaxUses = 1
    MaxFaults = 1
    MaxEvents = 0
INVARIANT TypeOK
INVARIANT UndisturbedScanEnds
INVARIANT QuietScreenIsCurrent
PROPERTY EventuallyShown
PROPERTY SettingIsSaved
