SPECIFICATION FairSpec
CONSTANTS
    Frontends = {"window", "portable window", "terminal"}
    MaxVersion = 3
    Chunks = 3
    MaxTasks = 4
    MaxFaults = 2
INVARIANT TypeOK
INVARIANT WindowIsBusy
INVARIANT WindowFileIsWhole
INVARIANT SkippedIsNotOffered
PROPERTY BusyEnds
CHECK_DEADLOCK FALSE
