\* One process, two files that only grow: crashes, failed flushes, torn lines.
CONSTANTS
    a = a  b = b  desktop = desktop  tui = tui  proj = proj
    Path = {a, b}
    Process = {desktop}
    Project = {proj}
    ProjectOf <- OneProject
    Incremental = TRUE
    MaxFileSize = 3
    InsertBatch = 2
    Flaky = {}
    Deletable = {}
    NoFile = NoFile
    NoFingerprint = NoFingerprint
    MaxBytes = 3
    MaxClock = 0
    MaxFaults = 1
SPECIFICATION FairSpec
INVARIANTS TypeOK ScanInv
PROPERTIES ImplementsLedger EventuallyHeld
