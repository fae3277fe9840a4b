\* A read failure hidden by the change detector.
CONSTANTS
    a = a  b = b  desktop = desktop  tui = tui  proj = proj
    Path = {a, b}
    Process = {desktop}
    Project = {proj}
    ProjectOf <- OneProject
    Incremental = TRUE
    MaxFileSize = 3
    InsertBatch = 2
    Flaky = {b}
    Deletable = {}
    NoFile = NoFile
    NoFingerprint = NoFingerprint
    MaxBytes = 3
    MaxClock = 0
    MaxFaults = 1
SPECIFICATION Spec
INVARIANT UnchangedTreeIsHeld
