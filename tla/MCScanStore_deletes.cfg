\* A shrinking tree: files removed, oversized, or failing to be read.
CONSTANTS
    a = a  b = b  desktop = desktop  tui = tui  proj = proj
    Path = {a, b}
    Process = {desktop}
    Project = {proj}
    ProjectOf <- OneProject
    Incremental = TRUE
    MaxFileSize = 2
    InsertBatch = 1
    Flaky = {a}
    Deletable = {b}
    NoFile = NoFile
    NoFingerprint = NoFingerprint
    MaxBytes = 3
    MaxClock = 0
    MaxFaults = 0
SPECIFICATION Spec
INVARIANTS KnownFilesAreHeld
