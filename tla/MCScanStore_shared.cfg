\* Two processes scanning one growing file into the same database.
CONSTANTS
    a = a  b = b  desktop = desktop  tui = tui  proj = proj
    Path = {a}
    Process = {desktop, tui}
    Project = {proj}
    ProjectOf <- OneProject
    Incremental = TRUE
    MaxFileSize = 4
    InsertBatch = 1
    Flaky = {}
    Deletable = {}
    NoFile = NoFile
    NoFingerprint = NoFingerprint
    MaxBytes = 4
    MaxClock = 1
    MaxFaults = 0
SPECIFICATION Spec
INVARIANTS KnownFilesAreHeld QuietTreeIsHeld
SYMMETRY ProcessSymmetry
