SPECIFICATION Spec
CONSTANTS
    p1 = p1
    p2 = p2
    WorkWidth = 60
    Points = {5, 12, 56}
    Grabs = {1}
    MinHalf = 6
    MaxHalf = 9
    PopHalf = 1
    Steps = 2
    MaxCommands = 2
    None = None
    Sizes = {0, 5, 6, 9}
    MinSize = 5
    DefaultSize = 7
    Displays = {4, 6, 10}
    MaxUnread = 2
    NoSize = NoSize
    MaxToggles = 3
    Programs = {p1, p2}
    NoProgram = NoProgram
    Builds <- MCBuilds
    Models <- MCModels
    Aliases <- MCAliases
    Request <- MCRequest
    HighContext = 2
    NoModel = NoModel
    Intervals = {2, 60, 300}
    MinInterval = 5
    MaxWakes = 2
    GridDays = 15
    MonthStarts <- MCMonthStarts
    YearStarts <- MCYearStarts
    Clocks = {13, 14}
    EarlyUses <- MCEarlyUses
    MaxUses = 1
INVARIANTS BallInv RestingBallIsWhole SizeInv AutostartInv RebuildInv SchedulerInv ReportInv
CHECK_DEADLOCK FALSE
