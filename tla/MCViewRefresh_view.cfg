SPECIFICATION FairSpec
CONSTANTS
    today = today
    week = week
    last7 = last7
    last30 = last30
    picked = picked
    Tab = {today, week}
    Preset = {last7, last30}
    Dates = {picked}
    Custom = Custom
    DefaultTab = today
    DefaultRange = last30
    NoDates = NoDates
    NoData = NoData
    NoCharts = NoCharts
    MaxSeq = 3
    MaxCommits = 1
    MaxErrors = 1
    MayNotOpen = TRUE
INVARIANT TypeOK
INVARIANT BallIsPaired
INVARIANT WorkerSawLastRefresh
INVARIANT UndroppedRefreshIsShown
PROPERTY RefreshIsAnswered
