SPECIFICATION FairSpec
CONSTANTS
    MaxLines = 3
    MaxFaults = 2
    Body = 2
INVARIANT ReadInv
INVARIANT KnownLinesAreFilled
INVARIANT UnsplitRowsAreTheirLine
PROPERTY EventuallyFilled
CHECK_DEADLOCK FALSE
