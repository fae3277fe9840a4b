SPECIFICATION ShellSpec
CONSTANTS
    Procs = {p1, p2}
    Retries = 2
    MaxPending = 2
    NoProc = NoProc
INVARIANT ShellInv
PROPERTY ShellAnswers
CHECK_DEADLOCK FALSE
