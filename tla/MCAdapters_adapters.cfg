SPECIFICATION Spec
CONSTANTS
    Tools = {"claude", "codex", "gemini", "antigravity", "codebuddy", "workbuddy", "opencode",
             "qoder", "openclaw", "deepseek", "pi", "trae", "atomcode", "codearts", "teleagent"}
    Calls <- MCCalls
    Bill <- MCBill
    MaxTurns = 2
INVARIANTS
    TypeOK
    CountedOnce
    UnchangedIsCounted
    BucketsMatchTheBill
    RowsAreAttributed
CHECK_DEADLOCK FALSE
