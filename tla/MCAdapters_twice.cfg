SPECIFICATION Spec
CONSTANTS
    Tools = {"workbuddy"}
    Calls <- MCCalls
    Bill <- MCBill
    MaxTurns = 2
INVARIANT SessionsAreCountedOnce
CHECK_DEADLOCK FALSE
