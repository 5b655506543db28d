SPECIFICATION Spec
CONSTANTS
    Handlers = {h1, h2}
    MaxAttempts = 5
INVARIANT SerialLocksInTime
PROPERTY GuessingLocks
CHECK_DEADLOCK FALSE
