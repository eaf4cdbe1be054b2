SPECIFICATION FairLife
CONSTANTS
    WithConsul = TRUE
    MaxInterrupts = 2
INVARIANTS DeregisteredAtExit UpServersClosed
PROPERTY InterruptExits
CHECK_DEADLOCK FALSE
