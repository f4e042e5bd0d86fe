CONSTANTS
    MaxFd = 2
    Init_fd2data = 1
    Incr_fd2data = 1
    Caller = {c1}
    MaxEntry = 2
    ServiceCount = 2
    MaxSignal = 2
SPECIFICATION EventsSpec
INVARIANTS DriverInv LifecycleInv
PROPERTIES HangupIsHandled LateStopEndsLoop SignalEndsLoops
CHECK_DEADLOCK FALSE
