CONSTANTS
    r1 = r1
    r2 = r2
    r3 = r3
    w1 = w1
    Request = {r1, r2, r3}
    OneWay = {}
    Timeout <- MCTimeout
    Protect = 1
    Window = 1
    LastInvoke = 2
SPECIFICATION FairSpec
INVARIANTS OneTimerPerRequest
PROPERTIES ReleasedByAnswerOrTimeout
