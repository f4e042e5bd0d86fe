CONSTANTS
    r1 = r1
    r2 = r2
    r3 = r3
    w1 = w1
    Request = {r1, r2}
    OneWay = {}
    Timeout <- MCTimeout
    Protect = 1
    Window = 2
    LastInvoke = 0
SPECIFICATION FairSpec
PROPERTIES ReleasedByAnswerOrTimeout
