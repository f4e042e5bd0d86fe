CONSTANTS
    r1 = r1
    r2 = r2
    r3 = r3
    w1 = w1
    Request = {r1, r2, r3}
    OneWay = {w1}
    Timeout <- MCTimeout
    Protect = 1
    Window = 3
    LastInvoke = 0
SPECIFICATION FairSpec
INVARIANTS RequestsTracked
PROPERTIES AnswerReleases NoEarlyTimeout
