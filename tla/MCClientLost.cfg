CONSTANTS
    Req = {r1, r2}
    MaxConnect = 3
    NoSocket = NoSocket
    HB = HB
SPECIFICATION ClientFairSpec
PROPERTIES BrokenIsRetried
CHECK_DEADLOCK FALSE
