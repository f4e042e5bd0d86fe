CONSTANTS
    Con = {s1, s2}
    delay_delete_times = 1
    delete_interval_times = 1
    ReplyWithin = 1
    Req = {r1, r2}
    MaxConnect = 2
    NoSocket = NoSocket
    HB = HB
    Thread = {t1, t2}
    ClientCount = 2
    Width = 6
    Wide = 9
SPECIFICATION ConnectionsSpec
INVARIANTS DeletedOnce ClientInv BusyHasOneOwner UndisturbedSearchSeesAll
PROPERTIES QuietOutlivesMessages ReleasedIsDeleted RequestsReleased
CHECK_DEADLOCK FALSE
