CONSTANTS
    NoData = NoData
    Producer = {p1, p2}
    Consumer = {c1, c2}
    Data = {d1, d2}
    real_queue_size_ = 3
    Padded = TRUE
    MaxHead = 4
    Sender = {t1, t2}
    Kind <- Items
    kBucketUsec = 2
    kTotalBucket = 2
    MinInit = 9
    TokenWidth = 2
    bucket_count_ = 2
    queue_size_ = 1
    MAX_PUSH_FAILED_TO_PAUSE = 0
    PAUSE_TIMES_SECOND = 1
    Period = 1
    MaxItem = 3
    MaxTime = 1
SPECIFICATION MonitorSpec
INVARIANTS RingOK ItemsConserved MarkEndTakesOwn StatsAreHistory
PROPERTIES FifoSpec LockReleased QueuedIsCounted
CHECK_DEADLOCK FALSE
