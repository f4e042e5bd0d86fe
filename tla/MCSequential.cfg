CONSTANTS
    InitSize = 2
    MaxSize = 8
    SmallHeap = 4
    Key = {0, 1, 2}
    FirstSize = 2
    Data <- Writes
    Count = {0, 1, 2, 3}
    MaxContent = 5
    FrameSize <- FrameSizes
    HeadSize = 2
    Chunk = 3
    Room = 5
    max_send_buf_failed_size = 2
    Stream <- Streams
    MaxParse = 20
    MaxChunk = 44
    SecName = {1, 2}
    KeyName = {1, 2}
    Value = {1, 2}
    Text <- Comments
    File <- Files
    MaxCall = 3
    kBucketUsec = 2
    kTotalBucket = 3
    MinInit = 9
SPECIFICATION SeqSpec
INVARIANTS WellFormed StreamInOrder HttpReadAsSent SavedIsRead TextReadsBack RedisReadsBack SocketsKeepPromises PercentileIsRank
PROPERTIES PriorityQueueSpec LoopsTerminate LoopsComputeOps BufferIsQueue
CHECK_DEADLOCK FALSE
